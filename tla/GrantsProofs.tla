---------------------------- MODULE GrantsProofs ----------------------------
(***************************************************************************)
(* Theorems of Grants, for any number of requests, replicas, tokens and    *)
(* faults: type correctness, that clients hold one token for every         *)
(* generation of the grant, and that a revocation is final.  The first two *)
(* need Frame, what requests know of tokens and who owns which record; the *)
(* third needs Revoked besides, what a stored tombstone leaves behind.     *)
(***************************************************************************)
EXTENDS Grants, FiniteSetTheorems, SequenceTheorems, WellFoundedInduction, TLAPS

-----------------------------------------------------------------------------
(* The tokens and who works with them.                                     *)

\* What a request knows.
WorkRecord == [at : Call \cup Ended,
               tok : 0 .. MaxTokens, over : SUBSET Request, gen : Nat,
               succ : 0 .. MaxTokens, got : 0 .. MaxTokens,
               late : BOOLEAN, after : BOOLEAN, reuse : BOOLEAN]

\* Tokens made so far.
Made == 1 .. Len(tokens)

\* Calls of a request that presents a token, and of one that rotates it: until
\* the grant is written, and from then on.
TokenCalls == {"index", "grant", "sgrant", "live", "slive", "claim", "idp", "put", "undo",
               "unclaim", "seal", "retire", "dropgrant", "spent", "old", "await", "awaitgrant",
               "succ", "judge", "reuse", "rindex", "rgrant", "rrevoke", "rdelete", "rdrop"}

Unsettled == {"idp", "issue", "put", "undo", "unclaim"}

Rotating == Unsettled \cup {"seal", "retire", "check", "drop", "dropgrant"}

\* What the generations and predecessors of the tokens are: only the first has
\* no predecessor, and every other was made for a token some client was given.
Ancestry ==
    \A n \in Made :
        /\ tokens[n].gen <= n
        /\ tokens[n].from = 0 => n = 1 /\ tokens[n].gen = 1
        /\ tokens[n].from # 0 =>
            /\ tokens[n].from \in Handed
            /\ tokens[n].gen = tokens[tokens[n].from].gen + 1

\* What a request knows of tokens is right.
Knows(r) ==
    /\ work[r].tok # 0 => work[r].tok \in Handed
    /\ work[r].succ # 0 => work[r].succ \in Made
    /\ work[r].got # 0 => work[r].at = "done" /\ work[r].got \in Made
    /\ work[r].at \in TokenCalls => work[r].tok # 0
    /\ work[r].at \in {"code", "pending", "activate"} => work[r].tok = 0
    /\ work[r].at \in {"claim", "idp"} => work[r].gen = tokens[work[r].tok].gen
    /\ work[r].at = "issue" =>
        work[r].gen = IF work[r].tok = 0 THEN 1 ELSE tokens[work[r].tok].gen + 1
    /\ work[r].at \in {"put", "undo", "seal", "retire", "check", "drop"} =>
        /\ work[r].succ # 0
        /\ tokens[work[r].succ].from = work[r].tok
    /\ work[r].at \in {"put", "seal"} => work[r].gen = tokens[work[r].succ].gen

\* The spent records, and the requests that own them.
Records ==
    \A t \in Token :
        /\ spent[t].by = Nobody => spent[t].succ = 0
        /\ spent[t].by # Nobody => t \in Handed
        /\ spent[t].succ # 0 => spent[t].succ \in Made /\ tokens[spent[t].succ].from = t

\* The record of a token names the request that rotates it, and the successor once
\* that is sealed.
Owns(r) ==
    /\ work[r].at \in Rotating /\ work[r].tok # 0 => spent[work[r].tok].by = r
    /\ work[r].at \in Unsettled \cup {"seal"} /\ work[r].tok # 0 => spent[work[r].tok].succ = 0
    /\ work[r].at \in {"retire", "check", "drop"} /\ work[r].tok # 0 =>
        spent[work[r].tok].succ \in {0, work[r].succ}
    /\ work[r].at \in {"succ", "sgrant", "slive"} =>
        work[r].succ # 0 /\ spent[work[r].tok].succ = work[r].succ

\* The token clients are given for t.
Successor(t) ==
    IF spent[t].succ # 0 THEN spent[t].succ
    ELSE IF spent[t].by = Nobody THEN 0 ELSE work[spent[t].by].got

\* A request was answered with the successor of the token it presented.
Given(r) ==
    work[r].got # 0 =>
        /\ tokens[work[r].got].from = work[r].tok
        /\ work[r].tok # 0 => work[r].got = Successor(work[r].tok)

\* The code is redeemed once.
Opening(r) == work[r].at \in {"pending", "activate"} \/ (work[r].at = "issue" /\ work[r].tok = 0)

\* Until the code is redeemed there is no token, and then one request opens the
\* grant.
Opened ==
    /\ ~codeUsed => /\ grant.st = "pending" /\ tokens = <<>> /\ ~dead
                    /\ \A r \in Request : work[r].at \in {"new", "code", "done", "stopped"}
    /\ \A r \in Request : Opening(r) => tokens = <<>>
    /\ \A r, q \in Request : Opening(r) /\ Opening(q) => r = q
    /\ tokens # <<>> \/ (\E r \in Request : work[r].at = "issue") => grant.st # "pending"

-----------------------------------------------------------------------------
(* Revocation.                                                             *)

\* Calls that lead to no token.
QuietCalls == {"code", "revoke", "reuse", "index", "grant", "live", "old", "spent", "judge",
               "rindex", "rgrant", "rrevoke"} \cup Ended

\* Calls of a request that presents a token, before it met the spent record.
Presenting == {"index", "grant", "live", "old", "spent"}

\* No client has a token of the grant's generation.
Outdated == grant.st = "active" => \A u \in Handed : tokens[u].gen # grant.gen

\* A revocation that was stored leaves nothing to refresh with: while its
\* tombstone is there a request is still to delete the grant, and afterwards no
\* request can get as far as a new token.
Buried ==
    dead /\ ~failed => Outdated \/ \E q \in Request : work[q].at \in {"delete", "rdelete"}

\* Once the tombstone has ended, nobody has a token of the grant's generation, no
\* grace runs, and no request gets as far as a token.
Quiescent ==
    /\ Outdated
    /\ GraceOn => \A t \in Token : spent[t].by \in over \cup {Nobody}
    /\ \A r \in Request :
        /\ work[r].at \in QuietCalls
        /\ GraceOn /\ work[r].at \in Presenting => spent[work[r].tok].by \in work[r].over \cup {Nobody}
        /\ work[r].at = "live" => tokens[work[r].tok].gen # work[r].gen

\* The invariant of the revocation.
Revoked ==
    /\ tomb => dead
    /\ \A r \in Request : work[r].after => dead
    /\ Buried
    /\ dead /\ ~failed /\ ~tomb => Quiescent
    /\ RevokedIsFinal

-----------------------------------------------------------------------------
(* What a step does to the record of its request.                          *)

\* What requests know has its type.
WorkT == work \in [Request -> WorkRecord]

\* The other requests are where they were.
Rest(r) == \A q \in Request \ {r} : work'[q] = work[q]

\* Request r goes on to call c, with graces o, generation g, successor s and
\* lateness l.
To(r, c, o, g, s, l) ==
    /\ Rest(r)
    /\ work'[r].at = c /\ work'[r].over = o /\ work'[r].gen = g /\ work'[r].succ = s
    /\ work'[r].late = l
    /\ work'[r].tok = work[r].tok /\ work'[r].got = work[r].got
    /\ work'[r].after = work[r].after /\ work'[r].reuse = work[r].reuse

\* The request moved to call c, knowing what it knew.
MoveTo(r, c) == To(r, c, work[r].over, work[r].gen, work[r].succ, work[r].late)

\* ... or ends, given n.
Finished(r, n) ==
    /\ Rest(r)
    /\ work'[r].at = "done" /\ work'[r].over = {} /\ work'[r].gen = 0 /\ work'[r].succ = 0
    /\ work'[r].got = n /\ work'[r].tok = IF n = 0 THEN 0 ELSE work[r].tok
    /\ work'[r].after => n # 0 /\ work[r].after
    /\ work'[r].reuse = work[r].reuse

LEMMA NewFields ==
    /\ New \in WorkRecord
    /\ New.at = "new" /\ New.tok = 0 /\ New.over = {} /\ New.gen = 0 /\ New.succ = 0 /\ New.got = 0
    /\ New.late = FALSE /\ New.after = FALSE /\ New.reuse = FALSE
BY GrantsAssumption DEF WorkRecord, New, Ended

LEMMA FieldTypes ==
    ASSUME NEW w \in WorkRecord
    PROVE  /\ w.at \in Call \cup Ended /\ w.tok \in 0 .. MaxTokens /\ w.over \in SUBSET Request
           /\ w.gen \in Nat /\ w.succ \in 0 .. MaxTokens /\ w.got \in 0 .. MaxTokens
           /\ w.tok \in Nat /\ w.succ \in Nat /\ w.got \in Nat
           /\ w.late \in BOOLEAN /\ w.after \in BOOLEAN /\ w.reuse \in BOOLEAN
BY GrantsAssumption DEF WorkRecord

\* The record a Goto leaves, with the changes the actions make.
LEMMA ToFacts ==
    ASSUME WorkT, NEW r \in Request, NEW c \in Call \cup Ended
    PROVE  /\ Goto(r, c, work[r]) => WorkT' /\ MoveTo(r, c)
           /\ \A g \in Nat : Goto(r, c, [work[r] EXCEPT !.gen = g]) =>
                WorkT' /\ To(r, c, work[r].over, g, work[r].succ, work[r].late)
           /\ \A s \in 0 .. MaxTokens : Goto(r, c, [work[r] EXCEPT !.succ = s]) =>
                WorkT' /\ To(r, c, work[r].over, work[r].gen, s, work[r].late)
           /\ \A s \in 0 .. MaxTokens : Goto(r, c, [work[r] EXCEPT !.over = {}, !.succ = s]) =>
                WorkT' /\ To(r, c, {}, work[r].gen, s, work[r].late)
           /\ Goto(r, c, [work[r] EXCEPT !.over = {}]) =>
                WorkT' /\ To(r, c, {}, work[r].gen, work[r].succ, work[r].late)
           /\ Goto(r, c, [work[r] EXCEPT !.over = {}, !.late = TRUE]) =>
                WorkT' /\ To(r, c, {}, work[r].gen, work[r].succ, TRUE)
<1> DEFINE w == work[r]
<1>w. w \in WorkRecord
  BY DEF WorkT
<1>g. ASSUME NEW x \in WorkRecord, Goto(r, c, x)
      PROVE  WorkT' /\ Rest(r) /\ work'[r] = [x EXCEPT !.at = c]
  <2>1. [x EXCEPT !.at = c] \in WorkRecord
    BY DEF WorkRecord
  <2> QED BY <1>g, <2>1 DEF Goto, WorkT, Rest
<1>f. ASSUME NEW x \in WorkRecord
      PROVE  /\ [x EXCEPT !.at = c].at = c /\ [x EXCEPT !.at = c].tok = x.tok
             /\ [x EXCEPT !.at = c].over = x.over /\ [x EXCEPT !.at = c].gen = x.gen
             /\ [x EXCEPT !.at = c].succ = x.succ /\ [x EXCEPT !.at = c].got = x.got
             /\ [x EXCEPT !.at = c].late = x.late /\ [x EXCEPT !.at = c].after = x.after
             /\ [x EXCEPT !.at = c].reuse = x.reuse
  BY DEF WorkRecord
<1>r. ASSUME NEW x \in WorkRecord, Goto(r, c, x), x.tok = w.tok, x.got = w.got,
             x.after = w.after, x.reuse = w.reuse
      PROVE  WorkT' /\ To(r, c, x.over, x.gen, x.succ, x.late)
  <2>1. WorkT' /\ Rest(r) /\ work'[r] = [x EXCEPT !.at = c]
    BY <1>g, <1>r
  <2>2. /\ work'[r].at = c /\ work'[r].tok = x.tok /\ work'[r].over = x.over /\ work'[r].gen = x.gen
        /\ work'[r].succ = x.succ /\ work'[r].got = x.got /\ work'[r].late = x.late
        /\ work'[r].after = x.after /\ work'[r].reuse = x.reuse
    BY <1>f, <2>1
  <2> QED BY <1>r, <2>1, <2>2 DEF To
<1> HIDE DEF w
<1>1. Goto(r, c, w) => WorkT' /\ MoveTo(r, c)
  BY <1>w, <1>r DEF MoveTo, w
<1>2. ASSUME NEW g \in Nat, Goto(r, c, [w EXCEPT !.gen = g])
      PROVE  WorkT' /\ To(r, c, w.over, g, w.succ, w.late)
  <2> DEFINE x == [w EXCEPT !.gen = g]
  <2>1. /\ x \in WorkRecord /\ x.tok = w.tok /\ x.over = w.over /\ x.gen = g /\ x.succ = w.succ
        /\ x.got = w.got /\ x.late = w.late /\ x.after = w.after /\ x.reuse = w.reuse
    BY <1>w DEF WorkRecord
  <2> HIDE DEF x
  <2>2. WorkT' /\ To(r, c, x.over, x.gen, x.succ, x.late)
    BY <1>2, <1>r, <2>1 DEF x
  <2> QED BY <2>1, <2>2
<1>3. ASSUME NEW s \in 0 .. MaxTokens, Goto(r, c, [w EXCEPT !.succ = s])
      PROVE  WorkT' /\ To(r, c, w.over, w.gen, s, w.late)
  <2> DEFINE x == [w EXCEPT !.succ = s]
  <2>1. /\ x \in WorkRecord /\ x.tok = w.tok /\ x.over = w.over /\ x.gen = w.gen /\ x.succ = s
        /\ x.got = w.got /\ x.late = w.late /\ x.after = w.after /\ x.reuse = w.reuse
    BY <1>w DEF WorkRecord
  <2> HIDE DEF x
  <2>2. WorkT' /\ To(r, c, x.over, x.gen, x.succ, x.late)
    BY <1>3, <1>r, <2>1 DEF x
  <2> QED BY <2>1, <2>2
<1>4. ASSUME NEW s \in 0 .. MaxTokens, Goto(r, c, [w EXCEPT !.over = {}, !.succ = s])
      PROVE  WorkT' /\ To(r, c, {}, w.gen, s, w.late)
  <2> DEFINE x == [w EXCEPT !.over = {}, !.succ = s]
  <2>1. /\ x \in WorkRecord /\ x.tok = w.tok /\ x.over = {} /\ x.gen = w.gen /\ x.succ = s
        /\ x.got = w.got /\ x.late = w.late /\ x.after = w.after /\ x.reuse = w.reuse
    BY <1>w DEF WorkRecord
  <2> HIDE DEF x
  <2>2. WorkT' /\ To(r, c, x.over, x.gen, x.succ, x.late)
    BY <1>4, <1>r, <2>1 DEF x
  <2> QED BY <2>1, <2>2
<1>5. ASSUME Goto(r, c, [w EXCEPT !.over = {}])
      PROVE  WorkT' /\ To(r, c, {}, w.gen, w.succ, w.late)
  <2> DEFINE x == [w EXCEPT !.over = {}]
  <2>1. /\ x \in WorkRecord /\ x.tok = w.tok /\ x.over = {} /\ x.gen = w.gen /\ x.succ = w.succ
        /\ x.got = w.got /\ x.late = w.late /\ x.after = w.after /\ x.reuse = w.reuse
    BY <1>w DEF WorkRecord
  <2> HIDE DEF x
  <2>2. WorkT' /\ To(r, c, x.over, x.gen, x.succ, x.late)
    BY <1>5, <1>r, <2>1 DEF x
  <2> QED BY <2>1, <2>2
<1>6. ASSUME Goto(r, c, [w EXCEPT !.over = {}, !.late = TRUE])
      PROVE  WorkT' /\ To(r, c, {}, w.gen, w.succ, TRUE)
  <2> DEFINE x == [w EXCEPT !.over = {}, !.late = TRUE]
  <2>1. /\ x \in WorkRecord /\ x.tok = w.tok /\ x.over = {} /\ x.gen = w.gen /\ x.succ = w.succ
        /\ x.got = w.got /\ x.late = TRUE /\ x.after = w.after /\ x.reuse = w.reuse
    BY <1>w DEF WorkRecord
  <2> HIDE DEF x
  <2>2. WorkT' /\ To(r, c, x.over, x.gen, x.succ, x.late)
    BY <1>6, <1>r, <2>1 DEF x
  <2> QED BY <2>1, <2>2
<1> QED BY <1>1, <1>2, <1>3, <1>4, <1>5, <1>6 DEF w

LEMMA FinishFacts ==
    ASSUME WorkT, NEW r \in Request, NEW n \in 0 .. MaxTokens, Finish(r, n)
    PROVE  WorkT' /\ Finished(r, n)
<1> DEFINE t == IF n = 0 THEN 0 ELSE work[r].tok
<1> DEFINE a == (n # 0 /\ work[r].after)
<1> DEFINE u == work[r].reuse
<1>w. work[r] \in WorkRecord
  BY DEF WorkT
<1>1. t \in 0 .. MaxTokens /\ u \in BOOLEAN
  BY <1>w, FieldTypes
<1>2. a \in BOOLEAN
  BY Zenon
<1>3. work' = [work EXCEPT ![r] = [New EXCEPT !.at = "done", !.got = n, !.reuse = u, !.tok = t,
                                              !.after = a]]
  BY Zenon DEF Finish
<1>4. a => n # 0 /\ work[r].after
  BY Zenon
<1> HIDE DEF t, a, u
<1> DEFINE x == [New EXCEPT !.at = "done", !.got = n, !.reuse = u, !.tok = t, !.after = a]
<1>5. /\ x \in WorkRecord /\ x.at = "done" /\ x.got = n /\ x.reuse = u /\ x.tok = t /\ x.after = a
      /\ x.over = {} /\ x.gen = 0 /\ x.succ = 0
  BY <1>1, <1>2, NewFields DEF WorkRecord, Ended
<1> HIDE DEF x
<1>6. WorkT' /\ Rest(r) /\ work'[r] = x
  BY <1>3, <1>5 DEF WorkT, Rest, x
<1>7. x.after => n # 0 /\ work[r].after
  BY <1>4, <1>5
<1> QED BY <1>5, <1>6, <1>7 DEF Finished, t, u

-----------------------------------------------------------------------------
(* The tokens, their records and their holders.                            *)

\* The record of a token.
TokenRecord == [gen : 1 .. MaxTokens, from : 0 .. MaxTokens]

\* The record of a spent token.
SpentRecord == [by : Request \cup {Nobody}, succ : 0 .. MaxTokens]

\* The store, the revocations and the tokens have their types.
StoreT ==
    /\ grant \in [st : {"none", "pending", "active"}, gen : 0 .. MaxTokens]
    /\ index \subseteq Made
    /\ spent \in [Token -> SpentRecord]
    /\ revoked \subseteq Replica
    /\ tokens \in Seq(TokenRecord) /\ Len(tokens) <= MaxTokens
    /\ over \subseteq Request
    /\ events \in 0 .. MaxEvents

\* The flags are Boolean.
FlagsT == codeUsed \in BOOLEAN /\ tomb \in BOOLEAN /\ dead \in BOOLEAN /\ failed \in BOOLEAN

\* The invariant of a request.
Holds(r) == Knows(r) /\ Owns(r) /\ Given(r)

\* The invariant of the tokens, their records and their holders.
Frame ==
    /\ StoreT /\ FlagsT /\ WorkT
    /\ Ancestry /\ Records /\ Opened
    /\ \A r \in Request : Holds(r)

\* The tokens of a stay what they are in b.
Grown(a, b) == Len(a) <= Len(b) /\ \A n \in 1 .. Len(a) : b[n] = a[n]

\* A step of r changes only a spent record that is its own or nobody's, and
\* names no successor yet.
SpentStep(r) ==
    \A t \in Token :
        \/ spent'[t] = spent[t]
        \/ t = work[r].tok /\ spent[t].by \in {Nobody, r} /\ spent[t].succ = 0

LEMMA UnspentFields == Unspent.by = Nobody /\ Unspent.succ = 0 /\ Unspent \in SpentRecord
BY GrantsAssumption DEF Unspent, SpentRecord

LEMMA SpentTypes ==
    ASSUME StoreT, NEW t \in Token
    PROVE  /\ spent[t] \in SpentRecord
           /\ spent[t].by \in Request \cup {Nobody} /\ spent[t].succ \in 0 .. MaxTokens
           /\ spent[t].succ \in Nat
           /\ (spent[t].by = Nobody /\ spent[t].succ = 0) <=> spent[t] = Unspent
<1>1. spent[t] \in SpentRecord
  BY DEF StoreT
<1>2. /\ spent[t].by \in Request \cup {Nobody} /\ spent[t].succ \in 0 .. MaxTokens
      /\ spent[t].succ \in Nat
  BY <1>1, GrantsAssumption DEF SpentRecord
<1>3. (spent[t].by = Nobody /\ spent[t].succ = 0) <=> spent[t] = Unspent
  BY <1>1, UnspentFields DEF SpentRecord, Unspent
<1> QED BY <1>1, <1>2, <1>3

LEMMA TokenTypes ==
    ASSUME StoreT
    PROVE  /\ Len(tokens) \in Nat /\ DOMAIN tokens = Made
           /\ \A n \in Made : /\ n \in Nat /\ n # 0 /\ n \in Token
                              /\ tokens[n].gen \in Nat /\ tokens[n].gen >= 1
                              /\ tokens[n].gen \in 1 .. MaxTokens /\ tokens[n].from \in 0 .. MaxTokens
                              /\ tokens[n].from \in Nat
<1>1. tokens \in Seq(TokenRecord) /\ Len(tokens) <= MaxTokens
  BY DEF StoreT
<1>2. Len(tokens) \in Nat /\ DOMAIN tokens = Made /\ \A n \in Made : tokens[n] \in TokenRecord
  BY <1>1, LenProperties DEF Made
<1>3. ASSUME NEW n \in Made PROVE n \in Nat /\ n # 0 /\ n \in Token
  BY <1>1, <1>2, GrantsAssumption DEF Made, Token
<1>4. ASSUME NEW n \in Made
      PROVE  /\ tokens[n].gen \in Nat /\ tokens[n].gen >= 1
             /\ tokens[n].gen \in 1 .. MaxTokens /\ tokens[n].from \in 0 .. MaxTokens
             /\ tokens[n].from \in Nat
  BY <1>2, GrantsAssumption DEF TokenRecord
<1> QED BY <1>2, <1>3, <1>4

\* The fields of a request.
LEMMA RequestTypes ==
    ASSUME WorkT, NEW r \in Request
    PROVE  /\ work[r] \in WorkRecord
           /\ work[r].at \in Call \cup Ended /\ work[r].tok \in 0 .. MaxTokens
           /\ work[r].over \in SUBSET Request
           /\ work[r].gen \in Nat /\ work[r].succ \in 0 .. MaxTokens /\ work[r].got \in 0 .. MaxTokens
           /\ work[r].tok \in Nat /\ work[r].succ \in Nat /\ work[r].got \in Nat
           /\ work[r].late \in BOOLEAN /\ work[r].after \in BOOLEAN /\ work[r].reuse \in BOOLEAN
<1>1. work[r] \in WorkRecord
  BY DEF WorkT
<1> QED BY <1>1, FieldTypes

\* Tokens that were handed out were made; those a request presents, too.
LEMMA HandedMade ==
    ASSUME Frame
    PROVE  /\ \A u \in Handed : u \in Made /\ u \in Token /\ u # 0
           /\ \A r \in Request : work[r].tok # 0 => work[r].tok \in Made /\ work[r].tok \in Token
<1>1. \A u \in Handed : u \in Made
  BY DEF Frame, Handed, Holds, Knows
<1>2. \A u \in Made : u \in Token /\ u # 0
  BY TokenTypes DEF Frame
<1>3. \A r \in Request : work[r].tok # 0 => work[r].tok \in Handed
  BY DEF Frame, Holds, Knows
<1> QED BY <1>1, <1>2, <1>3

LEMMA HandedStep ==
    ASSUME Frame, NEW r \in Request, Rest(r), work[r].got = 0
    PROVE  /\ Handed \subseteq Handed'
           /\ Handed' \subseteq Handed \cup {work'[r].got}
           /\ work'[r].got = 0 => Handed' = Handed
           /\ work'[r].got # 0 => work'[r].got \in Handed'
<1>1. \A u : u \in Handed <=> u # 0 /\ \E q \in Request : work[q].got = u
  BY DEF Handed
<1>2. \A u : u \in Handed' <=> u # 0 /\ \E q \in Request : work'[q].got = u
  BY DEF Handed
<1>3. \A q \in Request : q # r => work'[q].got = work[q].got
  BY DEF Rest
<1> QED BY <1>1, <1>2, <1>3

\* What a step of r leaves to the other requests.
LEMMA OthersHold ==
    ASSUME Frame, NEW r \in Request, Rest(r), work[r].got = 0, Grown(tokens, tokens'), SpentStep(r),
           Len(tokens') \in Nat, NEW q \in Request \ {r}
    PROVE  Holds(q)'
<1>w. work'[q] = work[q]
  BY DEF Rest
<1>h. Holds(q) /\ StoreT
  BY DEF Frame
<1>t. /\ work[q].tok \in Nat /\ work[q].succ \in Nat /\ work[q].got \in Nat
      /\ work[q].tok # 0 => work[q].tok \in Made /\ work[q].tok \in Token
  BY RequestTypes, HandedMade DEF Frame
<1>1. Handed \subseteq Handed'
  BY HandedStep
<1>2. \A n \in Made : n \in Made' /\ tokens'[n] = tokens[n]
  BY <1>h, TokenTypes DEF Grown, Made
<1>3. Knows(q)'
  BY <1>w, <1>h, <1>t, <1>1, <1>2 DEF Holds, Knows, TokenCalls
<1>4. Owns(q)'
  <2>1. ASSUME work[q].tok # 0, \/ spent[work[q].tok].by = q
                                \/ spent[work[q].tok].succ # 0
        PROVE  spent'[work[q].tok] = spent[work[q].tok]
    BY <1>t, <2>1, GrantsAssumption DEF SpentStep
  <2>2. CASE work[q].at \in Rotating /\ work[q].tok # 0
    <3>1. spent[work[q].tok].by = q
      BY <1>h, <2>2 DEF Holds, Owns
    <3> QED BY <1>w, <1>h, <2>1, <2>2, <3>1 DEF Holds, Owns, Rotating, Unsettled
  <2>3. CASE work[q].at \in {"succ", "sgrant", "slive"}
    <3>1. work[q].tok # 0 /\ work[q].succ # 0 /\ spent[work[q].tok].succ = work[q].succ
      BY <1>h, <2>3 DEF Holds, Knows, Owns, TokenCalls
    <3> QED BY <1>w, <1>h, <2>1, <2>3, <3>1 DEF Owns, Rotating, Unsettled
  <2>4. CASE /\ ~(work[q].at \in Rotating /\ work[q].tok # 0)
             /\ work[q].at \notin {"succ", "sgrant", "slive"}
    BY <1>w, <2>4 DEF Owns, Rotating, Unsettled
  <2> QED BY <2>2, <2>3, <2>4
<1>5. Given(q)'
  <2> SUFFICES ASSUME work[q].got # 0
               PROVE  /\ tokens'[work[q].got].from = work[q].tok
                      /\ work[q].tok # 0 => work[q].got = Successor(work[q].tok)'
    BY <1>w DEF Given
  <2>1. /\ work[q].got \in Made /\ tokens[work[q].got].from = work[q].tok
        /\ work[q].tok # 0 => work[q].got = Successor(work[q].tok)
    BY <1>h DEF Holds, Knows, Given
  <2>2. ASSUME work[q].tok # 0 PROVE Successor(work[q].tok)' = Successor(work[q].tok)
    <3> DEFINE t == work[q].tok
    <3>0. t \in Token /\ Successor(t) # 0
      BY <1>t, <2>1, <2>2
    <3>1. spent[t].succ # 0 \/ (spent[t].by # Nobody /\ spent[t].by # r)
      BY <3>0 DEF Successor
    <3>2. spent'[t] = spent[t]
      BY <3>0, <3>1 DEF SpentStep
    <3>3. spent[t].by \in Request \cup {Nobody}
      BY <1>h, <3>0, SpentTypes
    <3>4. spent[t].succ = 0 => work'[spent[t].by] = work[spent[t].by]
      BY <3>1, <3>3 DEF Rest
    <3> HIDE DEF t
    <3>5. Successor(t)' = Successor(t)
      BY <1>w, <3>0, <3>1, <3>2, <3>4 DEF Successor, t
    <3> QED BY <1>w, <3>5 DEF t
  <2> QED BY <1>2, <2>1, <2>2
<1> QED BY <1>3, <1>4, <1>5 DEF Holds


-----------------------------------------------------------------------------
(* Every step keeps the frame.                                             *)

\* A request that is not given a token, and presents none, has nothing to keep.
Idle(r) ==
    /\ work[r].tok = 0 /\ work[r].succ = 0 /\ work[r].got = 0
    /\ work[r].at \in {"new", "done", "stopped", "code", "revoke"}

LEMMA IdleHolds ==
    ASSUME NEW r, Idle(r)
    PROVE  Holds(r)
BY DEF Idle, Holds, Knows, Owns, Given, TokenCalls, Rotating, Unsettled

\* A step of r that is not its first, once the code was redeemed, and that
\* makes no token: what is left to show of it.
Going(r) == work[r].at \notin {"new", "code", "done", "stopped"}

\* Request r goes on, and leaves tokens and records of others alone.
Onward(r) ==
    /\ Going(r) /\ Rest(r) /\ tokens' = tokens /\ codeUsed' = codeUsed
    /\ grant'.st = "pending" => grant.st = "pending"
    /\ Opening(r)' => Opening(r)
    /\ work'[r].at = "issue" => work[r].tok # 0 \/ grant'.st # "pending"

LEMMA GoingFacts ==
    ASSUME Frame, NEW r \in Request, Going(r)
    PROVE  work[r].got = 0 /\ codeUsed
BY DEF Frame, Holds, Knows, Opened, Going

LEMMA NotEmpty ==
    ASSUME Frame, NEW r \in Request, work[r].tok # 0
    PROVE  tokens # <<>> /\ grant.st # "pending"
<1>1. Len(tokens) # 0
  BY HandedMade, TokenTypes DEF Made, Frame
<1>2. tokens # <<>>
  BY <1>1, EmptySeq
<1> QED BY <1>2 DEF Frame, Opened

LEMMA AncestryKept ==
    ASSUME Frame, tokens' = tokens, Handed \subseteq Handed'
    PROVE  Ancestry'
BY DEF Frame, Ancestry, Made

LEMMA RecordsKept ==
    ASSUME Frame, spent' = spent, Grown(tokens, tokens'), Len(tokens') \in Nat, Handed \subseteq Handed'
    PROVE  Records'
<1>1. \A n \in Made : n \in Made' /\ tokens'[n] = tokens[n]
  BY TokenTypes DEF Frame, Grown, Made
<1>2. Records
  BY DEF Frame
<1> QED BY <1>1, <1>2 DEF Records

LEMMA OpenedKept ==
    ASSUME Frame, NEW r \in Request, Onward(r)
    PROVE  Opened'
<1>1. codeUsed
  BY GoingFacts DEF Onward
<1>2. \A q \in Request : q # r => work'[q] = work[q]
  BY DEF Onward, Rest
<1>3. \A q \in Request : Opening(q)' => Opening(q)
  BY <1>2 DEF Onward, Opening
<1>4. Opened
  BY DEF Frame
<1>5. ASSUME tokens' # <<>> \/ \E q \in Request : work'[q].at = "issue"
      PROVE  grant'.st # "pending"
  <2>1. CASE tokens # <<>> \/ \E q \in Request : work[q].at = "issue"
    BY <1>4, <2>1 DEF Opened, Onward
  <2>2. CASE ~(tokens # <<>> \/ \E q \in Request : work[q].at = "issue")
    <3>1. work'[r].at = "issue"
      BY <1>2, <1>5, <2>2 DEF Onward
    <3>2. work[r].tok = 0
      BY <2>2, NotEmpty
    <3> QED BY <3>1, <3>2 DEF Onward
  <2> QED BY <2>1, <2>2
<1>6. codeUsed' /\ tokens' = tokens
  BY <1>1 DEF Onward
<1> QED BY <1>3, <1>4, <1>5, <1>6 DEF Opened

LEMMA OnwardFrame ==
    ASSUME Frame, NEW r \in Request, Onward(r), SpentStep(r),
           StoreT', FlagsT', WorkT', Records', Holds(r)'
    PROVE  Frame'
<1>1. work[r].got = 0 /\ Rest(r) /\ tokens' = tokens
  BY GoingFacts DEF Onward
<1>2. Len(tokens') \in Nat /\ Grown(tokens, tokens')
  BY <1>1, TokenTypes DEF Frame, Grown
<1>3. \A q \in Request : Holds(q)'
  <2>1. ASSUME NEW q \in Request \ {r} PROVE Holds(q)'
    BY <1>1, <1>2, <2>1, OthersHold
  <2> QED BY <2>1
<1>4. Opened'
  BY OpenedKept
<1>5. Ancestry'
  BY <1>1, AncestryKept, HandedStep
<1> QED BY <1>3, <1>4, <1>5 DEF Frame

\* Steps that leave the store alone.
Reads == UNCHANGED <<grant, codeUsed, index, spent, tomb, revoked, tokens, over, dead>>

LEMMA CountTypes ==
    ASSUME Frame, Ok \/ Event \/ Fault
    PROVE  events' \in 0 .. MaxEvents /\ failed' \in BOOLEAN
<1>1. events \in 0 .. MaxEvents /\ failed \in BOOLEAN
  BY DEF Frame, StoreT, FlagsT
<1>2. events' = events \/ (events < MaxEvents /\ events' = events + 1)
  BY Zenon DEF Ok, Event, Fault, Count, faults
<1>3. events' \in 0 .. MaxEvents
  BY <1>1, <1>2, GrantsAssumption
<1>4. failed' = failed \/ failed' = TRUE
  BY Zenon DEF Ok, Event, Fault, faults
<1>5. failed' \in BOOLEAN
  BY <1>1, <1>4, Zenon
<1> QED BY <1>3, <1>5

\* Steps that change neither the tokens nor the records of spent ones.
LEMMA WritesFrame ==
    ASSUME Frame, NEW r \in Request, Onward(r), spent' = spent, StoreT', FlagsT', WorkT', Holds(r)'
    PROVE  Frame'
<1>1. SpentStep(r)
  BY DEF SpentStep
<1>2. Len(tokens') \in Nat /\ Grown(tokens, tokens')
  BY TokenTypes DEF Onward, Frame, Grown
<1>3. Handed \subseteq Handed'
  BY HandedStep, GoingFacts DEF Onward
<1>4. Records'
  BY <1>2, <1>3, RecordsKept
<1> QED BY <1>1, <1>4, OnwardFrame

LEMMA ReadsFrame ==
    ASSUME Frame, NEW r \in Request, Reads, Ok \/ Event \/ Fault, Going(r), Rest(r), WorkT', Holds(r)',
           Opening(r)' => Opening(r), work'[r].at = "issue" => work[r].tok # 0
    PROVE  Frame'
<1>1. Onward(r) /\ spent' = spent
  BY DEF Onward, Reads
<1>2. events' \in 0 .. MaxEvents /\ failed' \in BOOLEAN
  BY CountTypes
<1>3. StoreT'
  BY <1>2 DEF Frame, StoreT, Reads, Made
<1>4. FlagsT'
  BY <1>2, Zenon DEF Frame, FlagsT, Reads
<1> QED BY <1>1, <1>3, <1>4, WritesFrame

\* The request is answered with no token.
LEMMA RefusedHolds ==
    ASSUME Frame, NEW r \in Request, Finish(r, 0)
    PROVE  /\ WorkT' /\ Rest(r) /\ Holds(r)' /\ Finished(r, 0)
           /\ Opening(r)' => Opening(r)
           /\ work'[r].at = "issue" => work[r].tok # 0
<1>1. WorkT' /\ Finished(r, 0)
  BY FinishFacts, GrantsAssumption DEF Frame
<1>2. Idle(r)'
  BY <1>1 DEF Finished, Idle
<1>3. Holds(r)'
  BY <1>2 DEF Idle, Holds, Knows, Owns, Given, TokenCalls, Rotating, Unsettled
<1> QED BY <1>1, <1>3 DEF Finished, Opening

LEMMA RefusedFrame ==
    ASSUME Frame, NEW r \in Request, Reads, Ok \/ Event \/ Fault, Going(r), Finish(r, 0)
    PROVE  Frame'
BY RefusedHolds, ReadsFrame

\* The request goes on to a call c with a token to present, and knows and owns
\* what c is about.
LEMMA MovedHolds ==
    ASSUME Frame, NEW r \in Request, NEW c \in Call, NEW o, NEW g, NEW s, NEW l,
           tokens' = tokens, spent' = spent, Going(r), To(r, c, o, g, s, l),
           c \in TokenCalls \cup {"issue", "check", "revoke", "delete", "drop"},
           c \in TokenCalls \cup {"issue"} => work[r].tok # 0,
           s # 0 => s \in Made,
           c \in {"claim", "idp"} => g = tokens[work[r].tok].gen,
           c = "issue" => g = tokens[work[r].tok].gen + 1,
           c \in {"put", "undo", "seal", "retire", "check", "drop"} =>
                s # 0 /\ tokens[s].from = work[r].tok,
           c \in {"put", "seal"} => g = tokens[s].gen,
           c \in Rotating /\ work[r].tok # 0 => spent[work[r].tok].by = r,
           c \in Unsettled \cup {"seal"} /\ work[r].tok # 0 => spent[work[r].tok].succ = 0,
           c \in {"retire", "check", "drop"} /\ work[r].tok # 0 => spent[work[r].tok].succ \in {0, s},
           c \in {"succ", "sgrant", "slive"} => s # 0 /\ spent[work[r].tok].succ = s
    PROVE  /\ Rest(r) /\ Holds(r)'
           /\ Opening(r)' => Opening(r)
           /\ work'[r].at = "issue" => work[r].tok # 0
<1>1. work[r].got = 0 /\ Knows(r)
  BY GoingFacts DEF Frame, Holds
<1>2. /\ Rest(r) /\ work'[r].at = c /\ work'[r].gen = g /\ work'[r].succ = s
      /\ work'[r].tok = work[r].tok /\ work'[r].got = 0
  BY <1>1 DEF To
<1>3. Handed \subseteq Handed'
  BY <1>1, <1>2, HandedStep
<1>4. tokens' = tokens /\ spent' = spent /\ Made' = Made
  BY DEF Made
<1>5. Knows(r)'
  BY <1>1, <1>2, <1>3, <1>4 DEF Knows, TokenCalls
<1>6. Owns(r)'
  BY <1>2, <1>4 DEF Owns, Rotating, Unsettled
<1>7. Given(r)'
  BY <1>2 DEF Given
<1>8. (Opening(r)' => Opening(r)) /\ (work'[r].at = "issue" => work[r].tok # 0)
  BY <1>2 DEF Opening, TokenCalls
<1> QED BY <1>2, <1>5, <1>6, <1>7, <1>8 DEF Holds

LEMMA MovedFrame ==
    ASSUME Frame, NEW r \in Request, NEW c \in Call, NEW o, NEW g, NEW s, NEW l, Reads,
           Ok \/ Event \/ Fault, Going(r), WorkT', To(r, c, o, g, s, l),
           c \in TokenCalls \cup {"issue", "check", "revoke", "delete", "drop"},
           c \in TokenCalls \cup {"issue"} => work[r].tok # 0,
           s # 0 => s \in Made,
           c \in {"claim", "idp"} => g = tokens[work[r].tok].gen,
           c = "issue" => g = tokens[work[r].tok].gen + 1,
           c \in {"put", "undo", "seal", "retire", "check", "drop"} =>
                s # 0 /\ tokens[s].from = work[r].tok,
           c \in {"put", "seal"} => g = tokens[s].gen,
           c \in Rotating /\ work[r].tok # 0 => spent[work[r].tok].by = r,
           c \in Unsettled \cup {"seal"} /\ work[r].tok # 0 => spent[work[r].tok].succ = 0,
           c \in {"retire", "check", "drop"} /\ work[r].tok # 0 => spent[work[r].tok].succ \in {0, s},
           c \in {"succ", "sgrant", "slive"} => s # 0 /\ spent[work[r].tok].succ = s
    PROVE  Frame'
<1>1. tokens' = tokens /\ spent' = spent
  BY DEF Reads
<1>2. /\ Rest(r) /\ Holds(r)'
      /\ Opening(r)' => Opening(r)
      /\ work'[r].at = "issue" => work[r].tok # 0
  BY <1>1, MovedHolds
<1> QED BY <1>2, ReadsFrame

LEMMA ReadPendingFrame ==
    ASSUME Frame, NEW r \in Request, ReadPending(r)
    PROVE  Frame'
<1>1. Going(r) /\ Reads /\ Ok
  BY DEF ReadPending, Going, Reads, store
<1>2. CASE Goto(r, "activate", work[r])
  <2>1. WorkT' /\ MoveTo(r, "activate")
    BY <1>2, ToFacts DEF Frame, Call
  <2>2. work[r].got = 0 /\ Holds(r) /\ work[r].at = "pending"
    BY <1>1, GoingFacts DEF Frame, ReadPending
  <2>3. Rest(r) /\ work'[r].at = "activate" /\ work'[r].tok = 0 /\ work'[r].got = 0
        /\ work'[r].succ = work[r].succ /\ work[r].tok = 0
    BY <2>1, <2>2 DEF MoveTo, To, Holds, Knows
  <2>4. tokens' = tokens
    BY <1>1 DEF Reads
  <2>5. Holds(r)'
    BY <2>2, <2>3, <2>4 DEF Holds, Knows, Owns, Given, TokenCalls, Rotating, Unsettled, Made
  <2>6. Opening(r)' => Opening(r)
    BY <2>2 DEF Opening
  <2> QED BY <1>1, <2>1, <2>3, <2>5, <2>6, ReadsFrame
<1>3. CASE Finish(r, 0)
  BY <1>1, <1>3, RefusedFrame
<1> QED BY <1>2, <1>3 DEF ReadPending

LEMMA ReadIndexFrame ==
    ASSUME Frame, NEW r \in Request, ReadIndex(r)
    PROVE  Frame'
<1>1. Going(r) /\ Reads /\ Ok /\ work[r].at = "index"
  BY DEF ReadIndex, Going, Reads, store
<1>2. Knows(r)
  BY DEF Frame, Holds
<1>3. PICK c \in {"grant", "spent"} : Goto(r, c, work[r])
  BY DEF ReadIndex
<1>4. c \in Call /\ WorkT' /\ MoveTo(r, c)
  BY <1>3, ToFacts DEF Frame, Call
<1>5. /\ c \in TokenCalls /\ work[r].tok # 0 /\ (work[r].succ # 0 => work[r].succ \in Made)
  BY <1>1, <1>2, <1>3 DEF Knows, TokenCalls
<1> QED BY <1>1, <1>3, <1>4, <1>5, MovedFrame DEF MoveTo, Rotating, Unsettled

LEMMA ReadGrantFrame ==
    ASSUME Frame, NEW r \in Request, ReadGrant(r)
    PROVE  Frame'
<1>1. Going(r) /\ Reads /\ Ok /\ work[r].at \in {"grant", "sgrant"}
  BY DEF ReadGrant, Going, Reads, store
<1>2. Knows(r) /\ Owns(r)
  BY DEF Frame, Holds
<1>3. CASE Finish(r, 0)
  BY <1>1, <1>3, RefusedFrame
<1>4. CASE Goto(r, IF work[r].at = "grant" THEN "live" ELSE "slive", [work[r] EXCEPT !.gen = grant.gen])
  <2> DEFINE c == IF work[r].at = "grant" THEN "live" ELSE "slive"
  <2>0. c \in Call /\ (c = "slive" => work[r].at = "sgrant") /\ c \in {"live", "slive"}
    BY <1>1 DEF Call
  <2> HIDE DEF c
  <2>1. grant.gen \in Nat
    BY GrantsAssumption DEF Frame, StoreT
  <2>2. WorkT' /\ To(r, c, work[r].over, grant.gen, work[r].succ, work[r].late)
    BY <1>4, <2>0, <2>1, ToFacts DEF Frame, c
  <2>3. /\ c \in TokenCalls /\ work[r].tok # 0 /\ (work[r].succ # 0 => work[r].succ \in Made)
        /\ c = "slive" => work[r].succ # 0 /\ spent[work[r].tok].succ = work[r].succ
    BY <1>1, <1>2, <2>0 DEF Knows, Owns, TokenCalls
  <2> QED BY <1>1, <2>0, <2>2, <2>3, MovedFrame DEF Rotating, Unsettled
<1> QED BY <1>3, <1>4 DEF ReadGrant

LEMMA LiveFrame ==
    ASSUME Frame, NEW r \in Request, Live(r)
    PROVE  Frame'
<1>1. Going(r) /\ Reads /\ (Ok \/ Event) /\ work[r].at = "live"
  BY DEF Live, Going, Reads, store
<1>2. Knows(r) /\ Owns(r)
  BY DEF Frame, Holds
<1>3. CASE Finish(r, 0)
  BY <1>1, <1>3, RefusedFrame
<1>4. CASE ~Finish(r, 0)
  <2>0. work[r].tok \in Made /\ work[r].gen \in Nat
    BY <1>1, <1>2, HandedMade, RequestTypes DEF Knows, TokenCalls, Frame
  <2>1. PICK c \in {"old", "claim", "revoke"} :
            /\ Goto(r, c, work[r])
            /\ c = "claim" => ~(tokens[work[r].tok].gen < work[r].gen) /\ ~(tokens[work[r].tok].gen > work[r].gen)
    BY <1>4 DEF Live
  <2>2. c = "claim" => work[r].gen = tokens[work[r].tok].gen
    BY <2>0, <2>1, TokenTypes DEF Frame
  <2>3. c \in Call /\ WorkT' /\ MoveTo(r, c)
    BY <2>1, ToFacts DEF Frame, Call
  <2>4. c \in TokenCalls \cup {"revoke"} /\ work[r].tok # 0 /\ (work[r].succ # 0 => work[r].succ \in Made)
    BY <1>1, <1>2, <2>1 DEF Knows, TokenCalls
  <2> QED BY <1>1, <2>1, <2>2, <2>3, <2>4, MovedFrame DEF MoveTo, Rotating, Unsettled
<1> QED BY <1>3, <1>4

LEMMA RevalidateFrame ==
    ASSUME Frame, NEW r \in Request, Revalidate(r)
    PROVE  Frame'
<1>1. Going(r) /\ Reads /\ (Ok \/ Event) /\ work[r].at = "idp"
  BY DEF Revalidate, Going, Reads, store
<1>2. Knows(r) /\ Owns(r)
  BY DEF Frame, Holds
<1>3. /\ work[r].tok # 0 /\ (work[r].succ # 0 => work[r].succ \in Made)
      /\ work[r].gen = tokens[work[r].tok].gen /\ work[r].gen \in Nat
      /\ spent[work[r].tok].by = r /\ spent[work[r].tok].succ = 0
  BY <1>1, <1>2, RequestTypes DEF Frame, Knows, Owns, TokenCalls, Rotating, Unsettled
<1>4. CASE Goto(r, "issue", [work[r] EXCEPT !.gen = NextGen(@)])
  <2>1. Goto(r, "issue", [work[r] EXCEPT !.gen = work[r].gen + 1])
    BY <1>4 DEF NextGen
  <2>2. WorkT' /\ To(r, "issue", work[r].over, work[r].gen + 1, work[r].succ, work[r].late)
    <3>1. work[r].gen + 1 \in Nat /\ "issue" \in Call /\ WorkT
      BY <1>3 DEF Frame, Call
    <3> QED BY <2>1, <3>1, ToFacts
  <2> QED BY <1>1, <1>3, <2>2, MovedFrame DEF Call, Rotating, Unsettled
<1>5. CASE \E c \in {"unclaim", "revoke"} : Goto(r, c, work[r])
  <2>1. PICK c \in {"unclaim", "revoke"} : Goto(r, c, work[r])
    BY <1>5
  <2>2. c \in Call /\ WorkT' /\ MoveTo(r, c)
    BY <2>1, ToFacts DEF Frame, Call
  <2>3. c \in TokenCalls \cup {"revoke"}
    BY <2>1 DEF TokenCalls
  <2> QED BY <1>1, <1>3, <2>1, <2>2, <2>3, MovedFrame DEF MoveTo, Rotating, Unsettled
<1> QED BY <1>4, <1>5 DEF Revalidate

LEMMA ReadSpentFrame ==
    ASSUME Frame, NEW r \in Request, ReadSpent(r)
    PROVE  Frame'
<1>1. Going(r) /\ Reads /\ Ok /\ work[r].at \in {"spent", "old"}
  BY DEF ReadSpent, Going, Reads, store
<1>2. Knows(r) /\ Owns(r)
  BY DEF Frame, Holds
<1>3. /\ work[r].tok # 0 /\ (work[r].succ # 0 => work[r].succ \in Made)
      /\ work[r].tok \in Token
  BY <1>1, <1>2, HandedMade DEF Frame, Knows, TokenCalls
<1>4. CASE Finish(r, 0)
  BY <1>1, <1>4, RefusedFrame
<1>5. CASE Goto(r, "judge", work[r])
  <2>1. WorkT' /\ MoveTo(r, "judge")
    BY <1>5, ToFacts DEF Frame, Call
  <2> QED BY <1>1, <1>3, <2>1, MovedFrame DEF MoveTo, Rotating, Unsettled, TokenCalls, Call
<1>6. CASE Goto(r, "judge", [work[r] EXCEPT !.over = {}, !.late = TRUE])
  <2>1. WorkT' /\ To(r, "judge", {}, work[r].gen, work[r].succ, TRUE)
    BY <1>6, ToFacts DEF Frame, Call
  <2> QED BY <1>1, <1>3, <2>1, MovedFrame DEF Rotating, Unsettled, TokenCalls, Call
<1>7. CASE Goto(r, IF spent[work[r].tok].succ = 0 THEN "await" ELSE "succ",
                [work[r] EXCEPT !.over = {}, !.succ = spent[work[r].tok].succ])
  <2> DEFINE c == IF spent[work[r].tok].succ = 0 THEN "await" ELSE "succ"
  <2> DEFINE s == spent[work[r].tok].succ
  <2>1. c \in Call /\ c \in {"await", "succ"} /\ c \in TokenCalls /\ (c = "succ" => s # 0)
    BY DEF Call, TokenCalls
  <2>2. s \in 0 .. MaxTokens /\ (s # 0 => s \in Made)
    BY <1>3, SpentTypes DEF Frame, Records
  <2> HIDE DEF c
  <2>3. WorkT' /\ To(r, c, {}, work[r].gen, s, work[r].late)
    BY <1>7, <2>1, <2>2, ToFacts DEF Frame, c
  <2>4. s = spent[work[r].tok].succ
    OBVIOUS
  <2> HIDE DEF s
  <2> QED BY <1>1, <1>3, <2>1, <2>2, <2>3, <2>4, MovedFrame DEF Rotating, Unsettled
<1> QED BY <1>4, <1>5, <1>6, <1>7 DEF ReadSpent, Retry

LEMMA AwaitFrame ==
    ASSUME Frame, NEW r \in Request, Await(r)
    PROVE  Frame'
<1>1. Going(r) /\ Reads /\ Ok /\ work[r].at = "await"
  BY DEF Await, Going, Reads, store
<1>2. Knows(r) /\ Owns(r)
  BY DEF Frame, Holds
<1>3. /\ work[r].tok # 0 /\ (work[r].succ # 0 => work[r].succ \in Made)
      /\ work[r].tok \in Token
  BY <1>1, <1>2, HandedMade DEF Frame, Knows, TokenCalls
<1>4. CASE Finish(r, 0)
  BY <1>1, <1>4, RefusedFrame
<1>5. CASE Goto(r, "awaitgrant", work[r])
  <2>1. WorkT' /\ MoveTo(r, "awaitgrant")
    BY <1>5, ToFacts DEF Frame, Call
  <2> QED BY <1>1, <1>3, <2>1, MovedFrame DEF MoveTo, Rotating, Unsettled, TokenCalls, Call
<1>6. CASE /\ spent[work[r].tok].succ # 0
           /\ Goto(r, "succ", [work[r] EXCEPT !.succ = spent[work[r].tok].succ])
  <2> DEFINE s == spent[work[r].tok].succ
  <2>1. s \in 0 .. MaxTokens /\ s \in Made /\ s # 0 /\ spent[work[r].tok].succ = s
    BY <1>3, <1>6, SpentTypes DEF Frame, Records
  <2>2. WorkT' /\ To(r, "succ", work[r].over, work[r].gen, s, work[r].late)
    BY <1>6, <2>1, ToFacts DEF Frame, Call
  <2> HIDE DEF s
  <2> QED BY <1>1, <1>3, <2>1, <2>2, MovedFrame DEF Rotating, Unsettled, TokenCalls, Call
<1> QED BY <1>4, <1>5, <1>6 DEF Await

\* Reads of a token's successor, of the grant and of the token for a revocation.
LEMMA PlainFrame ==
    ASSUME Frame, NEW r \in Request, Reads, Ok \/ Event, work[r].at \in TokenCalls,
           NEW c \in {"judge", "reuse", "revoke", "await", "rgrant", "rrevoke"}, Goto(r, c, work[r])
    PROVE  Frame'
<1>1. Going(r) /\ work[r].tok # 0 /\ (work[r].succ # 0 => work[r].succ \in Made)
  BY DEF Frame, Holds, Knows, Going, TokenCalls
<1>2. c \in Call /\ c \in TokenCalls \cup {"revoke"}
  BY DEF Call, TokenCalls
<1>3. WorkT' /\ MoveTo(r, c)
  BY <1>2, ToFacts DEF Frame
<1> QED BY <1>1, <1>2, <1>3, MovedFrame DEF MoveTo, Rotating, Unsettled

LEMMA AwaitGrantFrame ==
    ASSUME Frame, NEW r \in Request, AwaitGrant(r)
    PROVE  Frame'
<1>1. Reads /\ Ok /\ work[r].at \in TokenCalls
  BY DEF AwaitGrant, TokenCalls, Reads, store
<1>2. PICK c \in {"judge", "await"} : Goto(r, c, work[r])
  BY DEF AwaitGrant
<1> QED BY <1>1, <1>2, PlainFrame

LEMMA ReadSuccessorFrame ==
    ASSUME Frame, NEW r \in Request, ReadSuccessor(r)
    PROVE  Frame'
<1>1. Going(r) /\ Reads /\ Ok /\ work[r].at = "succ" /\ work[r].at \in TokenCalls
  BY DEF ReadSuccessor, TokenCalls, Going, Reads, store
<1>2. CASE Goto(r, "judge", work[r])
  BY <1>1, <1>2, PlainFrame
<1>3. CASE Goto(r, "sgrant", work[r])
  <2>1. WorkT' /\ MoveTo(r, "sgrant")
    BY <1>3, ToFacts DEF Frame, Call
  <2>2. /\ work[r].tok # 0 /\ work[r].succ \in Made
        /\ work[r].succ # 0 /\ spent[work[r].tok].succ = work[r].succ
    BY <1>1 DEF Frame, Holds, Knows, Owns, TokenCalls
  <2> QED BY <1>1, <2>1, <2>2, MovedFrame DEF MoveTo, Rotating, Unsettled, TokenCalls, Call
<1> QED BY <1>2, <1>3 DEF ReadSuccessor

LEMMA JudgeFrame ==
    ASSUME Frame, NEW r \in Request, Judge(r)
    PROVE  Frame'
<1>1. Going(r) /\ Reads /\ Ok /\ work[r].at \in TokenCalls
  BY DEF Judge, TokenCalls, Going, Reads, store
<1>2. Finish(r, 0) \/ Goto(r, "reuse", work[r])
  BY DEF Judge
<1> QED BY <1>1, <1>2, PlainFrame, RefusedFrame

LEMMA ReadRevokedFrame ==
    ASSUME Frame, NEW r \in Request, ReadRevoked(r)
    PROVE  Frame'
<1>1. Going(r) /\ Reads /\ Ok /\ work[r].at \in TokenCalls
  BY DEF ReadRevoked, TokenCalls, Going, Reads, store
<1>2. Finish(r, 0) \/ Goto(r, "rgrant", work[r])
  BY DEF ReadRevoked
<1> QED BY <1>1, <1>2, PlainFrame, RefusedFrame

LEMMA ReadClientGrantFrame ==
    ASSUME Frame, NEW r \in Request, ReadClientGrant(r)
    PROVE  Frame'
<1>1. Going(r) /\ Reads /\ Ok /\ work[r].at \in TokenCalls
  BY DEF ReadClientGrant, TokenCalls, Going, Reads, store
<1>2. Finish(r, 0) \/ Goto(r, "rrevoke", work[r])
  BY DEF ReadClientGrant
<1> QED BY <1>1, <1>2, PlainFrame, RefusedFrame

\* The request is answered with its successor.
LEMMA AnsweredFrame ==
    ASSUME Frame, NEW r \in Request, Reads, Ok, work[r].at \in {"check", "slive"},
           Finish(r, work[r].succ)
    PROVE  Frame'
<1> DEFINE s == work[r].succ
<1>1. Going(r) /\ work[r].got = 0 /\ Knows(r) /\ Owns(r)
  BY GoingFacts DEF Frame, Holds, Going
<1>2. s \in 0 .. MaxTokens /\ WorkT' /\ Finished(r, s)
  BY RequestTypes, FinishFacts DEF Frame
<1>3. s # 0 /\ s \in Made
  BY <1>1 DEF Knows, Owns
<1>4. /\ Rest(r) /\ work'[r].at = "done" /\ work'[r].succ = 0 /\ work'[r].got = s
      /\ work'[r].tok = work[r].tok
  BY <1>2, <1>3 DEF Finished
<1>5. tokens' = tokens /\ spent' = spent /\ Made' = Made
  BY DEF Reads, Made
<1>6. Handed \subseteq Handed'
  BY <1>1, <1>4, HandedStep
<1>7. Knows(r)' /\ Owns(r)'
  BY <1>1, <1>3, <1>4, <1>5, <1>6 DEF Knows, Owns, TokenCalls, Rotating, Unsettled
<1>8. tokens[s].from = work[r].tok
  <2>1. CASE work[r].at = "check"
    BY <1>1, <2>1 DEF Knows
  <2>2. CASE work[r].at = "slive"
    <3>1. work[r].tok \in Token /\ spent[work[r].tok].succ = s
      BY <1>1, <2>2, HandedMade DEF Knows, Owns, TokenCalls
    <3> QED BY <1>3, <3>1 DEF Frame, Records
  <2> QED BY <2>1, <2>2
<1>9. ASSUME work[r].tok # 0 PROVE Successor(work[r].tok)' = s
  <2>0. work[r].tok \in Token
    BY <1>9, HandedMade
  <2>1. \/ spent[work[r].tok].succ = s
        \/ spent[work[r].tok].succ = 0 /\ spent[work[r].tok].by = r
    BY <1>1, <1>9 DEF Owns, Rotating
  <2>2. r # Nobody
    BY GrantsAssumption
  <2> QED BY <1>3, <1>4, <1>5, <2>1, <2>2 DEF Successor
<1>10. Given(r)'
  BY <1>4, <1>5, <1>8, <1>9 DEF Given
<1>11. ~Opening(r)' /\ work'[r].at # "issue"
  BY <1>4 DEF Opening
<1> QED BY <1>1, <1>2, <1>4, <1>7, <1>10, <1>11, ReadsFrame DEF Holds

LEMMA CheckFrame ==
    ASSUME Frame, NEW r \in Request, Check(r)
    PROVE  Frame'
<1>1. Going(r) /\ Reads /\ Ok /\ work[r].at = "check"
  BY DEF Check, Going, Reads, store
<1>2. CASE Goto(r, "drop", work[r])
  <2>1. WorkT' /\ MoveTo(r, "drop")
    BY <1>2, ToFacts DEF Frame, Call
  <2>2. /\ work[r].succ # 0 /\ work[r].succ \in Made /\ tokens[work[r].succ].from = work[r].tok
        /\ work[r].tok # 0 => /\ spent[work[r].tok].by = r
                              /\ spent[work[r].tok].succ \in {0, work[r].succ}
    BY <1>1 DEF Frame, Holds, Knows, Owns, Rotating
  <2> QED BY <1>1, <2>1, <2>2, MovedFrame DEF MoveTo, Rotating, Unsettled, TokenCalls, Call
<1>3. CASE Finish(r, work[r].succ)
  BY <1>1, <1>3, AnsweredFrame
<1> QED BY <1>2, <1>3 DEF Check

LEMMA AgainFrame ==
    ASSUME Frame, NEW r \in Request, Again(r)
    PROVE  Frame'
<1>1. Going(r) /\ Reads /\ (Ok \/ Event) /\ work[r].at = "slive" /\ work[r].at \in TokenCalls
  BY DEF Again, Going, Reads, store, TokenCalls
<1>2. \/ Finish(r, 0) \/ Goto(r, "judge", work[r]) \/ Goto(r, "revoke", work[r])
      \/ Finish(r, work[r].succ) /\ Ok
  BY DEF Again
<1> QED BY <1>1, <1>2, AnsweredFrame, PlainFrame, RefusedFrame

-----------------------------------------------------------------------------
(* The same for steps that write.                                          *)

LEMMA ActivateFrame ==
    ASSUME Frame, NEW r \in Request, Activate(r)
    PROVE  Frame'
<1>1. /\ Going(r) /\ Ok /\ work[r].at = "activate" /\ grant' = Active(1)
      /\ UNCHANGED <<codeUsed, index, spent, tomb, revoked, tokens, over, dead>>
  BY DEF Activate, Going
<1>2. Knows(r) /\ work[r].got = 0
  BY <1>1, GoingFacts DEF Frame, Holds
<1>3. WorkT' /\ To(r, "issue", work[r].over, 1, work[r].succ, work[r].late)
  BY ToFacts DEF Frame, Call, Activate
<1>4. /\ Rest(r) /\ work'[r].at = "issue" /\ work'[r].gen = 1 /\ work'[r].tok = 0
      /\ work'[r].got = 0 /\ work'[r].succ = work[r].succ
  BY <1>1, <1>2, <1>3 DEF To, Knows
<1>5. Holds(r)'
  BY <1>1, <1>2, <1>4 DEF Holds, Knows, Owns, Given, TokenCalls, Rotating, Unsettled, Made
<1>6. grant'.st = "active" /\ grant' \in [st : {"none", "pending", "active"}, gen : 0 .. MaxTokens]
  BY <1>1, GrantsAssumption DEF Active
<1>7. Onward(r)
  BY <1>1, <1>4, <1>6 DEF Onward, Opening
<1>8. events' \in 0 .. MaxEvents /\ failed' \in BOOLEAN
  BY <1>1, CountTypes
<1>9. StoreT'
  BY <1>1, <1>6, <1>8 DEF Frame, StoreT, Made
<1>10. FlagsT'
  BY <1>1, <1>8, Zenon DEF Frame, FlagsT
<1> QED BY <1>1, <1>3, <1>5, <1>7, <1>9, <1>10, WritesFrame

\* A step that writes the grant, an index entry or a revocation, and does not
\* bring the grant back to where it began.
Written ==
    /\ UNCHANGED <<codeUsed, spent, tokens, over>>
    /\ Ok \/ Event \/ Fault
    /\ grant' \in {grant, NoGrant} \/ \E g \in 0 .. MaxTokens : grant' = Active(g)
    /\ index' \subseteq index
    /\ \/ UNCHANGED <<tomb, dead, revoked>>
       \/ /\ UNCHANGED <<tomb, dead>> \/ (tomb' = TRUE /\ dead' = TRUE)
          /\ \E p \in Replica : revoked' = revoked \cup {p}

LEMMA WrittenTypes ==
    ASSUME Frame, Written
    PROVE  StoreT' /\ FlagsT' /\ (grant'.st = "pending" => grant.st = "pending")
<1>1. events' \in 0 .. MaxEvents /\ failed' \in BOOLEAN
  BY CountTypes DEF Written
<1>2. /\ grant' \in [st : {"none", "pending", "active"}, gen : 0 .. MaxTokens]
      /\ grant'.st = "pending" => grant.st = "pending"
  <2>1. grant \in [st : {"none", "pending", "active"}, gen : 0 .. MaxTokens]
    BY DEF Frame, StoreT
  <2>2. grant' \in {grant, NoGrant} \/ \E g \in 0 .. MaxTokens : grant' = Active(g)
    BY DEF Written
  <2> QED BY <2>1, <2>2, GrantsAssumption DEF NoGrant, Active
<1>3. revoked' \subseteq Replica
  BY DEF Frame, StoreT, Written
<1>4. StoreT'
  BY <1>1, <1>2, <1>3 DEF Frame, StoreT, Written, Made
<1>5. tomb' \in BOOLEAN /\ dead' \in BOOLEAN /\ codeUsed' \in BOOLEAN
  BY Zenon DEF Frame, FlagsT, Written
<1>6. FlagsT'
  BY <1>1, <1>5 DEF FlagsT
<1> QED BY <1>2, <1>4, <1>6

LEMMA WrittenFrame ==
    ASSUME Frame, NEW r \in Request, Written, Going(r), Rest(r), WorkT', Holds(r)',
           Opening(r)' => Opening(r), work'[r].at = "issue" => work[r].tok # 0
    PROVE  Frame'
<1>1. StoreT' /\ FlagsT' /\ (grant'.st = "pending" => grant.st = "pending")
  BY WrittenTypes
<1>2. Onward(r) /\ spent' = spent
  BY <1>1 DEF Onward, Written
<1> QED BY <1>1, <1>2, WritesFrame

LEMMA WrittenDoneFrame ==
    ASSUME Frame, NEW r \in Request, Written, Going(r), Finish(r, 0)
    PROVE  Frame'
BY RefusedHolds, WrittenFrame

\* The calls that end a rotation, or a revocation, one way or the other.
LEMMA WrittenMoveFrame ==
    ASSUME Frame, NEW r \in Request, Written, Going(r),
           NEW c \in {"seal", "retire", "undo", "unclaim", "check", "dropgrant", "delete",
                      "rdelete", "rdrop"},
           Goto(r, c, work[r]),
           c \in TokenCalls => work[r].tok # 0,
           c \in {"seal", "retire", "undo"} => work[r].at \in {"put", "seal"},
           c \in {"seal", "undo"} => work[r].at = "put",
           c = "unclaim" => work[r].at = "undo",
           c = "check" => work[r].at = "retire",
           c = "dropgrant" => work[r].at = "drop"
    PROVE  Frame'
<1>0. c \in Call /\ c \in TokenCalls \cup {"check", "delete"} /\ tokens' = tokens /\ spent' = spent
  BY DEF Call, TokenCalls, Written
<1>1. WorkT' /\ MoveTo(r, c)
  BY <1>0, ToFacts DEF Frame
<1>2. Knows(r) /\ Owns(r)
  BY DEF Frame, Holds
<1>3. work[r].succ # 0 => work[r].succ \in Made
  BY <1>2 DEF Knows
<1>4. /\ c \in {"undo", "seal", "retire", "check"} =>
            work[r].succ # 0 /\ tokens[work[r].succ].from = work[r].tok
      /\ c = "seal" => work[r].gen = tokens[work[r].succ].gen
  BY <1>2 DEF Knows
<1>5. /\ c \in Rotating /\ work[r].tok # 0 => spent[work[r].tok].by = r
      /\ c \in Unsettled \cup {"seal"} /\ work[r].tok # 0 => spent[work[r].tok].succ = 0
      /\ c \in {"retire", "check"} /\ work[r].tok # 0 => spent[work[r].tok].succ \in {0, work[r].succ}
  BY <1>2 DEF Owns, Rotating, Unsettled
<1>6. c \notin {"issue", "claim", "idp", "put", "drop", "succ", "sgrant", "slive"}
  OBVIOUS
<1>7. /\ Rest(r) /\ Holds(r)'
      /\ Opening(r)' => Opening(r)
      /\ work'[r].at = "issue" => work[r].tok # 0
  <2>1. To(r, c, work[r].over, work[r].gen, work[r].succ, work[r].late)
    BY <1>1 DEF MoveTo
  <2> QED BY <1>0, <1>3, <1>4, <1>5, <1>6, <2>1, MovedHolds
<1> QED BY <1>1, <1>7, WrittenFrame

LEMMA PutGrantFrame ==
    ASSUME Frame, NEW r \in Request, PutGrant(r)
    PROVE  Frame'
<1>1. Going(r) /\ work[r].at = "put"
  BY DEF PutGrant, Going
<1>2. work[r].gen \in 0 .. MaxTokens /\ work[r].tok # 0
  <2>1. Knows(r)
    BY DEF Frame, Holds
  <2>2. work[r].succ \in Made /\ work[r].gen = tokens[work[r].succ].gen /\ work[r].tok # 0
    BY <1>1, <2>1 DEF Knows, TokenCalls
  <2> QED BY <2>2, TokenTypes, GrantsAssumption DEF Frame
<1>3. Written
  BY <1>2 DEF PutGrant, Written
<1>4. PICK c \in {"seal", "retire", "undo"} : Goto(r, c, work[r])
  BY DEF PutGrant
<1> QED BY <1>1, <1>2, <1>3, <1>4, WrittenMoveFrame

LEMMA UndoFrame ==
    ASSUME Frame, NEW r \in Request, Undo(r)
    PROVE  Frame'
<1>1. Going(r) /\ work[r].at = "undo" /\ Goto(r, "unclaim", work[r]) /\ work[r].tok # 0
  BY DEF Undo, Going, Frame, Holds, Knows, TokenCalls
<1>2. Written
  BY DEF Undo, Written
<1> QED BY <1>1, <1>2, WrittenMoveFrame

LEMMA RetireFrame ==
    ASSUME Frame, NEW r \in Request, Retire(r)
    PROVE  Frame'
<1>1. Going(r) /\ work[r].at = "retire" /\ Goto(r, "check", work[r])
  BY DEF Retire, Going
<1>2. Written
  BY DEF Retire, Written
<1> QED BY <1>1, <1>2, WrittenMoveFrame DEF TokenCalls

LEMMA DropFrame ==
    ASSUME Frame, NEW r \in Request, Drop(r)
    PROVE  Frame'
<1>1. /\ Going(r) /\ work[r].at = "drop"
      /\ Finish(r, 0) \/ (work[r].tok # 0 /\ Goto(r, "dropgrant", work[r]))
  BY DEF Drop, Going
<1>2. Written
  BY DEF Drop, Written
<1> QED BY <1>1, <1>2, WrittenMoveFrame, WrittenDoneFrame

LEMMA DropGrantFrame ==
    ASSUME Frame, NEW r \in Request, DropGrant(r)
    PROVE  Frame'
<1>1. Going(r) /\ Finish(r, 0)
  BY DEF DropGrant, Going
<1>2. Written
  BY DEF DropGrant, Written
<1> QED BY <1>1, <1>2, WrittenDoneFrame

LEMMA TombstoneFrame ==
    ASSUME Frame, NEW r \in Request, Tombstone(r)
    PROVE  Frame'
<1>1. /\ Going(r) /\ work[r].at \in {"revoke", "reuse", "rrevoke"}
      /\ Goto(r, "delete", work[r]) \/ (work[r].at = "rrevoke" /\ Goto(r, "rdelete", work[r]))
  BY DEF Tombstone, Going
<1>2. Written
  <2>1. Home[r] \in Replica
    BY GrantsAssumption
  <2> QED BY <2>1 DEF Tombstone, Written
<1>3. work[r].at = "rrevoke" => work[r].tok # 0
  BY DEF Frame, Holds, Knows, TokenCalls
<1>4. CASE Goto(r, "delete", work[r])
  BY <1>1, <1>2, <1>4, WrittenMoveFrame DEF TokenCalls
<1>5. CASE work[r].at = "rrevoke" /\ Goto(r, "rdelete", work[r])
  BY <1>1, <1>2, <1>3, <1>5, WrittenMoveFrame
<1> QED BY <1>1, <1>4, <1>5

LEMMA DeleteGrantFrame ==
    ASSUME Frame, NEW r \in Request, DeleteGrant(r)
    PROVE  Frame'
<1>1. /\ Going(r)
      /\ Finish(r, 0) \/ (work[r].at = "rdelete" /\ Goto(r, "rdrop", work[r]))
  BY DEF DeleteGrant, Going
<1>2. Written
  BY DEF DeleteGrant, Written
<1>3. work[r].at = "rdelete" => work[r].tok # 0
  BY DEF Frame, Holds, Knows, TokenCalls
<1> QED BY <1>1, <1>2, <1>3, WrittenMoveFrame, WrittenDoneFrame

LEMMA DropRevokedFrame ==
    ASSUME Frame, NEW r \in Request, DropRevoked(r)
    PROVE  Frame'
<1>1. Going(r) /\ Finish(r, 0)
  BY DEF DropRevoked, Going
<1>2. Written
  BY DEF DropRevoked, Written
<1> QED BY <1>1, <1>2, WrittenDoneFrame

\* The record of a spent token is put, released or sealed.
SpentPut(r, x) ==
    /\ spent' = [spent EXCEPT ![work[r].tok] = x]
    /\ UNCHANGED <<grant, codeUsed, index, tomb, revoked, tokens, over, dead>>

LEMMA SpentPutFacts ==
    ASSUME Frame, NEW r \in Request, NEW x \in SpentRecord, SpentPut(r, x), Ok \/ Event \/ Fault,
           work[r].tok # 0
    PROVE  /\ StoreT' /\ FlagsT' /\ spent'[work[r].tok] = x
           /\ \A t \in Token : t # work[r].tok => spent'[t] = spent[t]
<1>1. work[r].tok \in Token
  BY HandedMade
<1>2. spent \in [Token -> SpentRecord]
  BY DEF Frame, StoreT
<1>3. /\ spent' \in [Token -> SpentRecord] /\ spent'[work[r].tok] = x
      /\ \A t \in Token : t # work[r].tok => spent'[t] = spent[t]
  BY <1>1, <1>2 DEF SpentPut
<1>4. events' \in 0 .. MaxEvents /\ failed' \in BOOLEAN
  BY CountTypes
<1>5. StoreT'
  BY <1>3, <1>4 DEF Frame, StoreT, SpentPut, Made
<1>6. FlagsT'
  BY <1>4, Zenon DEF Frame, FlagsT, SpentPut
<1> QED BY <1>3, <1>5, <1>6

LEMMA SpentFrame ==
    ASSUME Frame, NEW r \in Request, NEW x \in SpentRecord, SpentPut(r, x), Ok \/ Event \/ Fault,
           work[r].tok # 0, spent[work[r].tok].by \in {Nobody, r}, spent[work[r].tok].succ = 0,
           x.by = Nobody => x.succ = 0,
           x.succ # 0 => x.succ \in Made /\ tokens[x.succ].from = work[r].tok,
           Going(r), Rest(r), WorkT', Holds(r)', work'[r].at # "issue", ~Opening(r)'
    PROVE  Frame'
<1>1. /\ StoreT' /\ FlagsT' /\ spent'[work[r].tok] = x
      /\ \A t \in Token : t # work[r].tok => spent'[t] = spent[t]
  BY SpentPutFacts
<1>2. SpentStep(r)
  BY <1>1 DEF SpentStep
<1>3. Onward(r)
  BY DEF Onward, SpentPut
<1>4. Handed \subseteq Handed'
  BY HandedStep, GoingFacts
<1>5. tokens' = tokens /\ Made' = Made
  BY DEF SpentPut, Made
<1>6. work[r].tok \in Handed
  BY DEF Frame, Holds, Knows
<1>7. Records'
  BY <1>1, <1>4, <1>5, <1>6 DEF Frame, Records
<1> QED BY <1>1, <1>2, <1>3, <1>7, OnwardFrame

LEMMA ClaimFrame ==
    ASSUME Frame, NEW r \in Request, Claim(r)
    PROVE  Frame'
<1>1. Going(r) /\ Ok /\ work[r].at = "claim"
  BY DEF Claim, Going
<1>2. Knows(r) /\ work[r].tok # 0 /\ work[r].tok \in Token /\ work[r].got = 0
      /\ (work[r].succ # 0 => work[r].succ \in Made)
  BY <1>1, HandedMade, GoingFacts DEF Frame, Holds, Knows, TokenCalls
<1>3. CASE spent[work[r].tok] = Unspent
  <2> DEFINE x == [by |-> r, succ |-> 0]
  <2>1. x \in SpentRecord /\ x.by = r /\ x.succ = 0 /\ r # Nobody
    BY GrantsAssumption DEF SpentRecord
  <2>2. SpentPut(r, x) /\ Goto(r, "idp", [work[r] EXCEPT !.over = {}])
    BY <1>3 DEF Claim, SpentPut
  <2> HIDE DEF x
  <2>3. WorkT' /\ To(r, "idp", {}, work[r].gen, work[r].succ, work[r].late)
    BY <2>2, ToFacts DEF Frame, Call
  <2>4. spent[work[r].tok].by = Nobody /\ spent[work[r].tok].succ = 0
    BY <1>3, UnspentFields
  <2>5. /\ Rest(r) /\ work'[r].at = "idp" /\ work'[r].gen = work[r].gen
        /\ work'[r].succ = work[r].succ /\ work'[r].tok = work[r].tok /\ work'[r].got = 0
    BY <1>2, <2>3 DEF To
  <2>6. tokens' = tokens /\ Made' = Made /\ spent'[work[r].tok] = x
    BY <1>1, <1>2, <2>1, <2>2, SpentPutFacts DEF SpentPut, Made
  <2>7. Handed \subseteq Handed'
    BY <1>2, <2>5, HandedStep
  <2>8. Knows(r)'
    BY <1>1, <1>2, <2>5, <2>6, <2>7 DEF Knows, TokenCalls
  <2>9. Owns(r)' /\ Given(r)'
    BY <2>1, <2>5, <2>6 DEF Owns, Given, Rotating, Unsettled
  <2>10. ~Opening(r)' /\ work'[r].at # "issue"
    BY <2>5 DEF Opening
  <2> QED BY <1>1, <1>2, <2>1, <2>2, <2>3, <2>4, <2>5, <2>8, <2>9, <2>10, SpentFrame DEF Holds
<1>4. CASE spent[work[r].tok] # Unspent
  <2>1. Reads /\ Goto(r, "spent", work[r])
    BY <1>4 DEF Claim, Reads
  <2>2. WorkT' /\ MoveTo(r, "spent")
    BY <2>1, ToFacts DEF Frame, Call
  <2> QED BY <1>1, <1>2, <2>1, <2>2, MovedFrame DEF MoveTo, Rotating, Unsettled, TokenCalls, Call
<1> QED BY <1>3, <1>4

LEMMA UnclaimFrame ==
    ASSUME Frame, NEW r \in Request, Unclaim(r)
    PROVE  Frame'
<1>1. Going(r) /\ Ok /\ work[r].at = "unclaim" /\ SpentPut(r, Unspent) /\ Finish(r, 0)
  BY DEF Unclaim, Going, SpentPut
<1>2. work[r].tok # 0
  BY <1>1 DEF Frame, Holds, Knows, TokenCalls
<1>3. spent[work[r].tok].by = r /\ spent[work[r].tok].succ = 0
  BY <1>1, <1>2 DEF Frame, Holds, Owns, Rotating, Unsettled
<1>4. WorkT' /\ Rest(r) /\ Holds(r)' /\ work'[r].at = "done"
  BY <1>1, RefusedHolds DEF Finished
<1>5. ~Opening(r)'
  BY <1>4 DEF Opening
<1> QED BY <1>1, <1>2, <1>3, <1>4, <1>5, UnspentFields, SpentFrame

LEMMA SealFrame ==
    ASSUME Frame, NEW r \in Request, Seal(r)
    PROVE  Frame'
<1>1. Going(r) /\ (Ok \/ Fault) /\ work[r].at = "seal" /\ Goto(r, "retire", work[r])
  BY DEF Seal, Going
<1>2. /\ Knows(r) /\ work[r].tok # 0 /\ work[r].tok \in Token /\ work[r].got = 0
      /\ work[r].succ \in Made /\ work[r].succ # 0
      /\ tokens[work[r].succ].from = work[r].tok
      /\ spent[work[r].tok].by = r /\ spent[work[r].tok].succ = 0
  BY <1>1, HandedMade, GoingFacts DEF Frame, Holds, Knows, Owns, TokenCalls, Rotating
<1>3. CASE spent' = spent
  <2>1. Written
    BY <1>1, <1>3 DEF Seal, Written
  <2> QED BY <1>1, <1>2, <2>1, WrittenMoveFrame
<1>4. CASE spent' = [spent EXCEPT ![work[r].tok] = [by |-> r, succ |-> work[r].succ]]
  <2> DEFINE x == [by |-> r, succ |-> work[r].succ]
  <2>1. x \in SpentRecord /\ x.by = r /\ x.succ = work[r].succ /\ r # Nobody
    BY GrantsAssumption, RequestTypes DEF SpentRecord, Frame
  <2>2. SpentPut(r, x)
    BY <1>4 DEF Seal, SpentPut
  <2> HIDE DEF x
  <2>3. WorkT' /\ MoveTo(r, "retire")
    BY <1>1, ToFacts DEF Frame, Call
  <2>5. /\ Rest(r) /\ work'[r].at = "retire" /\ work'[r].gen = work[r].gen
        /\ work'[r].succ = work[r].succ /\ work'[r].tok = work[r].tok /\ work'[r].got = 0
    BY <1>2, <2>3 DEF MoveTo, To
  <2>6. tokens' = tokens /\ Made' = Made /\ spent'[work[r].tok] = x
    BY <1>1, <1>2, <2>1, <2>2, SpentPutFacts DEF SpentPut, Made
  <2>7. Handed \subseteq Handed'
    BY <1>2, <2>5, HandedStep
  <2>8. Knows(r)'
    BY <1>1, <1>2, <2>5, <2>6, <2>7 DEF Knows, TokenCalls
  <2>9. Owns(r)' /\ Given(r)'
    BY <2>1, <2>5, <2>6 DEF Owns, Given, Rotating, Unsettled
  <2>10. ~Opening(r)' /\ work'[r].at # "issue"
    BY <2>5 DEF Opening
  <2> QED BY <1>1, <1>2, <2>1, <2>2, <2>3, <2>5, <2>8, <2>9, <2>10, SpentFrame DEF Holds
<1> QED BY <1>3, <1>4 DEF Seal

LEMMA ClaimCodeFrame ==
    ASSUME Frame, NEW r \in Request, ClaimCode(r)
    PROVE  Frame'
<1>1. /\ Ok /\ work[r].at = "code" /\ codeUsed' = TRUE
      /\ UNCHANGED <<grant, index, spent, tomb, revoked, tokens, over, dead>>
  BY DEF ClaimCode
<1>2. Knows(r) /\ work[r].tok = 0 /\ work[r].got = 0
  BY <1>1 DEF Frame, Holds, Knows
<1>3. PICK c \in {"revoke", "pending"} : Goto(r, c, work[r]) /\ (c = "pending" <=> ~codeUsed)
  BY DEF ClaimCode
<1>4. WorkT' /\ MoveTo(r, c)
  BY <1>3, ToFacts DEF Frame, Call
<1>5. /\ Rest(r) /\ work'[r].at = c /\ work'[r].tok = 0 /\ work'[r].got = 0
      /\ work'[r].succ = work[r].succ
  BY <1>2, <1>4 DEF MoveTo, To
<1>6. Holds(r)'
  BY <1>1, <1>2, <1>5 DEF Holds, Knows, Owns, Given, TokenCalls, Rotating, Unsettled, Made
<1>7. /\ Len(tokens') \in Nat /\ Grown(tokens, tokens') /\ SpentStep(r) /\ Handed \subseteq Handed'
      /\ spent' = spent /\ tokens' = tokens
  BY <1>1, <1>2, <1>5, HandedStep, TokenTypes DEF Frame, Grown, SpentStep
<1>8. \A q \in Request : Holds(q)'
  <2>1. ASSUME NEW q \in Request \ {r} PROVE Holds(q)'
    BY <1>2, <1>5, <1>7, <2>1, OthersHold
  <2> QED BY <1>6, <2>1
<1>9. Ancestry' /\ Records'
  BY <1>7, AncestryKept, RecordsKept
<1>10. Opened'
  <2>1. Opened /\ codeUsed'
    BY <1>1 DEF Frame
  <2>2. \A q \in Request : q # r => work'[q] = work[q]
    BY <1>5 DEF Rest
  <2>3. ASSUME NEW q \in Request, Opening(q)' PROVE tokens' = <<>>
    <3>1. CASE q = r
      BY <1>3, <1>5, <1>7, <2>1, <2>3, <3>1 DEF Opened, Opening
    <3>2. CASE q # r
      BY <1>7, <2>1, <2>2, <2>3, <3>2 DEF Opened, Opening
    <3> QED BY <3>1, <3>2
  <2>4. ASSUME NEW p \in Request, NEW q \in Request, Opening(p)', Opening(q)' PROVE p = q
    <3>1. CASE codeUsed
      BY <1>3, <1>5, <2>1, <2>2, <2>4, <3>1 DEF Opened, Opening
    <3>2. CASE ~codeUsed
      BY <2>1, <2>2, <2>4, <3>2 DEF Opened, Opening
    <3> QED BY <3>1, <3>2
  <2>5. tokens' # <<>> \/ (\E q \in Request : work'[q].at = "issue") => grant'.st # "pending"
    BY <1>1, <1>5, <2>1, <2>2 DEF Opened
  <2> QED BY <2>1, <2>3, <2>4, <2>5 DEF Opened
<1>11. events' \in 0 .. MaxEvents /\ failed' \in BOOLEAN
  BY <1>1, CountTypes
<1>12. StoreT'
  BY <1>1, <1>11 DEF Frame, StoreT, Made
<1>13. FlagsT'
  BY <1>1, <1>11, Zenon DEF Frame, FlagsT
<1> QED BY <1>4, <1>8, <1>9, <1>10, <1>12, <1>13 DEF Frame

\* What issuing a token does to the tokens.
LEMMA IssuedFacts ==
    ASSUME Frame, NEW r \in Request, Issue(r)
    PROVE  /\ Len(tokens) \in Nat /\ Len(tokens) + 1 \in 0 .. MaxTokens
           /\ tokens' \in Seq(TokenRecord) /\ Len(tokens') = Len(tokens) + 1
           /\ Grown(tokens, tokens')
           /\ tokens'[Len(tokens) + 1].gen = work[r].gen
           /\ tokens'[Len(tokens) + 1].from = work[r].tok
           /\ work[r].tok = 0 => tokens = <<>> /\ Len(tokens) = 0 /\ work[r].gen = 1
           /\ work[r].tok # 0 => /\ tokens # <<>> /\ work[r].tok \in Made
                                 /\ work[r].gen = tokens[work[r].tok].gen + 1
           /\ work[r].gen <= Len(tokens) + 1
<1>1. work[r].at = "issue" /\ Len(tokens) < MaxTokens /\ Knows(r)
  BY DEF Issue, Frame, Holds
<1>2. tokens \in Seq(TokenRecord) /\ Len(tokens) \in Nat /\ work[r].gen \in Nat /\ work[r].tok \in 0 .. MaxTokens
  BY TokenTypes, RequestTypes DEF Frame, StoreT
<1>3. work[r].tok = 0 => tokens = <<>> /\ Len(tokens) = 0 /\ work[r].gen = 1
  <2>1. work[r].tok = 0 => tokens = <<>>
    BY <1>1 DEF Frame, Opened, Opening
  <2>2. Len(<<>>) = 0
    OBVIOUS
  <2> QED BY <1>1, <2>1, <2>2 DEF Knows
<1>4. work[r].tok # 0 => /\ tokens # <<>> /\ work[r].tok \in Made
                         /\ work[r].gen = tokens[work[r].tok].gen + 1
  BY <1>1, NotEmpty, HandedMade DEF Knows
<1>5. work[r].gen <= Len(tokens) + 1 /\ work[r].gen >= 1
  <2>1. CASE work[r].tok = 0
    BY <1>2, <1>3, <2>1
  <2>2. CASE work[r].tok # 0
    <3>1. tokens[work[r].tok].gen <= work[r].tok /\ tokens[work[r].tok].gen \in Nat
      BY <1>4, <2>2, TokenTypes DEF Frame, Ancestry
    <3> QED BY <1>2, <1>4, <2>2, <3>1 DEF Made
  <2> QED BY <2>1, <2>2
<1>6. Len(tokens) + 1 \in 0 .. MaxTokens /\ work[r].gen \in 1 .. MaxTokens
  BY <1>1, <1>2, <1>5, GrantsAssumption
<1> DEFINE x == [gen |-> work[r].gen, from |-> work[r].tok]
<1>7. x \in TokenRecord /\ x.gen = work[r].gen /\ x.from = work[r].tok
  BY <1>2, <1>6 DEF TokenRecord
<1>8. tokens' = Append(tokens, x)
  BY DEF Issue
<1> HIDE DEF x
<1>9. /\ tokens' \in Seq(TokenRecord) /\ Len(tokens') = Len(tokens) + 1
      /\ tokens'[Len(tokens) + 1] = x /\ \A n \in 1 .. Len(tokens) : tokens'[n] = tokens[n]
  BY <1>2, <1>7, <1>8
<1>10. Grown(tokens, tokens')
  BY <1>2, <1>9 DEF Grown
<1> QED BY <1>2, <1>3, <1>4, <1>5, <1>6, <1>7, <1>9, <1>10

LEMMA IssueFrame ==
    ASSUME Frame, NEW r \in Request, Issue(r)
    PROVE  Frame'
<1> DEFINE n == Len(tokens) + 1
<1>i. /\ n \in 0 .. MaxTokens /\ n \in Nat /\ n # 0 /\ Len(tokens') \in Nat /\ Len(tokens) \in Nat
      /\ tokens' \in Seq(TokenRecord) /\ Len(tokens') = n /\ Grown(tokens, tokens')
      /\ tokens'[n].gen = work[r].gen /\ tokens'[n].from = work[r].tok
  BY IssuedFacts
<1>g. /\ work[r].tok = 0 => tokens = <<>> /\ Len(tokens) = 0 /\ work[r].gen = 1
      /\ work[r].tok # 0 => /\ tokens # <<>> /\ work[r].tok \in Made
                            /\ work[r].gen = tokens[work[r].tok].gen + 1
      /\ work[r].gen <= n
  BY IssuedFacts
<1>1. /\ work[r].at = "issue" /\ Going(r)
      /\ UNCHANGED <<grant, codeUsed, spent, tomb, revoked, over, dead>> /\ (Ok \/ Fault)
      /\ index' \in {index, index \cup {n}}
      /\ \/ work[r].tok = 0 /\ Goto(r, "check", [work[r] EXCEPT !.succ = n])
         \/ work[r].tok # 0 /\ Goto(r, "put", [work[r] EXCEPT !.succ = n])
         \/ Finish(r, 0)
         \/ work[r].tok # 0 /\ Goto(r, "unclaim", work[r])
  BY DEF Issue, Going
<1> HIDE DEF n
<1>2. Knows(r) /\ Owns(r) /\ work[r].got = 0
  BY <1>1, GoingFacts DEF Frame, Holds
<1>m. Made' = Made \cup {n} /\ \A k \in Made : tokens'[k] = tokens[k]
  BY <1>i DEF Made, Grown, n
<1>n. Made' = Made \cup {n} /\ n \in Made' /\ (work[r].succ # 0 => work[r].succ \in Made')
  BY <1>2, <1>m DEF Knows
<1>3. /\ WorkT' /\ Rest(r) /\ work'[r].got = 0
      /\ work'[r].at \in {"check", "put", "unclaim", "done"}
      /\ work'[r].tok \in {0, work[r].tok}
      /\ work'[r].succ # 0 => work'[r].succ \in Made'
      /\ work'[r].at = "check" => work'[r].tok = 0 /\ work[r].tok = 0 /\ work'[r].succ = n
      /\ work'[r].at = "put" => /\ work'[r].tok # 0 /\ work'[r].tok = work[r].tok /\ work'[r].succ = n
                                /\ work'[r].gen = work[r].gen
      /\ work'[r].at = "unclaim" => work'[r].tok # 0 /\ work'[r].tok = work[r].tok
  <2>0. WorkT
    BY DEF Frame
  <2>1. CASE work[r].tok = 0 /\ Goto(r, "check", [work[r] EXCEPT !.succ = n])
    <3>1. WorkT' /\ To(r, "check", work[r].over, work[r].gen, n, work[r].late)
      BY <1>i, <2>0, <2>1, ToFacts DEF Call
    <3> QED BY <1>2, <1>n, <2>1, <3>1 DEF To
  <2>2. CASE work[r].tok # 0 /\ Goto(r, "put", [work[r] EXCEPT !.succ = n])
    <3>1. WorkT' /\ To(r, "put", work[r].over, work[r].gen, n, work[r].late)
      BY <1>i, <2>0, <2>2, ToFacts DEF Call
    <3> QED BY <1>2, <1>n, <2>2, <3>1 DEF To
  <2>3. CASE Finish(r, 0)
    BY <1>2, <2>3, RefusedHolds DEF Finished
  <2>4. CASE work[r].tok # 0 /\ Goto(r, "unclaim", work[r])
    <3>1. WorkT' /\ MoveTo(r, "unclaim")
      BY <2>0, <2>4, ToFacts DEF Call
    <3> QED BY <1>2, <1>n, <2>4, <3>1 DEF MoveTo, To
  <2> QED BY <1>1, <2>1, <2>2, <2>3, <2>4
<1>4. Handed \subseteq Handed' /\ SpentStep(r) /\ spent' = spent
  BY <1>1, <1>2, <1>3, HandedStep DEF SpentStep
<1>5. Holds(r)'
  <2>1. Knows(r)'
    BY <1>i, <1>2, <1>3, <1>4 DEF Knows, TokenCalls
  <2>2. Owns(r)'
    BY <1>1, <1>2, <1>3, <1>4 DEF Owns, Rotating, Unsettled
  <2>3. Given(r)'
    BY <1>3 DEF Given
  <2> QED BY <2>1, <2>2, <2>3 DEF Holds
<1>6. \A q \in Request : Holds(q)'
  <2>1. ASSUME NEW q \in Request \ {r} PROVE Holds(q)'
    BY <1>i, <1>2, <1>3, <1>4, <2>1, OthersHold
  <2> QED BY <1>5, <2>1
<1>7. Records'
  BY <1>i, <1>4, RecordsKept
<1>8. Ancestry'
  <2>1. ASSUME NEW k \in Made
        PROVE  /\ tokens'[k].gen <= k
               /\ tokens'[k].from = 0 => k = 1 /\ tokens'[k].gen = 1
               /\ tokens'[k].from # 0 =>
                    /\ tokens'[k].from \in Handed'
                    /\ tokens'[k].gen = tokens'[tokens'[k].from].gen + 1
    <3>1. /\ tokens[k].gen <= k
          /\ tokens[k].from = 0 => k = 1 /\ tokens[k].gen = 1
          /\ tokens[k].from # 0 =>
                /\ tokens[k].from \in Handed /\ tokens[k].from \in Made
                /\ tokens[k].gen = tokens[tokens[k].from].gen + 1
      BY HandedMade DEF Frame, Ancestry
    <3> QED BY <1>m, <1>4, <2>1, <3>1
  <2>2. /\ tokens'[n].gen <= n
        /\ tokens'[n].from = 0 => n = 1 /\ tokens'[n].gen = 1
        /\ tokens'[n].from # 0 =>
             /\ tokens'[n].from \in Handed'
             /\ tokens'[n].gen = tokens'[tokens'[n].from].gen + 1
    BY <1>i, <1>g, <1>m, <1>2, <1>4 DEF Knows, n
  <2> QED BY <1>m, <2>1, <2>2 DEF Ancestry
<1>9. Opened'
  <2>1. Opened /\ codeUsed
    BY <1>1, GoingFacts DEF Frame
  <2>2. \A q \in Request : q # r => work'[q] = work[q]
    BY <1>3 DEF Rest
  <2>3. ASSUME NEW q \in Request PROVE ~Opening(q)'
    <3>1. CASE q = r
      BY <1>3, <3>1 DEF Opening
    <3>2. CASE q # r
      <4>1. Opening(q)' => Opening(q)
        BY <2>2, <3>2 DEF Opening
      <4>2. work[r].tok = 0 => Opening(r)
        BY <1>1 DEF Opening
      <4> QED BY <1>g, <2>1, <3>2, <4>1, <4>2 DEF Opened
    <3> QED BY <3>1, <3>2
  <2>4. grant'.st # "pending" /\ codeUsed'
    BY <1>1, <2>1 DEF Opened
  <2> QED BY <2>3, <2>4 DEF Opened
<1>10. events' \in 0 .. MaxEvents /\ failed' \in BOOLEAN
  BY <1>1, CountTypes
<1>11. index' \subseteq Made'
  BY <1>1, <1>m DEF Frame, StoreT
<1>12. StoreT'
  BY <1>i, <1>1, <1>10, <1>11, GrantsAssumption DEF Frame, StoreT
<1>13. FlagsT'
  BY <1>1, <1>10, Zenon DEF Frame, FlagsT
<1> QED BY <1>3, <1>6, <1>7, <1>8, <1>9, <1>12, <1>13 DEF Frame

-----------------------------------------------------------------------------
(* Requests that stop, time, and requests that arrive.                     *)

\* Requests stop, or nothing happens to them.
Still ==
    /\ \A q \in Request : work'[q] = work[q] \/ (work'[q] = Halted /\ work[q].at \notin Ended)
    /\ UNCHANGED <<grant, codeUsed, index, spent, tokens, dead>>

LEMMA HaltedFields ==
    /\ Halted \in WorkRecord
    /\ Halted.at = "stopped" /\ Halted.tok = 0 /\ Halted.over = {} /\ Halted.gen = 0
    /\ Halted.succ = 0 /\ Halted.got = 0
    /\ Halted.late = FALSE /\ Halted.after = FALSE /\ Halted.reuse = FALSE
BY NewFields DEF Halted, WorkRecord, Ended

LEMMA StillHanded ==
    ASSUME Frame, Still
    PROVE  /\ \A q \in Request : work'[q].got = work[q].got
           /\ Handed' = Handed
<1>1. \A q \in Request : work'[q].got = work[q].got
  BY HaltedFields DEF Still, Frame, Holds, Knows, Ended
<1> QED BY <1>1 DEF Handed

LEMMA StillFrame ==
    ASSUME Frame, Still, WorkT', StoreT', FlagsT'
    PROVE  Frame'
<1>1. Handed' = Handed /\ \A q \in Request : work'[q].got = work[q].got
  BY StillHanded
<1>2. grant' = grant /\ codeUsed' = codeUsed /\ spent' = spent /\ tokens' = tokens /\ dead' = dead
      /\ Made' = Made
  BY DEF Still, Made
<1>3. ASSUME NEW q \in Request PROVE Holds(q)'
  <2>1. CASE work'[q] = Halted
    <3>1. Idle(q)'
      BY <2>1, HaltedFields DEF Idle
    <3> QED BY <3>1 DEF Idle, Holds, Knows, Owns, Given, TokenCalls, Rotating, Unsettled
  <2>2. CASE work'[q] = work[q]
    <3>0. Knows(q) /\ Owns(q) /\ Given(q)
      BY DEF Frame, Holds
    <3>1. Knows(q)'
      BY <1>1, <1>2, <2>2, <3>0 DEF Knows
    <3>2. Owns(q)'
      BY <1>2, <2>2, <3>0 DEF Owns
    <3>3. ASSUME work[q].tok # 0 PROVE Successor(work[q].tok)' = Successor(work[q].tok)
      <4>1. work[q].tok \in Token
        BY <3>3, HandedMade
      <4>2. spent[work[q].tok].by \in Request \cup {Nobody}
        BY <4>1, SpentTypes DEF Frame
      <4> QED BY <1>1, <1>2, <2>2, <4>2 DEF Successor
    <3>4. Given(q)'
      BY <1>2, <2>2, <3>0, <3>3 DEF Given
    <3> QED BY <3>1, <3>2, <3>4 DEF Holds
  <2> QED BY <2>1, <2>2 DEF Still
<1>4. Ancestry' /\ Records'
  BY <1>1, <1>2 DEF Frame, Ancestry, Records
<1>5. Opened'
  <2>1. \A q \in Request : work'[q] = work[q] \/ (work'[q].at = "stopped" /\ ~Opening(q)')
    BY HaltedFields DEF Still, Opening
  <2> QED BY <1>2, <2>1 DEF Frame, Opened, Opening
<1> QED BY <1>3, <1>4, <1>5 DEF Frame

LEMMA PollFrame ==
    ASSUME Frame, NEW p \in Replica, Poll(p)
    PROVE  Frame'
<1>1. Still /\ WorkT' /\ UNCHANGED <<over, tomb, failed, events, codeUsed, dead>> /\ revoked' = revoked \cup {p}
  BY DEF Poll, Still, store, faults, Frame, WorkT
<1>2. StoreT'
  BY <1>1 DEF Frame, StoreT, Still, Made
<1>3. FlagsT'
  BY <1>1, Zenon DEF Frame, FlagsT
<1> QED BY <1>1, <1>2, <1>3, StillFrame

LEMMA GraceEndsFrame ==
    ASSUME Frame, NEW q \in Request, GraceEnds(q)
    PROVE  Frame'
<1>1. Still /\ WorkT' /\ UNCHANGED <<revoked, tomb, failed, events, codeUsed, dead>> /\ over' = over \cup {q}
  BY DEF GraceEnds, Still, store, faults, Frame, WorkT
<1>2. StoreT'
  BY <1>1 DEF Frame, StoreT, Still, Made
<1>3. FlagsT'
  BY <1>1, Zenon DEF Frame, FlagsT
<1> QED BY <1>1, <1>2, <1>3, StillFrame

LEMMA TombstoneEndsFrame ==
    ASSUME Frame, TombstoneEnds
    PROVE  Frame'
<1>1. /\ Still /\ WorkT' /\ UNCHANGED <<over, failed, events, codeUsed, dead>>
      /\ revoked' = {} /\ tomb' = FALSE
  BY DEF TombstoneEnds, Still, store, faults, Frame, WorkT
<1>2. StoreT'
  BY <1>1 DEF Frame, StoreT, Still, Made
<1>3. FlagsT'
  BY <1>1, Zenon DEF Frame, FlagsT
<1> QED BY <1>1, <1>2, <1>3, StillFrame

LEMMA StopFacts ==
    ASSUME WorkT, NEW r \in Request, Stop(r)
    PROVE  WorkT' /\ work'[r] = Halted /\ Rest(r) /\ Still
<1>1. work \in [Request -> WorkRecord] /\ work' = [work EXCEPT ![r] = Halted] /\ work[r].at \notin Ended
  BY DEF WorkT, Stop
<1>2. WorkT' /\ work'[r] = Halted /\ Rest(r)
  BY <1>1, HaltedFields DEF WorkT, Rest
<1>3. UNCHANGED <<grant, codeUsed, index, spent, tokens, dead>>
  BY DEF Stop, store
<1> QED BY <1>1, <1>2, <1>3 DEF Still, Rest

LEMMA StopFrame ==
    ASSUME Frame, NEW r \in Request, Stop(r)
    PROVE  Frame'
<1>1. WorkT' /\ Still
  BY StopFacts DEF Frame
<1>2. UNCHANGED <<grant, codeUsed, index, spent, tomb, revoked, tokens, over, dead>> /\ Count
  BY DEF Stop, store
<1>3. StoreT'
  BY <1>2, GrantsAssumption DEF Frame, StoreT, Count, Made
<1>4. failed' \in BOOLEAN
  BY Zenon DEF Stop
<1>5. FlagsT'
  BY <1>2, <1>4, Zenon DEF Frame, FlagsT
<1> QED BY <1>1, <1>3, <1>5, StillFrame

LEMMA RestartFacts ==
    ASSUME WorkT, NEW p \in Replica, Restart(p)
    PROVE  WorkT' /\ Still
<1>1. /\ work \in [Request -> WorkRecord]
      /\ work' = [r \in Request |-> IF Home[r] = p /\ work[r].at \notin Ended THEN Halted ELSE work[r]]
  BY DEF WorkT, Restart
<1>2. UNCHANGED <<grant, codeUsed, index, spent, tokens, dead>>
  BY DEF Restart, store
<1>3. \A q \in Request : work'[q] = work[q] \/ (work'[q] = Halted /\ work[q].at \notin Ended)
  BY <1>1
<1>4. WorkT'
  BY <1>1, HaltedFields DEF WorkT
<1> QED BY <1>2, <1>3, <1>4 DEF Still

LEMMA RestartFrame ==
    ASSUME Frame, NEW p \in Replica, Restart(p)
    PROVE  Frame'
<1>1. WorkT' /\ Still
  BY RestartFacts DEF Frame
<1>2. UNCHANGED <<grant, codeUsed, index, spent, tomb, tokens, over, dead>> /\ Count
      /\ revoked' = revoked \ {p}
  BY DEF Restart, store
<1>3. StoreT'
  BY <1>2, GrantsAssumption DEF Frame, StoreT, Count, Made
<1>4. failed' \in BOOLEAN
  BY Zenon DEF Restart
<1>5. FlagsT'
  BY <1>2, <1>4, Zenon DEF Frame, FlagsT
<1> QED BY <1>1, <1>3, <1>5, StillFrame

\* A request that arrived.
ArrivedWith(r, c, t) ==
    /\ Rest(r) /\ work[r].at = "new"
    /\ work'[r].at = c /\ work'[r].tok = t /\ work'[r].gen = 0 /\ work'[r].succ = 0
    /\ work'[r].got = 0 /\ work'[r].late = FALSE /\ work'[r].after = dead
    /\ work'[r].over = IF c = "index" THEN over \cap Spenders(t) ELSE {}
    /\ work'[r].reuse => c = "index" /\ Exchanged(t)

LEMMA ArrivesFacts ==
    ASSUME WorkT, StoreT, FlagsT, NEW r \in Request, NEW c \in Call, NEW t \in 0 .. MaxTokens, Arrives(r, c, t)
    PROVE  WorkT' /\ ArrivedWith(r, c, t)
<1> DEFINE u == (c = "index" /\ Exchanged(t))
<1> DEFINE o == IF c = "index" THEN over \cap Spenders(t) ELSE {}
<1>1. u \in BOOLEAN
  BY Zenon
<1>2. o \in SUBSET Request
  BY DEF StoreT
<1>3. dead \in BOOLEAN /\ work \in [Request -> WorkRecord]
  BY DEF FlagsT, WorkT
<1>4. work[r].at = "new"
  BY Zenon DEF Arrives
<1>5. work' = [work EXCEPT ![r] = [New EXCEPT !.at = c, !.tok = t, !.after = dead, !.over = o, !.reuse = u]]
  BY Zenon DEF Arrives
<1>6. u => c = "index" /\ Exchanged(t)
  BY Zenon
<1>7. o = IF c = "index" THEN over \cap Spenders(t) ELSE {}
  OBVIOUS
<1> HIDE DEF u, o
<1> DEFINE x == [New EXCEPT !.at = c, !.tok = t, !.after = dead, !.over = o, !.reuse = u]
<1>8. /\ x \in WorkRecord /\ x.at = c /\ x.tok = t /\ x.after = dead /\ x.over = o /\ x.reuse = u
      /\ x.gen = 0 /\ x.succ = 0 /\ x.got = 0 /\ x.late = FALSE
  BY <1>1, <1>2, <1>3, NewFields DEF WorkRecord, Ended
<1> HIDE DEF x
<1>9. WorkT' /\ Rest(r) /\ work'[r] = x
  BY <1>3, <1>5, <1>8 DEF WorkT, Rest, x
<1>10. x.reuse => c = "index" /\ Exchanged(t)
  BY <1>6, <1>8
<1> QED BY <1>4, <1>7, <1>8, <1>9, <1>10 DEF ArrivedWith

\* The four kinds of requests: call c, with token t.
LEMMA ArrivalFacts ==
    ASSUME Frame, NEW r \in Request, Arrival(r)
    PROVE  \E c \in {"code", "index", "rindex", "revoke"} : \E t \in 0 .. MaxTokens :
              /\ WorkT' /\ ArrivedWith(r, c, t)
              /\ c \in {"index", "rindex"} => t \in Handed
              /\ c \in {"code", "revoke"} => t = 0
              /\ c = "revoke" => grant.st = "active"
              /\ UNCHANGED <<store, revoked, tokens, over, dead, faults>>
<1>0. WorkT /\ StoreT /\ FlagsT /\ 0 \in 0 .. MaxTokens
  BY GrantsAssumption DEF Frame
<1>1. CASE RedeemCode(r)
  <2>1. WorkT' /\ ArrivedWith(r, "code", 0)
    BY <1>0, <1>1, ArrivesFacts DEF RedeemCode, Call
  <2>2. UNCHANGED <<store, revoked, tokens, over, dead, faults>>
    BY <1>1, Zenon DEF RedeemCode, Arrives
  <2> QED BY <1>0, <2>1, <2>2
<1>2. CASE RevokeOldest(r)
  <2>1. WorkT' /\ ArrivedWith(r, "revoke", 0)
    BY <1>0, <1>2, ArrivesFacts DEF RevokeOldest, Call
  <2>2. UNCHANGED <<store, revoked, tokens, over, dead, faults>> /\ grant.st = "active"
    BY <1>2, Zenon DEF RevokeOldest, Arrives
  <2> QED BY <1>0, <2>1, <2>2
<1>3. ASSUME NEW t \in Token, Refresh(r, t)
      PROVE  /\ WorkT' /\ ArrivedWith(r, "index", t) /\ t \in Handed /\ t \in 0 .. MaxTokens
             /\ UNCHANGED <<store, revoked, tokens, over, dead, faults>>
  <2>1. t \in 0 .. MaxTokens
    BY DEF Token
  <2>2. WorkT' /\ ArrivedWith(r, "index", t)
    BY <1>0, <1>3, <2>1, ArrivesFacts DEF Refresh, Call
  <2>3. UNCHANGED <<store, revoked, tokens, over, dead, faults>> /\ t \in Handed
    BY <1>3, Zenon DEF Refresh, Arrives
  <2> QED BY <2>1, <2>2, <2>3
<1>4. ASSUME NEW t \in Token, Revoke(r, t)
      PROVE  /\ WorkT' /\ ArrivedWith(r, "rindex", t) /\ t \in Handed /\ t \in 0 .. MaxTokens
             /\ UNCHANGED <<store, revoked, tokens, over, dead, faults>>
  <2>1. t \in 0 .. MaxTokens
    BY DEF Token
  <2>2. WorkT' /\ ArrivedWith(r, "rindex", t)
    BY <1>0, <1>4, <2>1, ArrivesFacts DEF Revoke, Call
  <2>3. UNCHANGED <<store, revoked, tokens, over, dead, faults>> /\ t \in Handed
    BY <1>4, Zenon DEF Revoke, Arrives
  <2> QED BY <2>1, <2>2, <2>3
<1> QED BY <1>1, <1>2, <1>3, <1>4 DEF Arrival

LEMMA ArrivalFrame ==
    ASSUME Frame, NEW r \in Request, Arrival(r)
    PROVE  Frame'
<1>1. PICK c \in {"code", "index", "rindex", "revoke"}, t \in 0 .. MaxTokens :
              /\ WorkT' /\ ArrivedWith(r, c, t)
              /\ c \in {"index", "rindex"} => t \in Handed
              /\ c \in {"code", "revoke"} => t = 0
              /\ c = "revoke" => grant.st = "active"
              /\ UNCHANGED <<store, revoked, tokens, over, dead, faults>>
  BY ArrivalFacts
<1>2. /\ Rest(r) /\ work'[r].at = c /\ work'[r].tok = t /\ work'[r].succ = 0 /\ work'[r].got = 0
      /\ work[r].got = 0
  BY <1>1 DEF ArrivedWith, Frame, Holds, Knows
<1>3. UNCHANGED <<grant, codeUsed, index, spent, tomb, revoked, tokens, over, dead, failed, events>>
  BY <1>1 DEF store, faults
<1>4. Handed' = Handed /\ Made' = Made
  BY <1>2, <1>3, HandedStep DEF Made
<1>5. Holds(r)'
  <2>1. t \in Handed => t # 0
    BY HandedMade
  <2> QED BY <1>1, <1>2, <1>4, <2>1 DEF Holds, Knows, Owns, Given, TokenCalls, Rotating, Unsettled
<1>6. Len(tokens') \in Nat /\ Grown(tokens, tokens') /\ SpentStep(r)
  BY <1>3, TokenTypes DEF Frame, Grown, SpentStep
<1>7. \A q \in Request : Holds(q)'
  <2>1. ASSUME NEW q \in Request \ {r} PROVE Holds(q)'
    BY <1>2, <1>6, <2>1, OthersHold
  <2> QED BY <1>5, <2>1
<1>8. Ancestry' /\ Records'
  BY <1>3, <1>4, <1>6, AncestryKept, RecordsKept
<1>9. Opened'
  <2>1. Opened
    BY DEF Frame
  <2>2. \A q \in Request : q # r => work'[q] = work[q]
    BY <1>2 DEF Rest
  <2>3. ~Opening(r)'
    BY <1>1, <1>2 DEF Opening
  <2>4. ~codeUsed => c = "code"
    <3>1. ASSUME t \in Handed PROVE tokens # <<>>
      <4>1. t \in 1 .. Len(tokens)
        BY <3>1, HandedMade DEF Made
      <4>2. Len(<<>>) = 0
        OBVIOUS
      <4> QED BY <4>1, <4>2
    <3> QED BY <1>1, <2>1, <3>1 DEF Opened
  <2>5. \A q \in Request : Opening(q)' => Opening(q)
    BY <2>2, <2>3 DEF Opening
  <2> QED BY <1>1, <1>2, <1>3, <2>1, <2>2, <2>4, <2>5 DEF Opened
<1>10. StoreT'
  BY <1>3 DEF Frame, StoreT, Made
<1>11. FlagsT'
  BY <1>3, Zenon DEF Frame, FlagsT
<1> QED BY <1>1, <1>7, <1>8, <1>9, <1>10, <1>11 DEF Frame

LEMMA InitFrame ==
    ASSUME Init
    PROVE  Frame
<1>1. \A r \in Request : work[r] = New
  BY DEF Init
<1>2. Handed = {}
  BY <1>1, NewFields DEF Handed
<1>3. Made = {} /\ tokens = <<>> /\ tokens \in Seq(TokenRecord) /\ Len(tokens) = 0
  BY DEF Init, Made
<1>4. WorkT
  BY NewFields DEF Init, WorkT
<1>5. StoreT
  <2>1. spent \in [Token -> SpentRecord]
    BY UnspentFields DEF Init
  <2> QED BY <1>3, <2>1, GrantsAssumption DEF Init, StoreT
<1>6. FlagsT
  BY DEF Init, FlagsT
<1>7. Ancestry
  BY <1>3 DEF Ancestry
<1>8. Records
  <2>1. \A t \in Token : spent[t] = Unspent
    BY DEF Init
  <2> QED BY <2>1, UnspentFields DEF Records
<1>9. \A r \in Request : Holds(r)
  <2>1. \A r \in Request : Idle(r)
    BY <1>1, NewFields DEF Idle
  <2> QED BY <2>1, IdleHolds
<1>10. Opened
  <2>1. \A r \in Request : work[r].at = "new" /\ ~Opening(r)
    BY <1>1, NewFields DEF Opening
  <2> QED BY <1>3, <2>1 DEF Opened, Init
<1> QED BY <1>4, <1>5, <1>6, <1>7, <1>8, <1>9, <1>10 DEF Frame

LEMMA StepFrame ==
    ASSUME Frame, NEW r \in Request, Step(r)
    PROVE  Frame'
BY ClaimCodeFrame, ReadPendingFrame, ActivateFrame, ReadIndexFrame, ReadGrantFrame, LiveFrame,
   ClaimFrame, RevalidateFrame, IssueFrame, PutGrantFrame, UndoFrame, UnclaimFrame, SealFrame,
   RetireFrame, CheckFrame, DropFrame, DropGrantFrame, ReadSpentFrame, AwaitFrame,
   AwaitGrantFrame, ReadSuccessorFrame, AgainFrame, JudgeFrame, ReadRevokedFrame,
   ReadClientGrantFrame, TombstoneFrame, DeleteGrantFrame, DropRevokedFrame DEF Step

LEMMA StutterFrame ==
    ASSUME Frame, UNCHANGED vars
    PROVE  Frame'
<1>1. Still /\ UNCHANGED <<work, tomb, revoked, over, failed, events>>
  BY DEF vars, store, faults, Still
<1>2. WorkT'
  BY <1>1 DEF Frame, WorkT
<1>3. StoreT'
  BY <1>1 DEF Frame, StoreT, Still, Made
<1>4. FlagsT'
  BY <1>1, Zenon DEF Frame, FlagsT, Still
<1> QED BY <1>1, <1>2, <1>3, <1>4, StillFrame

LEMMA NextFrame ==
    ASSUME Frame, [Next]_vars
    PROVE  Frame'
<1>1. CASE UNCHANGED vars
  BY <1>1, StutterFrame
<1>2. CASE TombstoneEnds
  BY <1>2, TombstoneEndsFrame
<1>3. ASSUME NEW r \in Request, Arrival(r) \/ Step(r) \/ Stop(r) \/ GraceEnds(r)
      PROVE  Frame'
  BY <1>3, ArrivalFrame, StepFrame, StopFrame, GraceEndsFrame
<1>4. ASSUME NEW p \in Replica, Poll(p) \/ Restart(p)
      PROVE  Frame'
  BY <1>4, PollFrame, RestartFrame
<1> QED BY <1>1, <1>2, <1>3, <1>4 DEF Next

LEMMA FrameAlways == Spec => []Frame
BY InitFrame, NextFrame, PTL DEF Spec

\* The records of the store, the requests and the tokens are of their types: a
\* token a request presents, issues or is answered with was made, and its
\* generation stays within the number of tokens (handle_refresh, rotate,
\* issue_refresh_token).
THEOREM TypeCorrect == Spec => []TypeOK
<1>1. ASSUME Frame PROVE TypeOK
  <2>1. FlagsT
    BY <1>1 DEF Frame
  <2>2. DOMAIN tokens = Made
    BY <1>1, TokenTypes DEF Frame
  <2> QED BY <1>1, <2>1, <2>2
       DEF Frame, StoreT, FlagsT, WorkT, WorkRecord, TokenRecord, SpentRecord, TypeOK
<1> QED BY <1>1, FrameAlways, PTL

-----------------------------------------------------------------------------
(* One token of every generation.                                          *)

LEMMA LeastOf ==
    ASSUME NEW S \in SUBSET Nat, S # {}
    PROVE  \E m \in S : \A x \in S : m <= x
<1>1. IsWellFoundedOn(OpToRel(<, Nat), Nat)
  BY NatLessThanWellFounded
<1>2. PICK m \in S : \A y \in S : ~ (<<y, m>> \in OpToRel(<, Nat))
  BY <1>1, WFMin, Zenon
<1>3. \A y \in S : ~(y < m)
  BY <1>2, Zenon DEF OpToRel
<1> QED BY <1>3

\* A token in clients' hands is the first of the grant, or what they were given
\* for its predecessor, which they were given before.
LEMMA HandedFrom ==
    ASSUME Frame, NEW u \in Handed
    PROVE  /\ tokens[u].gen \in Nat /\ tokens[u].gen >= 1
           /\ tokens[u].from = 0 => u = 1 /\ tokens[u].gen = 1
           /\ tokens[u].from # 0 => /\ tokens[u].from \in Handed
                                    /\ tokens[u].gen = tokens[tokens[u].from].gen + 1
                                    /\ u = Successor(tokens[u].from)
<1>1. PICK r \in Request : work[r].got = u /\ u # 0
  BY DEF Handed
<1>2. u \in Made
  BY HandedMade
<1>3. Given(r)
  BY DEF Frame, Holds
<1> QED BY <1>1, <1>2, <1>3, TokenTypes DEF Frame, Ancestry, Given

LEMMA Unique ==
    ASSUME Frame
    PROVE  OneTokenPerGeneration
<1> DEFINE Twice(g) == \E t, u \in Handed : tokens[t].gen = g /\ tokens[u].gen = g /\ t # u
<1> DEFINE S == {g \in Nat : Twice(g)}
<1> SUFFICES ASSUME S # {} PROVE FALSE
  BY HandedFrom DEF OneTokenPerGeneration
<1>1. PICK g \in S : \A x \in S : g <= x
  BY LeastOf
<1>2. PICK t \in Handed, u \in Handed : tokens[t].gen = g /\ tokens[u].gen = g /\ t # u
  BY <1>1
<1>3. g \in Nat
  BY <1>1
<1>4. CASE tokens[t].from = 0 \/ tokens[u].from = 0
  <2>1. g = 1
    BY <1>2, <1>4, HandedFrom
  <2>2. ASSUME NEW v \in Handed, tokens[v].gen = 1 PROVE v = 1
    <3>1. CASE tokens[v].from = 0
      BY <3>1, HandedFrom
    <3>2. CASE tokens[v].from # 0
      <4>1. tokens[v].from \in Handed /\ tokens[v].gen = tokens[tokens[v].from].gen + 1
        BY <3>2, HandedFrom
      <4>2. tokens[tokens[v].from].gen \in Nat /\ tokens[tokens[v].from].gen >= 1
        BY <4>1, HandedFrom
      <4> QED BY <2>2, <4>1, <4>2
    <3> QED BY <3>1, <3>2
  <2> QED BY <1>2, <2>1, <2>2
<1>5. CASE tokens[t].from # 0 /\ tokens[u].from # 0
  <2> DEFINE a == tokens[t].from
  <2> DEFINE b == tokens[u].from
  <2>1. a \in Handed /\ b \in Handed /\ t = Successor(a) /\ u = Successor(b)
        /\ g = tokens[a].gen + 1 /\ g = tokens[b].gen + 1
    BY <1>2, <1>5, HandedFrom
  <2>2. tokens[a].gen \in Nat /\ tokens[b].gen \in Nat
    BY <2>1, HandedFrom
  <2> HIDE DEF a, b
  <2>3. tokens[a].gen = tokens[b].gen /\ tokens[a].gen < g
    BY <1>3, <2>1, <2>2
  <2>4. tokens[a].gen \notin S
    BY <1>1, <1>3, <2>2, <2>3
  <2>5. a = b
    BY <2>1, <2>2, <2>3, <2>4
  <2> QED BY <1>2, <2>1, <2>5
<1> QED BY <1>4, <1>5

\* Clients hold one refresh token per generation of the grant: rotate and
\* retry_within_grace never part with two successors of one token, although a
\* claim may be released, a grant written in vain and a successor left behind.
THEOREM OneTokenEach == Spec => []OneTokenPerGeneration
BY FrameAlways, Unique, PTL

-----------------------------------------------------------------------------
(* A revoked grant stays revoked.                                          *)

\* What a step of r that hands out nothing, and revokes nothing, leaves alone.
Mild(r) ==
    /\ Rest(r) /\ work[r].got = 0 /\ work'[r].got = 0
    /\ tomb' = tomb /\ dead' = dead /\ over' = over
    /\ failed => failed'
    /\ work'[r].after => work[r].after \/ dead
    /\ \A n \in Made : tokens'[n] = tokens[n]

\* Request r gets no token any more.
QuietAt(r) ==
    /\ work[r].at \in QuietCalls
    /\ GraceOn /\ work[r].at \in Presenting => spent[work[r].tok].by \in work[r].over \cup {Nobody}
    /\ work[r].at = "live" => tokens[work[r].tok].gen # work[r].gen

LEMMA RevokedStep ==
    ASSUME Frame, Frame', Revoked, NEW r \in Request, Mild(r),
           grant' = grant \/ Outdated' \/ failed',
           work[r].at \in {"delete", "rdelete"} => Outdated' \/ failed',
           work[r].at \in QuietCalls => spent' = spent /\ (dead /\ Quiescent => QuietAt(r)')
    PROVE  Revoked'
<1>1. Handed' = Handed
  BY HandedStep DEF Mild
<1>2. \A q \in Request : q # r => work'[q] = work[q]
  BY DEF Mild, Rest
<1>3. \A u \in Handed : u \in Made /\ tokens'[u] = tokens[u]
  BY HandedMade DEF Mild
<1>4. ASSUME Outdated, ~failed' PROVE Outdated'
  <2>1. CASE grant' = grant
    BY <1>1, <1>3, <1>4, <2>1 DEF Outdated
  <2> QED BY <1>4, <2>1
<1>5. /\ tomb' => dead'
      /\ \A q \in Request : work'[q].after => dead'
  BY <1>2 DEF Revoked, Mild
<1>6. Buried'
  <2> SUFFICES ASSUME dead', ~failed', ~Outdated'
               PROVE  \E q \in Request : work'[q].at \in {"delete", "rdelete"}
    BY DEF Buried
  <2>1. dead /\ ~failed /\ ~Outdated
    BY <1>4 DEF Mild
  <2>2. PICK q \in Request : work[q].at \in {"delete", "rdelete"}
    BY <2>1 DEF Revoked, Buried
  <2>3. q # r
    BY <2>2
  <2> QED BY <1>2, <2>2, <2>3
<1>7. ASSUME dead', ~failed', ~tomb' PROVE Quiescent'
  <2>1. Quiescent /\ ~failed
    BY <1>7 DEF Revoked, Mild
  <2>2. work[r].at \in QuietCalls
    BY <2>1 DEF Quiescent
  <2>3. spent' = spent /\ QuietAt(r)' /\ over' = over
    BY <1>7, <2>1, <2>2 DEF Mild
  <2>4. ASSUME NEW q \in Request PROVE QuietAt(q)'
    <3>1. CASE q = r
      BY <2>3, <3>1
    <3>2. CASE q # r
      <4>1. QuietAt(q)
        BY <2>1 DEF Quiescent, QuietAt
      <4>2. work[q].at = "live" => work[q].tok \in Made
        BY HandedMade DEF Frame, Holds, Knows, TokenCalls
      <4> QED BY <1>2, <2>3, <3>2, <4>1, <4>2 DEF QuietAt, Mild
    <3> QED BY <3>1, <3>2
  <2>5. Outdated'
    BY <1>4, <1>7, <2>1 DEF Quiescent
  <2>6. GraceOn => \A t \in Token : spent'[t].by \in over' \cup {Nobody}
    BY <2>1, <2>3 DEF Quiescent
  <2> QED BY <2>4, <2>5, <2>6 DEF Quiescent, QuietAt
<1>8. RevokedIsFinal'
  BY <1>2 DEF Revoked, RevokedIsFinal, Mild
<1> QED BY <1>5, <1>6, <1>7, <1>8 DEF Revoked

LEMMA FaultsGrow ==
    ASSUME Ok \/ Event \/ Fault
    PROVE  failed => failed'
BY Zenon DEF Ok, Event, Fault, faults

\* The request went on to call c.
Went(r, c) ==
    /\ Rest(r) /\ work'[r].at = c
    /\ work'[r].tok = work[r].tok /\ work'[r].got = work[r].got
    /\ work'[r].after = work[r].after /\ work'[r].reuse = work[r].reuse

LEMMA WentFacts ==
    ASSUME WorkT, NEW r \in Request, NEW c \in Call \cup Ended
    PROVE  /\ Goto(r, c, work[r]) => Went(r, c)
           /\ \A g \in Nat : Goto(r, c, [work[r] EXCEPT !.gen = g]) => Went(r, c)
           /\ \A s \in 0 .. MaxTokens : Goto(r, c, [work[r] EXCEPT !.succ = s]) => Went(r, c)
           /\ \A s \in 0 .. MaxTokens : Goto(r, c, [work[r] EXCEPT !.over = {}, !.succ = s]) => Went(r, c)
           /\ Goto(r, c, [work[r] EXCEPT !.over = {}]) => Went(r, c)
           /\ Goto(r, c, [work[r] EXCEPT !.over = {}, !.late = TRUE]) => Went(r, c)
BY ToFacts DEF MoveTo, To, Went

\* The request went on, or was refused.
LEMMA MildFacts ==
    ASSUME Frame, NEW r \in Request, Going(r) \/ work[r].at = "code", Ok \/ Event \/ Fault,
           tomb' = tomb, dead' = dead, over' = over, \A n \in Made : tokens'[n] = tokens[n],
           (\E c \in Call : Went(r, c)) \/ Finish(r, 0)
    PROVE  Mild(r)
<1>1. work[r].got = 0
  BY GoingFacts DEF Frame, Holds, Knows
<1>2. failed => failed'
  BY FaultsGrow
<1>3. Rest(r) /\ work'[r].got = 0 /\ (work'[r].after => work[r].after)
  <2>1. CASE \E c \in Call : Went(r, c)
    BY <1>1, <2>1 DEF Went
  <2>2. CASE Finish(r, 0)
    BY <2>2, RefusedHolds DEF Finished
  <2> QED BY <2>1, <2>2
<1> QED BY <1>1, <1>2, <1>3 DEF Mild

\* Calls no request is at once a revocation ended.
LEMMA LoudRevoked ==
    ASSUME Frame, Frame', Revoked, NEW r \in Request, Going(r), work[r].at \notin QuietCalls,
           Ok \/ Event \/ Fault, tomb' = tomb, dead' = dead, over' = over,
           \A n \in Made : tokens'[n] = tokens[n],
           (\E c \in Call : Went(r, c)) \/ Finish(r, 0),
           grant' = grant \/ Outdated' \/ failed',
           work[r].at \in {"delete", "rdelete"} => Outdated' \/ failed'
    PROVE  Revoked'
BY MildFacts, RevokedStep

\* The same for reads.
LEMMA LoudReads ==
    ASSUME Frame, Frame', Revoked, NEW r \in Request, Going(r), work[r].at \notin QuietCalls,
           work[r].at \notin {"delete", "rdelete"}, Ok \/ Event \/ Fault, Reads,
           (\E c \in Call : Went(r, c)) \/ Finish(r, 0)
    PROVE  Revoked'
<1>1. /\ tomb' = tomb /\ dead' = dead /\ over' = over /\ grant' = grant
      /\ \A n \in Made : tokens'[n] = tokens[n]
  BY DEF Reads
<1> QED BY <1>1, LoudRevoked

LEMMA ReadPendingRevoked ==
    ASSUME Frame, Frame', Revoked, NEW r \in Request, ReadPending(r)
    PROVE  Revoked'
<1>1. Going(r) /\ Reads /\ Ok /\ work[r].at = "pending" /\ (Goto(r, "activate", work[r]) \/ Finish(r, 0))
  BY DEF ReadPending, Going, Reads, store
<1>2. (\E c \in Call : Went(r, c)) \/ Finish(r, 0)
  BY <1>1, WentFacts DEF Frame, Call
<1>3. work[r].at \notin QuietCalls /\ work[r].at \notin {"delete", "rdelete"}
  BY <1>1 DEF QuietCalls, Ended
<1> QED BY <1>1, <1>2, <1>3, LoudReads

\* Nobody has a token of a generation that an activation or a rotation writes.
LEMMA NobodyHas ==
    ASSUME Frame, NEW r \in Request, work[r].at \in {"put", "undo"}
    PROVE  \A u \in Handed : tokens[u].gen # tokens[work[r].succ].gen
<1> SUFFICES ASSUME NEW u \in Handed, tokens[u].gen = tokens[work[r].succ].gen PROVE FALSE
  OBVIOUS
<1>1. Knows(r) /\ Owns(r) /\ work[r].got = 0
  BY GoingFacts DEF Frame, Holds, Going
<1> DEFINE t == work[r].tok
<1> DEFINE s == work[r].succ
<1>2. /\ t # 0 /\ t \in Handed /\ s \in Made /\ tokens[s].from = t
      /\ spent[t].by = r /\ spent[t].succ = 0
  BY <1>1 DEF Knows, Owns, TokenCalls, Rotating, Unsettled
<1>3. tokens[s].gen = tokens[t].gen + 1 /\ tokens[t].gen \in Nat /\ tokens[t].gen >= 1
  BY <1>2, HandedFrom DEF Frame, Ancestry
<1>4. tokens[u].from # 0
  BY <1>3, HandedFrom
<1> DEFINE b == tokens[u].from
<1>5. b \in Handed /\ tokens[u].gen = tokens[b].gen + 1 /\ u = Successor(b) /\ tokens[b].gen \in Nat
  BY <1>4, HandedFrom
<1> HIDE DEF b
<1>6. tokens[b].gen = tokens[t].gen
  BY <1>3, <1>5
<1>7. b = t
  BY <1>2, <1>5, <1>6, Unique DEF OneTokenPerGeneration
<1>8. Successor(t) = 0
  BY <1>1, <1>2, GrantsAssumption DEF Successor
<1> QED BY <1>5, <1>7, <1>8 DEF Handed

LEMMA ActivateRevoked ==
    ASSUME Frame, Frame', Revoked, NEW r \in Request, Activate(r)
    PROVE  Revoked'
<1>1. /\ Going(r) /\ Ok /\ work[r].at = "activate" /\ grant' = Active(1)
      /\ UNCHANGED <<codeUsed, index, spent, tomb, revoked, tokens, over, dead>>
      /\ Goto(r, "issue", [work[r] EXCEPT !.gen = 1])
  BY DEF Activate, Going
<1>2. \E c \in Call : Went(r, c)
  BY <1>1, WentFacts DEF Frame, Call
<1>3. tokens' = <<>>
  BY <1>1 DEF Frame, Opened, Opening
<1>4. Handed' = {}
  <2>1. Made' = {}
    <3>1. Len(<<>>) = 0
      OBVIOUS
    <3> QED BY <1>3, <3>1 DEF Made
  <2>2. \A q \in Request : Knows(q)'
    BY DEF Frame, Holds
  <2> QED BY <2>1, <2>2 DEF Knows, Handed
<1>5. Outdated'
  BY <1>4 DEF Outdated
<1>6. work[r].at \notin QuietCalls /\ work[r].at \notin {"delete", "rdelete"}
  BY <1>1 DEF QuietCalls, Ended
<1> QED BY <1>1, <1>2, <1>5, <1>6, LoudRevoked

LEMMA ClaimRevoked ==
    ASSUME Frame, Frame', Revoked, NEW r \in Request, Claim(r)
    PROVE  Revoked'
<1>1. /\ Going(r) /\ Ok /\ work[r].at = "claim"
      /\ UNCHANGED <<grant, codeUsed, index, tomb, revoked, tokens, over, dead>>
      /\ Goto(r, "idp", [work[r] EXCEPT !.over = {}]) \/ Goto(r, "spent", work[r])
  BY DEF Claim, Going
<1>2. \E c \in Call : Went(r, c)
  BY <1>1, WentFacts DEF Frame, Call
<1>3. work[r].at \notin QuietCalls /\ work[r].at \notin {"delete", "rdelete"}
  BY <1>1 DEF QuietCalls, Ended
<1> QED BY <1>1, <1>2, <1>3, LoudRevoked

LEMMA RevalidateRevoked ==
    ASSUME Frame, Frame', Revoked, NEW r \in Request, Revalidate(r)
    PROVE  Revoked'
<1>1. /\ Going(r) /\ Reads /\ (Ok \/ Event) /\ work[r].at = "idp"
      /\ \/ Goto(r, "issue", [work[r] EXCEPT !.gen = work[r].gen + 1])
         \/ Goto(r, "unclaim", work[r]) \/ Goto(r, "revoke", work[r])
  BY DEF Revalidate, Going, Reads, store, NextGen
<1>2. work[r].gen + 1 \in Nat /\ WorkT /\ {"issue", "unclaim", "revoke"} \subseteq Call
  BY RequestTypes DEF Frame, Call
<1>3. \E c \in Call : Went(r, c)
  BY <1>1, <1>2, WentFacts
<1>4. work[r].at \notin QuietCalls /\ work[r].at \notin {"delete", "rdelete"}
  BY <1>1 DEF QuietCalls, Ended
<1> QED BY <1>1, <1>3, <1>4, LoudReads

LEMMA IssueRevoked ==
    ASSUME Frame, Frame', Revoked, NEW r \in Request, Issue(r)
    PROVE  Revoked'
<1> DEFINE n == Len(tokens) + 1
<1>1. /\ work[r].at = "issue" /\ Going(r)
      /\ UNCHANGED <<grant, codeUsed, spent, tomb, revoked, over, dead>> /\ (Ok \/ Fault)
      /\ \/ Goto(r, "check", [work[r] EXCEPT !.succ = n])
         \/ Goto(r, "put", [work[r] EXCEPT !.succ = n])
         \/ Finish(r, 0)
         \/ Goto(r, "unclaim", work[r])
  BY DEF Issue, Going
<1>2. n \in 0 .. MaxTokens /\ \A k \in Made : tokens'[k] = tokens[k]
  BY IssuedFacts DEF Grown, Made
<1> HIDE DEF n
<1>3. (\E c \in Call : Went(r, c)) \/ Finish(r, 0)
  BY <1>1, <1>2, WentFacts DEF Frame, Call
<1>4. work[r].at \notin QuietCalls /\ work[r].at \notin {"delete", "rdelete"}
  BY <1>1 DEF QuietCalls, Ended
<1> QED BY <1>1, <1>2, <1>3, <1>4, LoudRevoked

LEMMA PutGrantRevoked ==
    ASSUME Frame, Frame', Revoked, NEW r \in Request, PutGrant(r)
    PROVE  Revoked'
<1>1. /\ Going(r) /\ work[r].at = "put" /\ (Ok \/ Fault)
      /\ UNCHANGED <<codeUsed, index, spent, tomb, revoked, tokens, over, dead>>
      /\ grant' \in {grant, Active(work[r].gen)}
  BY DEF PutGrant, Going
<1>2. PICK c \in {"seal", "retire", "undo"} : Goto(r, c, work[r])
  BY DEF PutGrant
<1>3. c \in Call /\ Went(r, c)
  BY <1>2, WentFacts DEF Frame, Call
<1>4. ASSUME grant' = Active(work[r].gen) PROVE Outdated'
  <2>1. Handed' = Handed
    BY <1>1, <1>3, HandedStep, GoingFacts DEF Went
  <2>2. work[r].gen = tokens[work[r].succ].gen
    BY <1>1 DEF Frame, Holds, Knows
  <2> QED BY <1>1, <1>4, <2>1, <2>2, NobodyHas DEF Outdated, Active
<1>5. work[r].at \notin QuietCalls /\ work[r].at \notin {"delete", "rdelete"}
  BY <1>1 DEF QuietCalls, Ended
<1> QED BY <1>1, <1>3, <1>4, <1>5, LoudRevoked

\* Steps between a rotation's writes.
LEMMA TidyRevoked ==
    ASSUME Frame, Frame', Revoked, NEW r \in Request, Undo(r) \/ Unclaim(r) \/ Seal(r) \/ Retire(r) \/ Drop(r)
                                                    \/ DropRevoked(r)
    PROVE  Revoked'
<1>1. /\ Going(r) /\ work[r].at \in {"undo", "unclaim", "seal", "retire", "drop", "rdrop"}
      /\ Ok \/ Fault
      /\ UNCHANGED <<grant, codeUsed, tomb, revoked, tokens, over, dead>>
      /\ \/ Finish(r, 0)
         \/ \E c \in {"unclaim", "retire", "check", "dropgrant"} : Goto(r, c, work[r])
  BY DEF Undo, Unclaim, Seal, Retire, Drop, DropRevoked, Going
<1>2. Finish(r, 0) \/ \E c \in Call : Went(r, c)
  <2>1. \A c \in {"unclaim", "retire", "check", "dropgrant"} : c \in Call
    BY DEF Call
  <2> QED BY <1>1, <2>1, WentFacts DEF Frame
<1>3. work[r].at \notin QuietCalls /\ work[r].at \notin {"delete", "rdelete"}
  BY <1>1 DEF QuietCalls, Ended
<1> QED BY <1>1, <1>2, <1>3, LoudRevoked

\* The grant is deleted, or its deletion fails.
LEMMA DeletedRevoked ==
    ASSUME Frame, Frame', Revoked, NEW r \in Request, DropGrant(r) \/ DeleteGrant(r)
    PROVE  Revoked'
<1>1. /\ Going(r) /\ work[r].at \in {"dropgrant", "delete", "rdelete"} /\ (Ok \/ Fault)
      /\ UNCHANGED <<codeUsed, index, spent, tomb, revoked, tokens, over, dead>>
      /\ grant' = NoGrant \/ Fault
      /\ Finish(r, 0) \/ Goto(r, "rdrop", work[r])
  BY DEF DropGrant, DeleteGrant, Going
<1>2. Finish(r, 0) \/ \E c \in Call : Went(r, c)
  BY <1>1, WentFacts DEF Frame, Call
<1>3. work[r].at \notin QuietCalls
  BY <1>1 DEF QuietCalls, Ended
<1>4. grant' = NoGrant => Outdated'
  BY DEF Outdated, NoGrant
<1>5. Fault => failed'
  BY Zenon DEF Fault
<1> QED BY <1>1, <1>2, <1>3, <1>4, <1>5, LoudRevoked

\* A token is handed out only while no revocation was stored.
LEMMA AnsweredRevoked ==
    ASSUME Frame, Frame', Revoked, NEW r \in Request, Reads, Ok, work[r].at \in {"check", "slive"},
           ~RefusedOn(Home[r]), Finish(r, work[r].succ)
    PROVE  Revoked' /\ (dead => failed)
<1>1. work[r].at \notin QuietCalls
  BY DEF QuietCalls, Ended
<1>2. dead => failed
  BY <1>1 DEF Revoked, Quiescent, RefusedOn
<1>3. Finished(r, work[r].succ)
  BY RequestTypes, FinishFacts DEF Frame
<1>4. /\ tomb' = tomb /\ dead' = dead /\ (failed => failed')
  BY FaultsGrow DEF Reads
<1>5. ASSUME NEW q \in Request, work'[q].after PROVE dead
  BY <1>3, <1>5 DEF Finished, Rest, Revoked
<1>6. RevokedIsFinal'
  BY <1>2, <1>3, <1>4, <1>5 DEF Finished, Rest, Revoked, RevokedIsFinal
<1> QED BY <1>2, <1>4, <1>5, <1>6 DEF Revoked, Buried

LEMMA CheckRevoked ==
    ASSUME Frame, Frame', Revoked, NEW r \in Request, Check(r)
    PROVE  Revoked'
<1>1. /\ Going(r) /\ Reads /\ Ok /\ work[r].at = "check"
  BY DEF Check, Going, Reads, store
<1>2. CASE RefusedOn(Home[r])
  <2>1. \E c \in Call : Went(r, c)
    BY <1>2, WentFacts DEF Check, Frame, Call
  <2> QED BY <1>1, <2>1, LoudReads DEF QuietCalls, Ended
<1>3. CASE ~RefusedOn(Home[r])
  BY <1>1, <1>3, AnsweredRevoked DEF Check
<1> QED BY <1>2, <1>3

LEMMA AgainRevoked ==
    ASSUME Frame, Frame', Revoked, NEW r \in Request, Again(r)
    PROVE  Revoked'
<1>1. /\ Going(r) /\ Reads /\ (Ok \/ Event) /\ work[r].at = "slive"
  BY DEF Again, Going, Reads, store
<1>2. CASE Finish(r, 0) \/ Goto(r, "judge", work[r]) \/ Goto(r, "revoke", work[r])
  <2>1. Finish(r, 0) \/ \E c \in Call : Went(r, c)
    BY <1>2, WentFacts DEF Frame, Call
  <2> QED BY <1>1, <2>1, LoudReads DEF QuietCalls, Ended
<1>3. CASE ~RefusedOn(Home[r]) /\ Finish(r, work[r].succ) /\ Ok
  BY <1>1, <1>3, AnsweredRevoked
<1> QED BY <1>2, <1>3 DEF Again

LEMMA AwaitingRevoked ==
    ASSUME Frame, Frame', Revoked, NEW r \in Request, Await(r) \/ AwaitGrant(r) \/ ReadSuccessor(r)
    PROVE  Revoked'
<1>1. /\ Going(r) /\ Reads /\ Ok /\ work[r].at \in {"await", "awaitgrant", "succ"}
      /\ \/ Finish(r, 0)
         \/ \E c \in {"awaitgrant", "judge", "await", "sgrant"} : Goto(r, c, work[r])
         \/ work[r].at = "await" /\ Goto(r, "succ", [work[r] EXCEPT !.succ = spent[work[r].tok].succ])
  BY DEF Await, AwaitGrant, ReadSuccessor, Going, Reads, store
<1>2. work[r].tok \in Token
  BY <1>1, HandedMade DEF Frame, Holds, Knows, TokenCalls
<1>3. spent[work[r].tok].succ \in 0 .. MaxTokens
  BY <1>2, SpentTypes DEF Frame
<1>4. WorkT /\ {"awaitgrant", "judge", "await", "sgrant", "succ"} \subseteq Call
  BY DEF Call, Frame
<1>5. Finish(r, 0) \/ \E c \in Call : Went(r, c)
  BY <1>1, <1>3, <1>4, WentFacts
<1> QED BY <1>1, <1>5, LoudReads DEF QuietCalls, Ended

\* Calls of requests that come too late.
LEMMA HushedRevoked ==
    ASSUME Frame, Frame', Revoked, NEW r \in Request, Going(r) \/ work[r].at = "code",
           work[r].at \notin {"delete", "rdelete"}, Ok \/ Event,
           UNCHANGED <<grant, spent, tomb, dead, over, tokens>>,
           (\E c \in Call : Went(r, c)) \/ Finish(r, 0),
           ~Finish(r, 0) /\ dead /\ Quiescent => QuietAt(r)'
    PROVE  Revoked'
<1>1. Finish(r, 0) => QuietAt(r)'
  <2>1. Finish(r, 0) => work'[r].at = "done"
    BY RefusedHolds DEF Finished
  <2> QED BY <2>1 DEF QuietAt, QuietCalls, Ended, Presenting
<1>2. Mild(r)
  BY MildFacts
<1> QED BY <1>1, <1>2, RevokedStep

LEMMA ClaimCodeRevoked ==
    ASSUME Frame, Frame', Revoked, NEW r \in Request, ClaimCode(r)
    PROVE  Revoked'
<1>1. /\ Ok /\ work[r].at = "code"
      /\ UNCHANGED <<grant, spent, tomb, tokens, over, dead>>
  BY DEF ClaimCode
<1>2. PICK c \in {"revoke", "pending"} : Goto(r, c, work[r]) /\ (c = "pending" <=> ~codeUsed)
  BY DEF ClaimCode
<1>3. c \in Call /\ Went(r, c)
  BY <1>2, WentFacts DEF Frame, Call
<1>4. dead => c = "revoke"
  BY <1>2 DEF Frame, Opened
<1>5. dead => QuietAt(r)'
  BY <1>3, <1>4 DEF Went, QuietAt, QuietCalls, Presenting
<1> QED BY <1>1, <1>3, <1>5, HushedRevoked

\* Reads that go from one quiet call to another, with no grace to speak of.
LEMMA QuietRevoked ==
    ASSUME Frame, Frame', Revoked, NEW r \in Request, Judge(r) \/ ReadRevoked(r) \/ ReadClientGrant(r)
    PROVE  Revoked'
<1>1. /\ Going(r) /\ Reads /\ Ok /\ work[r].at \in {"judge", "rindex", "rgrant"}
      /\ Finish(r, 0) \/ \E c \in {"reuse", "rgrant", "rrevoke"} : Goto(r, c, work[r])
  BY DEF Judge, ReadRevoked, ReadClientGrant, Going, Reads, store
<1>2. Finish(r, 0) \/ \E c \in {"reuse", "rgrant", "rrevoke"} : c \in Call /\ Went(r, c)
  BY <1>1, WentFacts DEF Frame, Call
<1>3. ~Finish(r, 0) => QuietAt(r)'
  BY <1>2 DEF Went, QuietAt, QuietCalls, Presenting
<1>4. UNCHANGED <<grant, spent, tomb, dead, over, tokens>>
  BY <1>1 DEF Reads
<1> QED BY <1>1, <1>2, <1>3, <1>4, HushedRevoked

LEMMA ReadIndexRevoked ==
    ASSUME Frame, Frame', Revoked, NEW r \in Request, ReadIndex(r)
    PROVE  Revoked'
<1>1. Going(r) /\ Reads /\ Ok /\ work[r].at = "index"
  BY DEF ReadIndex, Going, Reads, store
<1>2. PICK c \in {"grant", "spent"} : Goto(r, c, work[r])
  BY DEF ReadIndex
<1>3. c \in Call /\ MoveTo(r, c) /\ Went(r, c)
  BY <1>2, ToFacts, WentFacts DEF Frame, Call
<1>4. UNCHANGED <<grant, spent, tomb, dead, over, tokens>>
  BY <1>1 DEF Reads
<1>5. ASSUME Quiescent PROVE QuietAt(r)'
  <2>1. GraceOn => spent[work[r].tok].by \in work[r].over \cup {Nobody}
    BY <1>1, <1>5 DEF Quiescent, Presenting
  <2> QED BY <1>2, <1>3, <1>4, <2>1 DEF MoveTo, To, QuietAt, QuietCalls
<1> QED BY <1>1, <1>3, <1>4, <1>5, HushedRevoked

LEMMA ReadGrantRevoked ==
    ASSUME Frame, Frame', Revoked, NEW r \in Request, ReadGrant(r)
    PROVE  Revoked'
<1>1. Going(r) /\ Reads /\ Ok /\ work[r].at \in {"grant", "sgrant"}
  BY DEF ReadGrant, Going, Reads, store
<1>2. UNCHANGED <<grant, spent, tomb, dead, over, tokens>>
  BY <1>1 DEF Reads
<1>3. CASE Finish(r, 0)
  BY <1>1, <1>2, <1>3, HushedRevoked
<1>4. CASE ~Finish(r, 0)
  <2> DEFINE c == IF work[r].at = "grant" THEN "live" ELSE "slive"
  <2>0. c \in Call /\ (work[r].at = "grant" => c = "live") /\ (work[r].at # "grant" => work[r].at = "sgrant")
    BY <1>1 DEF Call
  <2>1. grant.gen \in Nat /\ WorkT
    BY GrantsAssumption DEF Frame, StoreT
  <2>2. Goto(r, c, [work[r] EXCEPT !.gen = grant.gen]) /\ grant.st = "active"
    BY <1>4 DEF ReadGrant
  <2> HIDE DEF c
  <2>3. To(r, c, work[r].over, grant.gen, work[r].succ, work[r].late) /\ Went(r, c)
    BY <2>0, <2>1, <2>2, ToFacts, WentFacts
  <2>4. ASSUME Quiescent PROVE QuietAt(r)'
    <3>1. work[r].at = "grant" /\ (GraceOn => spent[work[r].tok].by \in work[r].over \cup {Nobody})
      BY <2>0, <2>4 DEF Quiescent, Presenting, QuietCalls, Ended
    <3>2. work[r].tok \in Handed
      BY <3>1 DEF Frame, Holds, Knows, TokenCalls
    <3>3. tokens[work[r].tok].gen # grant.gen
      BY <2>2, <2>4, <3>2 DEF Quiescent, Outdated
    <3>4. c = "live" /\ spent' = spent /\ tokens' = tokens
      BY <1>2, <2>0, <3>1
    <3> QED BY <2>3, <3>1, <3>3, <3>4 DEF To, QuietAt, QuietCalls
  <2> QED BY <1>1, <1>2, <2>0, <2>3, <2>4, HushedRevoked
<1> QED BY <1>3, <1>4

LEMMA LiveRevoked ==
    ASSUME Frame, Frame', Revoked, NEW r \in Request, Live(r)
    PROVE  Revoked'
<1>1. Going(r) /\ Reads /\ (Ok \/ Event) /\ work[r].at = "live"
  BY DEF Live, Going, Reads, store
<1>2. UNCHANGED <<grant, spent, tomb, dead, over, tokens>>
  BY <1>1 DEF Reads
<1>3. CASE Finish(r, 0)
  BY <1>1, <1>2, <1>3, HushedRevoked
<1>4. CASE ~Finish(r, 0)
  <2>1. PICK c \in {"old", "claim", "revoke"} :
            /\ Goto(r, c, work[r])
            /\ c = "claim" => ~(tokens[work[r].tok].gen < work[r].gen) /\ ~(tokens[work[r].tok].gen > work[r].gen)
    BY <1>4 DEF Live
  <2>2. c \in Call /\ MoveTo(r, c) /\ Went(r, c)
    BY <2>1, ToFacts, WentFacts DEF Frame, Call
  <2>3. ASSUME Quiescent PROVE QuietAt(r)'
    <3>1. work[r].tok \in Made /\ work[r].gen \in Nat
      BY <1>1, HandedMade, RequestTypes DEF Frame, Holds, Knows, TokenCalls
    <3>2. tokens[work[r].tok].gen \in Nat
      BY <3>1, TokenTypes DEF Frame
    <3>3. /\ tokens[work[r].tok].gen # work[r].gen
          /\ GraceOn => spent[work[r].tok].by \in work[r].over \cup {Nobody}
      BY <1>1, <2>3 DEF Quiescent, Presenting
    <3>4. c # "claim" /\ spent' = spent
      BY <1>2, <2>1, <3>1, <3>2, <3>3
    <3> QED BY <2>1, <2>2, <3>3, <3>4 DEF MoveTo, To, QuietAt, QuietCalls
  <2> QED BY <1>1, <1>2, <2>2, <2>3, HushedRevoked
<1> QED BY <1>3, <1>4

LEMMA ReadSpentRevoked ==
    ASSUME Frame, Frame', Revoked, NEW r \in Request, ReadSpent(r)
    PROVE  Revoked'
<1>1. Going(r) /\ Reads /\ Ok /\ work[r].at \in {"spent", "old"}
  BY DEF ReadSpent, Going, Reads, store
<1>2. UNCHANGED <<grant, spent, tomb, dead, over, tokens>>
  BY <1>1 DEF Reads
<1>3. work[r].tok \in Token
  BY <1>1, HandedMade DEF Frame, Holds, Knows, TokenCalls
<1>4. CASE Finish(r, 0)
  BY <1>1, <1>2, <1>4, HushedRevoked
<1>5. CASE Goto(r, "judge", work[r]) \/ Goto(r, "judge", [work[r] EXCEPT !.over = {}, !.late = TRUE])
  <2>1. "judge" \in Call /\ Went(r, "judge")
    BY <1>5, WentFacts DEF Frame, Call
  <2>2. QuietAt(r)'
    BY <2>1 DEF Went, QuietAt, QuietCalls, Presenting
  <2> QED BY <1>1, <1>2, <2>1, <2>2, HushedRevoked
<1>6. CASE /\ spent[work[r].tok] # Unspent /\ GraceOn /\ spent[work[r].tok].by \notin work[r].over
           /\ Goto(r, IF spent[work[r].tok].succ = 0 THEN "await" ELSE "succ",
                   [work[r] EXCEPT !.over = {}, !.succ = spent[work[r].tok].succ])
  <2> DEFINE c == IF spent[work[r].tok].succ = 0 THEN "await" ELSE "succ"
  <2>1. c \in Call
    BY DEF Call
  <2> HIDE DEF c
  <2>2. Went(r, c)
    BY <1>3, <1>6, <2>1, SpentTypes, WentFacts DEF Frame, c
  <2>3. ~Quiescent
    <3>1. spent[work[r].tok].by # Nobody
      BY <1>3, <1>6, SpentTypes DEF Frame, Records
    <3> QED BY <1>1, <1>6, <3>1 DEF Quiescent, Presenting
  <2> QED BY <1>1, <1>2, <2>1, <2>2, <2>3, HushedRevoked
<1> QED BY <1>4, <1>5, <1>6 DEF ReadSpent, Retry

\* The tombstone is written while its request is still to delete the grant.
LEMMA TombstoneRevoked ==
    ASSUME Frame, Frame', Revoked, NEW r \in Request, Tombstone(r)
    PROVE  Revoked'
<1>1. PICK c \in {"delete", "rdelete"} : Goto(r, c, work[r])
  BY DEF Tombstone
<1>2. Went(r, c)
  BY <1>1, WentFacts DEF Frame, Call
<1>0. RevokedIsFinal'
  <2>1. failed => failed'
    BY FaultsGrow DEF Tombstone
  <2>2. \A q \in Request : work'[q].after = work[q].after /\ work'[q].got = work[q].got
    BY <1>2 DEF Went, Rest
  <2> QED BY <2>1, <2>2 DEF Revoked, RevokedIsFinal
<1>3. CASE tomb' = TRUE /\ dead' = TRUE
  BY <1>0, <1>2, <1>3 DEF Revoked, Buried, Went
<1>4. CASE UNCHANGED <<tomb, dead>> /\ Fault
  <2>1. failed' = TRUE
    BY <1>4, Zenon DEF Fault
  <2>2. \A q \in Request : work'[q].after => work[q].after
    BY <1>2 DEF Went, Rest
  <2> QED BY <1>0, <1>4, <2>1, <2>2 DEF Revoked, Buried
<1> QED BY <1>3, <1>4 DEF Tombstone

\* A request that arrives late finds nothing to refresh with.
LEMMA ArrivalRevoked ==
    ASSUME Frame, Frame', Revoked, NEW r \in Request, Arrival(r)
    PROVE  Revoked'
<1>1. PICK c \in {"code", "index", "rindex", "revoke"}, t \in 0 .. MaxTokens :
              /\ WorkT' /\ ArrivedWith(r, c, t)
              /\ c \in {"index", "rindex"} => t \in Handed
              /\ c \in {"code", "revoke"} => t = 0
              /\ c = "revoke" => grant.st = "active"
              /\ UNCHANGED <<store, revoked, tokens, over, dead, faults>>
  BY ArrivalFacts
<1>2. UNCHANGED <<grant, codeUsed, index, spent, tomb, revoked, tokens, over, dead, failed, events>>
  BY <1>1 DEF store, faults
<1>3. Mild(r)
  BY <1>1, <1>2 DEF ArrivedWith, Mild, Frame, Holds, Knows
<1>4. work[r].at \notin {"delete", "rdelete"}
  BY <1>1 DEF ArrivedWith
<1>5. ASSUME Quiescent PROVE QuietAt(r)'
  <2>1. CASE c = "index"
    <3>1. t \in Token
      BY <1>1, <2>1, HandedMade
    <3>2. GraceOn => spent[t].by \in (over \cap Spenders(t)) \cup {Nobody}
      BY <1>5, <3>1, SpentTypes DEF Frame, Quiescent, Spenders
    <3> QED BY <1>1, <1>2, <2>1, <3>2 DEF ArrivedWith, QuietAt, QuietCalls
  <2>2. CASE c # "index"
    BY <1>1, <2>2 DEF ArrivedWith, QuietAt, QuietCalls, Presenting
  <2> QED BY <2>1, <2>2
<1> QED BY <1>2, <1>3, <1>4, <1>5, RevokedStep

LEMMA StillRevoked ==
    ASSUME Frame, Frame', Revoked, Still, failed => failed', tomb' = tomb, over \subseteq over',
           \A q \in Request : work[q].at \in {"delete", "rdelete"} => work'[q] = work[q] \/ failed'
    PROVE  Revoked'
<1>1. Handed' = Handed /\ \A q \in Request : work'[q].got = work[q].got
  BY StillHanded
<1>2. /\ grant' = grant /\ spent' = spent /\ tokens' = tokens /\ dead' = dead
      /\ \A q \in Request : work'[q] = work[q] \/ (work'[q].at = "stopped" /\ work'[q].after = FALSE)
  BY HaltedFields DEF Still
<1>3. Outdated' <=> Outdated
  BY <1>1, <1>2 DEF Outdated
<1>4. ASSUME Quiescent PROVE Quiescent'
  <2>1. ASSUME NEW q \in Request PROVE QuietAt(q)'
    <3>1. QuietAt(q)
      BY <1>4 DEF Quiescent, QuietAt
    <3> QED BY <1>2, <3>1 DEF QuietAt, QuietCalls, Ended, Presenting
  <2> QED BY <1>2, <1>3, <1>4, <2>1 DEF Quiescent, QuietAt
<1>5. RevokedIsFinal'
  BY <1>1, <1>2 DEF Revoked, RevokedIsFinal
<1>6. Buried'
  BY <1>2, <1>3 DEF Revoked, Buried
<1> QED BY <1>2, <1>4, <1>5, <1>6 DEF Revoked

LEMMA RestRevoked ==
    ASSUME Frame, Frame', Revoked,
           \/ \E r \in Request : Stop(r) \/ GraceEnds(r)
           \/ \E p \in Replica : Poll(p) \/ Restart(p)
    PROVE  Revoked'
<1>1. ASSUME NEW r \in Request, Stop(r) PROVE Revoked'
  <2>1. Still /\ Rest(r)
    BY <1>1, StopFacts DEF Frame
  <2>2. (failed => failed') /\ (Revoking(r) => failed')
    BY <1>1, Zenon DEF Stop
  <2>3. tomb' = tomb /\ over' = over
    BY <1>1 DEF Stop, store
  <2>4. \A q \in Request : work[q].at \in {"delete", "rdelete"} => work'[q] = work[q] \/ failed'
    BY <2>1, <2>2 DEF Rest, Revoking
  <2> QED BY <2>1, <2>2, <2>3, <2>4, StillRevoked
<1>2. ASSUME NEW p \in Replica, Restart(p) PROVE Revoked'
  <2>1. Still
    BY <1>2, RestartFacts DEF Frame
  <2>2. (failed => failed') /\ \A q \in Request : Home[q] = p /\ Revoking(q) => failed'
    BY <1>2, Zenon DEF Restart
  <2>3. tomb' = tomb /\ over' = over
    BY <1>2 DEF Restart, store
  <2>4. \A q \in Request : Home[q] # p => work'[q] = work[q]
    BY <1>2 DEF Restart
  <2>5. \A q \in Request : work[q].at \in {"delete", "rdelete"} => work'[q] = work[q] \/ failed'
    BY <2>2, <2>4 DEF Revoking
  <2> QED BY <2>1, <2>2, <2>3, <2>5, StillRevoked
<1>3. ASSUME NEW r \in Request, GraceEnds(r) PROVE Revoked'
  <2>1. Still /\ UNCHANGED <<tomb, failed, work>> /\ over \subseteq over'
    BY <1>3 DEF GraceEnds, Still, store, faults
  <2> QED BY <2>1, StillRevoked
<1>4. ASSUME NEW p \in Replica, Poll(p) PROVE Revoked'
  <2>1. Still /\ UNCHANGED <<tomb, failed, work, over>>
    BY <1>4 DEF Poll, Still, store, faults
  <2> QED BY <2>1, StillRevoked
<1> QED BY <1>1, <1>2, <1>3, <1>4

\* When the tombstone ends no request and no grace is left that knew the grant.
LEMMA TombstoneEndsRevoked ==
    ASSUME Frame, Frame', Revoked, TombstoneEnds
    PROVE  Revoked'
<1>1. UNCHANGED <<grant, spent, tokens, over, work, dead, failed>> /\ tomb' = FALSE
  BY DEF TombstoneEnds, faults
<1>2. Handed' = Handed
  BY <1>1 DEF Handed
<1>3. ASSUME dead, ~failed PROVE Quiescent'
  <2>1. \A r \in Request : work[r].at \in Ended
    BY DEF TombstoneEnds
  <2>2. Outdated
    BY <1>3, <2>1 DEF Revoked, Buried, Ended
  <2>3. Outdated'
    BY <1>1, <1>2, <2>2 DEF Outdated
  <2>4. GraceOn => \A t \in Token : spent[t].by \in over \cup {Nobody}
    BY DEF TombstoneEnds
  <2> QED BY <1>1, <2>1, <2>3, <2>4 DEF Quiescent, QuietCalls, Ended, Presenting
<1>4. Buried' /\ RevokedIsFinal'
  BY <1>1, <1>2 DEF Revoked, Buried, Outdated, RevokedIsFinal
<1> QED BY <1>1, <1>3, <1>4 DEF Revoked

LEMMA InitRevoked ==
    ASSUME Init
    PROVE  Revoked
<1>1. ~tomb /\ ~dead /\ \A r \in Request : work[r] = New
  BY DEF Init
<1> QED BY <1>1, NewFields DEF Revoked, Buried, RevokedIsFinal

LEMMA StepRevoked ==
    ASSUME Frame, Frame', Revoked, NEW r \in Request, Step(r)
    PROVE  Revoked'
BY ClaimCodeRevoked, ReadPendingRevoked, ActivateRevoked, ReadIndexRevoked, ReadGrantRevoked,
   LiveRevoked, ClaimRevoked, RevalidateRevoked, IssueRevoked, PutGrantRevoked, TidyRevoked,
   DeletedRevoked, CheckRevoked, AgainRevoked, AwaitingRevoked, ReadSpentRevoked, QuietRevoked,
   TombstoneRevoked DEF Step

LEMMA NextRevoked ==
    ASSUME Frame, Frame', Revoked, [Next]_vars
    PROVE  Revoked'
<1>1. CASE UNCHANGED vars
  <2>1. Still /\ UNCHANGED <<tomb, failed, work, over>>
    BY <1>1 DEF vars, Still, store, faults
  <2> QED BY <2>1, StillRevoked
<1>2. CASE Next
  BY <1>2, StepRevoked, ArrivalRevoked, RestRevoked, TombstoneEndsRevoked DEF Next
<1> QED BY <1>1, <1>2

LEMMA RevokedAlways == Spec => []Revoked
<1>1. Init => Revoked
  BY InitRevoked
<1>2. Frame /\ Frame' /\ Revoked /\ [Next]_vars => Revoked'
  BY NextRevoked
<1> QED BY <1>1, <1>2, FrameAlways, PTL DEF Spec

\* A request that begins after the grant was revoked is given no token: a
\* tombstone is seen by the last check of every rotation (live_grant), and when
\* it ends the grant, if a rotation wrote it back, has a generation of which no
\* client has a token.  (Unless a write failed, or a revocation was cut short.)
THEOREM RevokedForGood == Spec => []RevokedIsFinal
BY RevokedAlways, PTL DEF Revoked
=============================================================================
