----------------------------- MODULE QuotaFreeze -----------------------------
(***************************************************************************)
(* The process-local table of quota holds (cooldown.go, quota_freeze.go)   *)
(* and the executor paths that consult and feed it (main.go, stream.go,    *)
(* executor_http.go).  A key is an (account, upstream model) pair; the     *)
(* pair with the empty model name stands for the whole account.            *)
(*                                                                         *)
(* Everything done under cooldownMu is one step.  What the code reads      *)
(* before it takes the mutex (the clock, the upstream answer, the billing  *)
(* answer) is a step of its own, so that other goroutines run in between.  *)
(***************************************************************************)
EXTENDS Integers, FiniteSets

CONSTANTS
    Auths,          \* account IDs (auth.ID)
    Models,         \* non-empty upstream model names
    NoModel,        \* the empty model name: the account-wide key
    Requests,       \* concurrent executor calls
    Queries,        \* concurrent billing fetches
    Absent,         \* no entry under a key
    RateLimitTTL,   \* modelCooldownRateLimit
    ProbeTTL,       \* quotaProbeTTL
    MaxHorizon,     \* quotaMaxHorizon
    MaxEntries,     \* modelCooldownMaxEntries
    MaxNow          \* bound of the model: the clock stops here

ASSUME QuotaConstants ==
    /\ NoModel \notin Models
    /\ RateLimitTTL \in Nat \ {0}
    /\ ProbeTTL \in Nat \ {0}
    /\ MaxHorizon \in Nat
    /\ RateLimitTTL <= MaxHorizon
    /\ ProbeTTL <= MaxHorizon
    /\ MaxEntries \in Nat \ {0}
    /\ MaxNow \in Nat

ASSUME QuotaFinite == IsFiniteSet(Auths) /\ IsFiniteSet(Models)

VARIABLES
    now,    \* cooldownNowFn()
    table,  \* cooldownTable
    req,    \* the executor calls in flight
    pool,   \* upstream truth: does the account still have shared credits?
    qry     \* the billing fetches in flight

vars == <<now, table, req, pool, qry>>

Keys == Auths \X (Models \cup {NoModel})

ModelReasons == {"rate_limit", "call_quota", "credit_quota"}
Reasons == ModelReasons \cup {"shared_credits_exhausted"}

Entries == [reason: Reasons, until: Nat, updated: Nat]

ASSUME AbsentIsNoEntry == Absent \notin Entries

IdleReq == [pc |-> "idle"]
IdleQry == [pc |-> "idle"]

(***************************************************************************)
(* classifyChatFailure over the evidence the error fields can show.  The   *)
(* phrase lists are abstracted to what each of them is evidence of; the    *)
(* order of the tests is the code's.                                       *)
(***************************************************************************)
Evidence ==
    [requestError: BOOLEAN,  \* request or capability error, context too long
     credential:   BOOLEAN,  \* code 12153, token expired, ...
     code6004:     BOOLEAN,  \* observed model-frequency rejection
     negated:      BOOLEAN,  \* "not exhausted", ...
     credit:       BOOLEAN,  \* insufficient credit for this call
     shared:       BOOLEAN,  \* shared pool or scope account/shared
     depleted:     BOOLEAN,  \* credits exhausted
     allowance:    BOOLEAN,  \* explicit daily or call allowance used up
     throttled:    BOOLEAN]  \* status 429 or rate-limit wording

NoFailure == "none"

\* The reason decides the scope: only shared_credits_exhausted is account-wide.
classifyChatFailure(e) ==
    CASE e.requestError                      -> NoFailure
      [] ~e.requestError /\ e.credential     -> NoFailure
      [] ~e.requestError /\ ~e.credential /\ e.code6004 -> "rate_limit"
      [] OTHER ->
           IF e.negated THEN NoFailure
           ELSE IF e.credit \/ e.depleted
                THEN IF e.shared /\ e.depleted THEN "shared_credits_exhausted"
                                               ELSE "credit_quota"
           ELSE IF e.allowance THEN "call_quota"
           ELSE IF e.throttled THEN "rate_limit"
           ELSE NoFailure

Failures == {classifyChatFailure(e) : e \in Evidence} \ {NoFailure}

quotaReasonStrength(reason) ==
    CASE reason = "shared_credits_exhausted"        -> 3
      [] reason \in {"call_quota", "credit_quota"}  -> 2
      [] reason = "rate_limit"                      -> 1
      [] OTHER                                      -> 0

-----------------------------------------------------------------------------
Present(k) == table[k] # Absent
Active(k) == Present(k) /\ table[k].until > now

\* quotaFreezeFor: the account-wide key is looked up before the pair.
Held(a, m) == Active(<<a, NoModel>>) \/ Active(<<a, m>>)

\* The entries quotaFreezeFor deletes on the way: those it looked at and found
\* expired.  It returns at the first active one.
Looked(a, m) ==
    IF Active(<<a, NoModel>>) THEN {} ELSE {<<a, NoModel>>, <<a, m>>}

Without(tab, ks) == [k \in Keys |-> IF k \in ks THEN Absent ELSE tab[k]]

afterLookup(a, m) ==
    Without(table, {k \in Looked(a, m) : Present(k) /\ ~Active(k)})

\* cooldownSweepLocked with the caller's clock reading.
Swept(t) == Without(table, {k \in Keys : Present(k) /\ table[k].until <= t})

PresentKeys(tab) == {k \in Keys : tab[k] # Absent}

\* The eviction candidates of a full table: any entry with the earliest expiry
\* (map iteration order decides between equal ones).
EarliestOf(tab) ==
    {k \in PresentKeys(tab) :
        \A j \in PresentKeys(tab) : tab[k].until <= tab[j].until}

\* quotaRetryAt: an upstream hint counts only inside (now, now + horizon];
\* without one the reason's own TTL applies (recordUpstreamFailureWithHeaders).
quotaRetryAt(hint, reason) ==
    IF hint \in 1..MaxHorizon
    THEN now + hint
    ELSE now + (IF reason = "rate_limit" THEN RateLimitTTL ELSE ProbeTTL)

\* The clamp markQuotaFreeze applies to an instant beyond the horizon.
clampUntil(until, t) ==
    IF until > t + MaxHorizon THEN t + ProbeTTL ELSE until

-----------------------------------------------------------------------------
Init ==
    /\ now = 0
    /\ table = [k \in Keys |-> Absent]
    /\ req = [r \in Requests |-> IdleReq]
    /\ pool \in [Auths -> BOOLEAN]
    /\ qry = [q \in Queries |-> IdleQry]

Tick ==
    /\ now < MaxNow
    /\ now' = now + 1
    /\ UNCHANGED <<table, req, pool, qry>>

\* The upstream balance is exhausted or topped up, behind the plugin's back.
UpstreamBalance(a) ==
    /\ pool' = [pool EXCEPT ![a] = ~pool[a]]
    /\ UNCHANGED <<now, table, req, qry>>

\* First quota guard of handleExecExecute and handleExecStream.  A blocked call
\* returns its error envelope and is over.
Admit(r, a, m) ==
    /\ req[r].pc = "idle"
    /\ table' = afterLookup(a, m)
    /\ req' = IF Held(a, m)
              THEN req
              ELSE [req EXCEPT ![r] = [pc |-> "admitted", auth |-> a, model |-> m]]
    /\ UNCHANGED <<now, pool, qry>>

\* Seeded fault: the admitted call is sent without asking the table again.
DispatchUnguarded(r) ==
    /\ req[r].pc = "admitted"
    /\ req' = [req EXCEPT ![r].pc = "sent"]
    /\ UNCHANGED <<now, table, pool, qry>>

\* Second guard, immediately before host.http.do_stream (for a stream it runs in
\* the pump goroutine, any time after the handler returned).
Dispatch(r) ==
    /\ req[r].pc = "admitted"
    /\ LET a == req[r].auth
           m == req[r].model
       IN  /\ table' = afterLookup(a, m)
           /\ req' = [req EXCEPT ![r] =
                        IF Held(a, m) THEN IdleReq
                        ELSE [pc |-> "sent", auth |-> a, model |-> m]]
    /\ UNCHANGED <<now, pool, qry>>

\* executor.http_request to the chat path: one guard, and the model comes from
\* the body, so it may be missing.
ExecutorHTTP(r, a, m) ==
    /\ req[r].pc = "idle"
    /\ table' = afterLookup(a, m)
    /\ req' = IF Held(a, m)
              THEN req
              ELSE [req EXCEPT ![r] = [pc |-> "sent", auth |-> a, model |-> m]]
    /\ UNCHANGED <<now, pool, qry>>

\* The upstream answers without quota evidence (success or other error).
AnswerOther(r) ==
    /\ req[r].pc = "sent"
    /\ req' = [req EXCEPT ![r] = IdleReq]
    /\ UNCHANGED <<now, table, pool, qry>>

\* The upstream rejects the call.  recordUpstreamFailureWithHeaders classifies
\* the answer and turns the hint into an instant.  Shared exhaustion is only
\* reported by an upstream whose pool is empty.
AnswerFailure(r, reason, hint) ==
    /\ req[r].pc = "sent"
    /\ reason = "shared_credits_exhausted" => ~pool[req[r].auth]
    /\ req' = [req EXCEPT ![r] =
                 [pc |-> "classified", auth |-> req[r].auth, model |-> req[r].model,
                  reason |-> reason, until |-> quotaRetryAt(hint, reason)]]
    /\ UNCHANGED <<now, table, pool, qry>>

\* Seeded fault: the empty model name is not refused for a model-scoped reason.
StampUnscoped(r) ==
    /\ req[r].pc = "classified"
    /\ LET c == req[r]
       IN  req' = [req EXCEPT ![r] =
                     IF c.until <= now THEN IdleReq
                     ELSE [pc |-> "stamped", key |-> <<c.auth, c.model>>,
                           reason |-> c.reason, stamp |-> now,
                           until |-> clampUntil(c.until, now)]]
    /\ UNCHANGED <<now, table, pool, qry>>

\* The early returns of markQuotaFreeze and its clock reading, before the lock.
Stamp(r) ==
    /\ req[r].pc = "classified"
    /\ LET c == req[r]
           account == c.reason = "shared_credits_exhausted"
           unscoped == ~account /\ c.model = NoModel
       IN  req' = [req EXCEPT ![r] =
                     IF unscoped \/ c.until <= now THEN IdleReq
                     ELSE [pc |-> "stamped",
                           key |-> <<c.auth, IF account THEN NoModel ELSE c.model>>,
                           reason |-> c.reason, stamp |-> now,
                           until |-> clampUntil(c.until, now)]]
    /\ UNCHANGED <<now, table, pool, qry>>

\* Seeded fault: the last signal wins, whatever was declared before it.
mergeLastWins(prev, c) ==
    [reason |-> c.reason, updated |-> c.stamp, until |-> c.until]

\* Seeded fault: the new duration is added to what is left of the hold.
mergeAccumulates(prev, c) ==
    [reason |-> c.reason, updated |-> c.stamp, until |-> prev.until + (c.until - c.stamp)]

\* A weaker signal returns without a write; otherwise the later expiry wins.
mergeHold(prev, c) ==
    IF quotaReasonStrength(prev.reason) > quotaReasonStrength(c.reason)
    THEN prev
    ELSE [reason |-> c.reason, updated |-> c.stamp,
          until |-> IF prev.until > c.until THEN prev.until ELSE c.until]

\* Seeded fault: a full table takes the new entry without evicting one.
MarkNoEviction(r) ==
    /\ req[r].pc = "stamped"
    /\ LET c == req[r]
           s == Swept(c.stamp)
       IN  table' = [s EXCEPT ![c.key] =
                       IF s[c.key] # Absent THEN mergeHold(s[c.key], c)
                       ELSE [reason |-> c.reason, until |-> c.until, updated |-> c.stamp]]
    /\ req' = [req EXCEPT ![r] = IdleReq]
    /\ UNCHANGED <<now, pool, qry>>

\* The locked part of markQuotaFreeze: sweep, merge or evict, store.
Mark(r) ==
    /\ req[r].pc = "stamped"
    /\ LET c == req[r]
           s == Swept(c.stamp)
           fresh == [reason |-> c.reason, until |-> c.until, updated |-> c.stamp]
       IN  \/ /\ s[c.key] # Absent
              /\ table' = [s EXCEPT ![c.key] = mergeHold(s[c.key], c)]
           \/ /\ s[c.key] = Absent
              /\ Cardinality(PresentKeys(s)) < MaxEntries
              /\ table' = [s EXCEPT ![c.key] = fresh]
           \/ /\ s[c.key] = Absent
              /\ Cardinality(PresentKeys(s)) >= MaxEntries
              /\ \E oldest \in EarliestOf(s) :
                    table' = [Without(s, {oldest}) EXCEPT ![c.key] = fresh]
    /\ req' = [req EXCEPT ![r] = IdleReq]
    /\ UNCHANGED <<now, pool, qry>>

\* A billing fetch for the account is answered: fetchUserResource returns.
QueryCredits(q, a) ==
    /\ qry[q].pc = "idle"
    /\ qry' = [qry EXCEPT ![q] =
                 [pc |-> "answered", auth |-> a, positive |-> pool[a]]]
    /\ UNCHANGED <<now, table, req, pool>>

\* Seeded fault: a positive balance lifts every hold of the account.
observeClearsAll(q) ==
    /\ qry[q].pc = "answered"
    /\ table' = IF qry[q].positive
                THEN Without(table, {k \in Keys : k[1] = qry[q].auth}) ELSE table
    /\ qry' = [qry EXCEPT ![q] = IdleQry]
    /\ UNCHANGED <<now, req, pool>>

\* observeQuotaCredits: a positive balance clears the shared-credit hold only.
observeQuotaCredits(q) ==
    /\ qry[q].pc = "answered"
    /\ LET k == <<qry[q].auth, NoModel>>
           clears == /\ qry[q].positive
                     /\ Present(k)
                     /\ table[k].reason = "shared_credits_exhausted"
       IN  table' = IF clears THEN Without(table, {k}) ELSE table
    /\ qry' = [qry EXCEPT ![q] = IdleQry]
    /\ UNCHANGED <<now, req, pool>>

\* handleCooldownClear: one pair, or with an empty model every key of the account.
clearModelCooldown(a, m) ==
    /\ table' = Without(table, IF m = NoModel THEN {k \in Keys : k[1] = a}
                                              ELSE {<<a, m>>})
    /\ UNCHANGED <<now, req, pool, qry>>

\* coolingModelSetFor (model.for_auth): drops the account's expired pairs.
coolingModelSetFor(a) ==
    /\ table' = Without(table, {k \in Keys : /\ k[1] = a /\ k[2] # NoModel
                                             /\ Present(k) /\ ~Active(k)})
    /\ UNCHANGED <<now, req, pool, qry>>

Next ==
    \/ Tick
    \/ \E a \in Auths : UpstreamBalance(a)
    \/ \E r \in Requests, a \in Auths, m \in Models : Admit(r, a, m)
    \/ \E r \in Requests : Dispatch(r)
    \/ \E r \in Requests, a \in Auths, m \in Models \cup {NoModel} : ExecutorHTTP(r, a, m)
    \/ \E r \in Requests : AnswerOther(r)
    \/ \E r \in Requests, f \in Failures, h \in 0..(MaxHorizon + 1) : AnswerFailure(r, f, h)
    \/ \E r \in Requests : Stamp(r)
    \/ \E r \in Requests : Mark(r)
    \/ \E q \in Queries, a \in Auths : QueryCredits(q, a)
    \/ \E q \in Queries : observeQuotaCredits(q)
    \/ \E a \in Auths, m \in Models \cup {NoModel} : clearModelCooldown(a, m)
    \/ \E a \in Auths : coolingModelSetFor(a)

Spec == Init /\ [][Next]_vars

-----------------------------------------------------------------------------
(* Properties *)

PendingReq ==
         [pc: {"idle"}]
    \cup [pc: {"admitted", "sent"}, auth: Auths, model: Models \cup {NoModel}]
    \cup [pc: {"classified"}, auth: Auths, model: Models \cup {NoModel},
          reason: Reasons, until: Nat]
    \cup [pc: {"stamped"}, key: Keys, reason: Reasons, stamp: Nat, until: Nat]

PendingQry ==
    [pc: {"idle"}] \cup [pc: {"answered"}, auth: Auths, positive: BOOLEAN]

\* Types of the table and of the calls around it.
TypeOK ==
    /\ now \in Nat
    /\ table \in [Keys -> Entries \cup {Absent}]
    /\ req \in [Requests -> PendingReq]
    /\ pool \in [Auths -> BOOLEAN]
    /\ qry \in [Queries -> PendingQry]

\* An account is frozen as a whole only on proof that its shared credits are
\* exhausted, and that proof never lands on a single model: a rate limit or a
\* daily allowance of one model, or an HTTP call whose body names no model,
\* cannot stop the account's other models (markQuotaFreeze's scope rules).
AccountHoldProven ==
    \A a \in Auths, m \in Models \cup {NoModel} :
        Present(<<a, m>>) =>
            (m = NoModel <=> table[<<a, m>>].reason = "shared_credits_exhausted")

\* However many failures arrive, in whatever order their goroutines get the
\* mutex, the table never outgrows modelCooldownMaxEntries.
TableBounded == Cardinality(PresentKeys(table)) <= MaxEntries

\* No sequence of re-marks, with hints and clock readings of different ages,
\* freezes a key for longer than quotaMaxHorizon from the present instant.
HoldBounded == \A k \in Keys : Present(k) => table[k].until <= now + MaxHorizon

\* What every reader of the table relies on: its entries are holds, no more of
\* them than it has room for, and none beyond the horizon (markQuotaFreeze).
TableSound == TypeOK /\ TableBounded /\ HoldBounded

\* A re-mark never shortens a live hold and never replaces its reason by a
\* weaker one (the comment in markQuotaFreeze), even when the two failures were
\* classified in the opposite order to the one in which they take the mutex.
HoldNeverWeakened ==
    [][\A k \in Keys :
          Active(k) /\ table'[k] # Absent =>
              /\ table'[k].until >= table[k].until
              /\ quotaReasonStrength(table'[k].reason)
                    >= quotaReasonStrength(table[k].reason)]_vars

\* The ways to lose a hold: the operator clears it, billing shows the account a
\* positive balance, or the table is full and no live hold expires earlier.
Cleared(k) == \E m \in {k[2], NoModel} : clearModelCooldown(k[1], m)

ShownPositive(k) ==
    /\ k[2] = NoModel
    /\ \E q \in Queries : /\ qry[q].pc = "answered" /\ qry[q].positive
                          /\ qry[q].auth = k[1] /\ qry'[q].pc = "idle"

Crowded(k) ==
    /\ Cardinality(PresentKeys(table)) >= MaxEntries
    /\ \A j \in Keys : Active(j) => table[k].until <= table[j].until

\* A live hold disappears in one of these ways only.  In particular a positive
\* balance never lifts a daily or model limit (observeQuotaCredits).
HoldLossJustified ==
    [][\A k \in Keys :
          Active(k) /\ table'[k] = Absent =>
              Cleared(k) \/ ShownPositive(k) \/ Crowded(k)]_vars

\* No call goes upstream into a hold that exists when it is sent: the second
\* guard catches a hold another call created after this one was admitted.
NoDispatchIntoHold ==
    [][\A r \in Requests :
          req[r].pc # "sent" /\ req'[r].pc = "sent" =>
              ~Held(req'[r].auth, req'[r].model)]_vars
=============================================================================
