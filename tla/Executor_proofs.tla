--------------------------- MODULE Executor_proofs ---------------------------
(***************************************************************************)
(* Machine-checked facts about the executor: about QuotaFreeze for every   *)
(* set of accounts, models and requests, every table size and every        *)
(* horizon; about StreamPump for every number of calls and of lines.       *)
(***************************************************************************)
EXTENDS QuotaFreeze, StreamPump, FiniteSetTheorems, TLAPS

(***************************************************************************)
(* Lemmas about the operators.                                             *)
(***************************************************************************)

\* Whatever evidence an answer shows, its classification is a reason the table
\* knows, or none (classifyChatFailure).
LEMMA FailureReasons == Failures \subseteq Reasons
<1> SUFFICES ASSUME NEW e \in Evidence,
                    classifyChatFailure(e) # NoFailure
             PROVE  classifyChatFailure(e) \in Reasons
  BY DEF Failures
<1>1. CASE e.requestError
  BY <1>1 DEF classifyChatFailure
<1>2. CASE ~e.requestError /\ e.credential
  BY <1>2 DEF classifyChatFailure
<1>3. CASE ~e.requestError /\ ~e.credential /\ e.code6004
  BY <1>3 DEF classifyChatFailure, Reasons, ModelReasons
<1>4. CASE ~e.requestError /\ ~e.credential /\ ~e.code6004
  BY <1>4 DEF classifyChatFailure, Reasons, ModelReasons, NoFailure
<1> QED
  BY <1>1, <1>2, <1>3, <1>4 DEF Evidence

\* Deleting entries keeps the type and leaves every other entry alone
\* (the delete calls on cooldownTable).
LEMMA WithoutEntries ==
    ASSUME NEW tab \in [Keys -> Entries \cup {Absent}], NEW ks
    PROVE  /\ Without(tab, ks) \in [Keys -> Entries \cup {Absent}]
           /\ \A k \in Keys :
                 Without(tab, ks)[k] = IF k \in ks THEN Absent ELSE tab[k]
  BY DEF Without

\* An instant computed from an upstream hint lies in the present horizon
\* (quotaRetryAt).
LEMMA RetryInHorizon ==
    ASSUME now \in Nat, NEW hint \in 0..(MaxHorizon + 1), NEW reason \in Reasons
    PROVE  quotaRetryAt(hint, reason) \in Nat /\ quotaRetryAt(hint, reason) <= now + MaxHorizon
  BY QuotaConstants DEF quotaRetryAt

\* The clamp never leaves the horizon of the clock reading it is given
\* (markQuotaFreeze).
LEMMA ClampInHorizon ==
    ASSUME NEW u \in Nat, NEW t \in Nat
    PROVE  clampUntil(u, t) \in Nat /\ clampUntil(u, t) <= t + MaxHorizon
  BY QuotaConstants DEF clampUntil

\* Merging two holds keeps the later expiry and the stronger reason
\* (the merge in markQuotaFreeze).
LEMMA MergeKeepsStronger ==
    ASSUME NEW prev \in Entries,
           NEW c \in [pc: {"stamped"}, key: Keys, reason: Reasons, stamp: Nat, until: Nat]
    PROVE  LET m == mergeHold(prev, c) IN
           /\ m \in Entries
           /\ m.until \in {prev.until, c.until}
           /\ m.until >= prev.until
           /\ m.reason \in {prev.reason, c.reason}
           /\ quotaReasonStrength(m.reason) >= quotaReasonStrength(prev.reason)
<1>1. \A s \in Reasons : quotaReasonStrength(s) \in Nat
  BY DEF quotaReasonStrength, Reasons, ModelReasons
<1> QED
  BY <1>1 DEF mergeHold, Entries

\* There are finitely many keys, so the table is a finite set of entries.
LEMMA KeysFinite == IsFiniteSet(Keys)
<1>1. IsFiniteSet(Models \cup {NoModel})
  BY QuotaFinite, FS_AddElement
<1> QED
  BY <1>1, QuotaFinite, FS_Product DEF Keys

\* What the locked part of markQuotaFreeze does to the table: the marked key gets
\* a fresh hold, or one merged with the hold it had; every other entry stays or
\* goes.  An entry that had not expired at the stamp only goes when the table is
\* full, and then no entry left of that age expires earlier.
LEMMA MarkEffect ==
    ASSUME TypeOK, NEW r \in Requests, Mark(r)
    PROVE  LET c == req[r]
               s == Swept(c.stamp)
           IN  /\ c \in [pc: {"stamped"}, key: Keys, reason: Reasons, stamp: Nat, until: Nat]
               /\ s \in [Keys -> Entries \cup {Absent}]
               /\ \A k \in Keys :
                     s[k] = IF Present(k) /\ table[k].until <= c.stamp THEN Absent
                                                                     ELSE table[k]
               /\ table' \in [Keys -> Entries \cup {Absent}]
               /\ \/ /\ s[c.key] # Absent
                     /\ table' = [s EXCEPT ![c.key] = mergeHold(s[c.key], c)]
                  \/ /\ s[c.key] = Absent
                     /\ Cardinality(PresentKeys(s)) < MaxEntries
                     /\ table' = [s EXCEPT ![c.key] = [reason |-> c.reason,
                                      until |-> c.until, updated |-> c.stamp]]
                  \/ /\ s[c.key] = Absent
                     /\ Cardinality(PresentKeys(s)) >= MaxEntries
                     /\ \E o \in EarliestOf(s) :
                           table' = [k \in Keys |->
                              IF k = c.key THEN [reason |-> c.reason, until |-> c.until,
                                                 updated |-> c.stamp]
                              ELSE IF k = o THEN Absent ELSE s[k]]
               /\ s[c.key] # Absent => table'[c.key] = mergeHold(s[c.key], c)
               /\ s[c.key] = Absent =>
                     table'[c.key] = [reason |-> c.reason, until |-> c.until,
                                      updated |-> c.stamp]
               /\ \A k \in Keys : k # c.key => table'[k] \in {s[k], Absent}
<1> DEFINE c == req[r]
           s == Swept(c.stamp)
           fresh == [reason |-> c.reason, until |-> c.until, updated |-> c.stamp]
<1>1. c \in [pc: {"stamped"}, key: Keys, reason: Reasons, stamp: Nat, until: Nat]
  BY DEF Mark, PendingReq, TypeOK
<1>2. /\ s \in [Keys -> Entries \cup {Absent}]
      /\ \A k \in Keys : s[k] = IF Present(k) /\ table[k].until <= c.stamp
                               THEN Absent ELSE table[k]
  BY WithoutEntries DEF Swept, TypeOK
<1>3. fresh \in Entries
  BY <1>1 DEF Entries
<1>4. s[c.key] # Absent => mergeHold(s[c.key], c) \in Entries
  BY <1>1, <1>2, MergeKeepsStronger
<1>5. \/ /\ s[c.key] # Absent
         /\ table' = [s EXCEPT ![c.key] = mergeHold(s[c.key], c)]
      \/ /\ s[c.key] = Absent
         /\ Cardinality(PresentKeys(s)) < MaxEntries
         /\ table' = [s EXCEPT ![c.key] = fresh]
      \/ /\ s[c.key] = Absent
         /\ Cardinality(PresentKeys(s)) >= MaxEntries
         /\ \E o \in EarliestOf(s) : table' = [Without(s, {o}) EXCEPT ![c.key] = fresh]
  BY DEF Mark
<1>6. ASSUME NEW o
      PROVE  [Without(s, {o}) EXCEPT ![c.key] = fresh] =
             [k \in Keys |-> IF k = c.key THEN fresh ELSE IF k = o THEN Absent ELSE s[k]]
  BY DEF Without
<1> HIDE DEF c, s, fresh
<1>7. /\ table' \in [Keys -> Entries \cup {Absent}]
      /\ s[c.key] # Absent => table'[c.key] = mergeHold(s[c.key], c)
      /\ s[c.key] = Absent => table'[c.key] = fresh
      /\ \A k \in Keys : k # c.key => table'[k] \in {s[k], Absent}
  <2> DEFINE P == /\ table' \in [Keys -> Entries \cup {Absent}]
                  /\ s[c.key] # Absent => table'[c.key] = mergeHold(s[c.key], c)
                  /\ s[c.key] = Absent => table'[c.key] = fresh
                  /\ \A k \in Keys : k # c.key => table'[k] \in {s[k], Absent}
  <2>1. CASE s[c.key] # Absent /\ table' = [s EXCEPT ![c.key] = mergeHold(s[c.key], c)]
    BY <2>1, <1>1, <1>2, <1>4
  <2>2. CASE s[c.key] = Absent /\ table' = [s EXCEPT ![c.key] = fresh]
    BY <2>2, <1>1, <1>2, <1>3
  <2>3. ASSUME NEW o, s[c.key] = Absent, table' = [Without(s, {o}) EXCEPT ![c.key] = fresh]
        PROVE  P
    <3>1. table' = [k \in Keys |->
                      IF k = c.key THEN fresh ELSE IF k = o THEN Absent ELSE s[k]]
      BY <2>3, <1>6
    <3> QED
      BY <2>3, <3>1, <1>1, <1>2, <1>3
  <2> QED
    BY <2>1, <2>2, <2>3, <1>5
<1>8. \/ /\ s[c.key] # Absent
         /\ table' = [s EXCEPT ![c.key] = mergeHold(s[c.key], c)]
      \/ /\ s[c.key] = Absent
         /\ Cardinality(PresentKeys(s)) < MaxEntries
         /\ table' = [s EXCEPT ![c.key] = fresh]
      \/ /\ s[c.key] = Absent
         /\ Cardinality(PresentKeys(s)) >= MaxEntries
         /\ \E o \in EarliestOf(s) :
               table' = [k \in Keys |-> IF k = c.key THEN fresh
                                      ELSE IF k = o THEN Absent ELSE s[k]]
  BY <1>5, <1>6
<1> QED
  BY <1>1, <1>2, <1>7, <1>8 DEF c, s, fresh

-----------------------------------------------------------------------------
(***************************************************************************)
(* Type correctness.                                                       *)
(***************************************************************************)

\* Every step keeps the types of the table and of the calls around it.
THEOREM TypeCorrect == Spec => []TypeOK
<1>1. Init => TypeOK
  BY DEF Init, TypeOK, IdleReq, IdleQry, PendingReq, PendingQry
<1>2. TypeOK /\ [Next]_vars => TypeOK'
  <2> SUFFICES ASSUME TypeOK, [Next]_vars
               PROVE  TypeOK'
    OBVIOUS
  <2> USE DEF TypeOK
  <2>1. CASE Tick
    BY <2>1 DEF Tick
  <2>2. ASSUME NEW a \in Auths, UpstreamBalance(a)
        PROVE  TypeOK'
    BY <2>2 DEF UpstreamBalance
  <2>3. ASSUME NEW r \in Requests, NEW a \in Auths, NEW m \in Models, Admit(r, a, m)
        PROVE  TypeOK'
    <3>1. table' \in [Keys -> Entries \cup {Absent}]
      BY <2>3, WithoutEntries DEF Admit, afterLookup
    <3>2. req' \in [Requests -> PendingReq]
      BY <2>3 DEF Admit, PendingReq
    <3> QED
      BY <2>3, <3>1, <3>2 DEF Admit
  <2>4. ASSUME NEW r \in Requests, Dispatch(r)
        PROVE  TypeOK'
    <3>1. table' \in [Keys -> Entries \cup {Absent}]
      BY <2>4, WithoutEntries DEF Dispatch, afterLookup
    <3>2. req[r] \in [pc: {"admitted", "sent"}, auth: Auths, model: Models \cup {NoModel}]
      BY <2>4 DEF Dispatch, PendingReq
    <3>3. req' \in [Requests -> PendingReq]
      BY <2>4, <3>2 DEF Dispatch, PendingReq, IdleReq
    <3> QED
      BY <2>4, <3>1, <3>3 DEF Dispatch
  <2>5. ASSUME NEW r \in Requests, NEW a \in Auths, NEW m \in Models \cup {NoModel},
               ExecutorHTTP(r, a, m)
        PROVE  TypeOK'
    <3>1. table' \in [Keys -> Entries \cup {Absent}]
      BY <2>5, WithoutEntries DEF ExecutorHTTP, afterLookup
    <3>2. req' \in [Requests -> PendingReq]
      BY <2>5 DEF ExecutorHTTP, PendingReq
    <3> QED
      BY <2>5, <3>1, <3>2 DEF ExecutorHTTP
  <2>6. ASSUME NEW r \in Requests, AnswerOther(r)
        PROVE  TypeOK'
    BY <2>6 DEF AnswerOther, PendingReq, IdleReq
  <2>7. ASSUME NEW r \in Requests, NEW f \in Failures, NEW h \in 0..(MaxHorizon + 1),
               AnswerFailure(r, f, h)
        PROVE  TypeOK'
    <3>1. req[r] \in [pc: {"admitted", "sent"}, auth: Auths, model: Models \cup {NoModel}]
      BY <2>7 DEF AnswerFailure, PendingReq
    <3>2. f \in Reasons /\ quotaRetryAt(h, f) \in Nat
      BY FailureReasons, RetryInHorizon
    <3>3. req' \in [Requests -> PendingReq]
      BY <2>7, <3>1, <3>2 DEF AnswerFailure, PendingReq
    <3> QED
      BY <2>7, <3>3 DEF AnswerFailure
  <2>8. ASSUME NEW r \in Requests, Stamp(r)
        PROVE  TypeOK'
    <3>1. req[r] \in [pc: {"classified"}, auth: Auths, model: Models \cup {NoModel},
                      reason: Reasons, until: Nat]
      BY <2>8 DEF Stamp, PendingReq
    <3>2. clampUntil(req[r].until, now) \in Nat
      BY <3>1, ClampInHorizon
    <3>3. req' \in [Requests -> PendingReq]
      BY <2>8, <3>1, <3>2 DEF Stamp, PendingReq, IdleReq, Keys
    <3> QED
      BY <2>8, <3>3 DEF Stamp
  <2>9. ASSUME NEW r \in Requests, Mark(r)
        PROVE  TypeOK'
    <3>6. table' \in [Keys -> Entries \cup {Absent}]
      BY <2>9, MarkEffect
    <3>7. req' \in [Requests -> PendingReq]
      BY <2>9 DEF Mark, PendingReq, IdleReq
    <3> QED
      BY <2>9, <3>6, <3>7 DEF Mark
  <2>10. ASSUME NEW q \in Queries, NEW a \in Auths, QueryCredits(q, a)
         PROVE  TypeOK'
    BY <2>10 DEF QueryCredits, PendingQry
  <2>11. ASSUME NEW q \in Queries, observeQuotaCredits(q)
         PROVE  TypeOK'
    BY <2>11, WithoutEntries DEF observeQuotaCredits, PendingQry, IdleQry
  <2>12. ASSUME NEW a \in Auths, NEW m \in Models \cup {NoModel}, clearModelCooldown(a, m)
         PROVE  TypeOK'
    BY <2>12, WithoutEntries DEF clearModelCooldown
  <2>13. ASSUME NEW a \in Auths, coolingModelSetFor(a)
         PROVE  TypeOK'
    BY <2>13, WithoutEntries DEF coolingModelSetFor
  <2>14. CASE UNCHANGED vars
    BY <2>14 DEF vars
  <2> QED
    BY <2>1, <2>2, <2>3, <2>4, <2>5, <2>6, <2>7, <2>8, <2>9, <2>10, <2>11, <2>12, <2>13,
       <2>14 DEF Next
<1> QED
  BY <1>1, <1>2, PTL DEF Spec

-----------------------------------------------------------------------------
(***************************************************************************)
(* Scope and length of holds.  HoldBounded and AccountHoldProven are not   *)
(* inductive by themselves: a hold takes its key, reason and expiry from a *)
(* call that computed them earlier, outside the mutex.  HoldInv says what  *)
(* such a call may carry.                                                  *)
(***************************************************************************)

\* A classified or stamped call carries an expiry inside the horizon, a stamp
\* that is not in the future, and, once stamped, a key of its reason's scope.
PendingProven ==
    \A r \in Requests :
        /\ req[r].pc \in {"classified", "stamped"} => req[r].until <= now + MaxHorizon
        /\ req[r].pc = "stamped" =>
              /\ req[r].stamp <= now
              /\ req[r].key[2] = NoModel <=> req[r].reason = "shared_credits_exhausted"

HoldInv == TypeOK /\ PendingProven /\ HoldBounded /\ AccountHoldProven

\* The entries after a step are old entries or nothing: HoldBounded and
\* AccountHoldProven survive any deletion (sweeps, clears, evictions).
LEMMA DeletionSafe ==
    ASSUME HoldInv, TypeOK', now' \in Nat, now' >= now,
           \A k \in Keys : table'[k] \in {table[k], Absent}
    PROVE  HoldBounded' /\ AccountHoldProven'
<1>1. HoldBounded'
  <2> SUFFICES ASSUME NEW k \in Keys, table'[k] # Absent
               PROVE  table'[k].until <= now' + MaxHorizon
    BY DEF HoldBounded, Present
  <2>1. table[k] \in Entries /\ table'[k] = table[k]
    BY DEF HoldInv, TypeOK
  <2> QED
    BY <2>1, QuotaConstants DEF HoldInv, TypeOK, HoldBounded, Present, Entries
<1>2. AccountHoldProven'
  <2> SUFFICES ASSUME NEW a \in Auths, NEW m \in Models \cup {NoModel},
                      table'[<<a, m>>] # Absent
               PROVE  m = NoModel <=> table'[<<a, m>>].reason = "shared_credits_exhausted"
    BY DEF AccountHoldProven, Present
  <2>1. <<a, m>> \in Keys
    BY DEF Keys
  <2>2. table'[<<a, m>>] = table[<<a, m>>]
    BY <2>1
  <2> QED
    BY <2>2 DEF HoldInv, AccountHoldProven, Present
<1> QED
  BY <1>1, <1>2

\* Every step keeps the strengthened invariant.
LEMMA HoldInvStep == HoldInv /\ TypeOK' /\ [Next]_vars => HoldInv'
<1> SUFFICES ASSUME HoldInv, TypeOK', [Next]_vars
             PROVE  PendingProven' /\ HoldBounded' /\ AccountHoldProven'
  BY DEF HoldInv
<1> USE DEF HoldInv
<1>1. CASE Tick
  <2>1. now' >= now /\ now' \in Nat /\ table' = table
    BY <1>1 DEF Tick, TypeOK
  <2>2. PendingProven'
    <3> SUFFICES ASSUME NEW r \in Requests
                 PROVE  /\ req[r].pc \in {"classified", "stamped"} =>
                              req[r].until <= now' + MaxHorizon
                        /\ req[r].pc = "stamped" =>
                              /\ req[r].stamp <= now'
                              /\ req[r].key[2] = NoModel
                                    <=> req[r].reason = "shared_credits_exhausted"
      BY <1>1 DEF Tick, PendingProven
    <3>1. req[r] \in PendingReq
      BY DEF TypeOK
    <3> QED
      BY <1>1, <3>1, QuotaConstants DEF Tick, PendingProven, PendingReq, TypeOK
  <2> QED
    BY <2>1, <2>2, DeletionSafe
<1>2. ASSUME NEW a \in Auths, UpstreamBalance(a)
      PROVE  PendingProven' /\ HoldBounded' /\ AccountHoldProven'
  BY <1>2 DEF UpstreamBalance, PendingProven, HoldBounded, AccountHoldProven, Present
<1>3. ASSUME NEW r \in Requests, NEW a \in Auths, NEW m \in Models \cup {NoModel},
             Admit(r, a, m) \/ ExecutorHTTP(r, a, m)
      PROVE  PendingProven' /\ HoldBounded' /\ AccountHoldProven'
  <2>1. PendingProven'
    BY <1>3 DEF Admit, ExecutorHTTP, PendingProven, TypeOK
  <2>2. now' = now /\ \A k \in Keys : table'[k] \in {table[k], Absent}
    BY <1>3, WithoutEntries DEF Admit, ExecutorHTTP, afterLookup, TypeOK
  <2> QED
    BY <2>1, <2>2, DeletionSafe DEF TypeOK
<1>4. ASSUME NEW r \in Requests, Dispatch(r)
      PROVE  PendingProven' /\ HoldBounded' /\ AccountHoldProven'
  <2>1. PendingProven'
    BY <1>4 DEF Dispatch, PendingProven, TypeOK, IdleReq
  <2>2. now' = now /\ \A k \in Keys : table'[k] \in {table[k], Absent}
    BY <1>4, WithoutEntries DEF Dispatch, afterLookup, TypeOK
  <2> QED
    BY <2>1, <2>2, DeletionSafe DEF TypeOK
<1>5. ASSUME NEW r \in Requests, AnswerOther(r)
      PROVE  PendingProven' /\ HoldBounded' /\ AccountHoldProven'
  <2>1. PendingProven'
    BY <1>5 DEF AnswerOther, PendingProven, TypeOK, IdleReq
  <2> QED
    BY <1>5, <2>1, DeletionSafe DEF AnswerOther, TypeOK
<1>6. ASSUME NEW r \in Requests, NEW f \in Failures, NEW h \in 0..(MaxHorizon + 1),
             AnswerFailure(r, f, h)
      PROVE  PendingProven' /\ HoldBounded' /\ AccountHoldProven'
  <2>1. quotaRetryAt(h, f) <= now + MaxHorizon
    BY FailureReasons, RetryInHorizon DEF TypeOK
  <2>2. PendingProven'
    BY <1>6, <2>1 DEF AnswerFailure, PendingProven, TypeOK
  <2> QED
    BY <1>6, <2>2, DeletionSafe DEF AnswerFailure, TypeOK
<1>7. ASSUME NEW r \in Requests, Stamp(r)
      PROVE  PendingProven' /\ HoldBounded' /\ AccountHoldProven'
  <2>1. req[r] \in [pc: {"classified"}, auth: Auths, model: Models \cup {NoModel},
                    reason: Reasons, until: Nat]
    BY <1>7 DEF Stamp, PendingReq, TypeOK
  <2>2. clampUntil(req[r].until, now) <= now + MaxHorizon
    BY <2>1, ClampInHorizon DEF TypeOK
  <2>3. PendingProven'
    BY <1>7, <2>1, <2>2, QuotaConstants DEF Stamp, PendingProven, TypeOK, IdleReq
  <2> QED
    BY <1>7, <2>3, DeletionSafe DEF Stamp, TypeOK
<1>8. ASSUME NEW r \in Requests, Mark(r)
      PROVE  PendingProven' /\ HoldBounded' /\ AccountHoldProven'
  <2> DEFINE c == req[r]
             s == Swept(c.stamp)
  <2>1. /\ c \in [pc: {"stamped"}, key: Keys, reason: Reasons, stamp: Nat, until: Nat]
        /\ c.key \in Keys /\ c.stamp <= now /\ c.until <= now + MaxHorizon
        /\ c.until \in Nat /\ c.stamp \in Nat
        /\ c.key[2] = NoModel <=> c.reason = "shared_credits_exhausted"
    BY <1>8, MarkEffect DEF Mark, PendingProven
  <2>2. now' = now /\ req' = [req EXCEPT ![r] = IdleReq]
    BY <1>8 DEF Mark
  <2>3. PendingProven'
    BY <2>2 DEF PendingProven, TypeOK, IdleReq
  <2>4. /\ \A k \in Keys : s[k] \in {table[k], Absent}
        /\ s \in [Keys -> Entries \cup {Absent}]
        /\ \A k \in Keys : k # c.key => table'[k] \in {s[k], Absent}
        /\ \/ s[c.key] # Absent /\ table'[c.key] = mergeHold(s[c.key], c)
           \/ table'[c.key] = [reason |-> c.reason, until |-> c.until, updated |-> c.stamp]
    BY <1>8, <2>1, MarkEffect
  <2> HIDE DEF c, s
  <2>5. /\ table'[c.key] \in Entries
        /\ table'[c.key].until <= now + MaxHorizon
        /\ table'[c.key].reason = "shared_credits_exhausted" <=> c.key[2] = NoModel
    <3>1. CASE table'[c.key] = [reason |-> c.reason, until |-> c.until, updated |-> c.stamp]
      BY <2>1, <3>1 DEF Entries
    <3>2. CASE s[c.key] # Absent /\ table'[c.key] = mergeHold(s[c.key], c)
      <4>1. s[c.key] = table[c.key] /\ s[c.key] \in Entries
        BY <2>1, <2>4, <3>2
      <4>2. s[c.key].until \in Nat /\ s[c.key].until <= now + MaxHorizon
        BY <2>1, <3>2, <4>1 DEF HoldBounded, Present, Entries
      <4>3. s[c.key].reason = "shared_credits_exhausted" <=> c.key[2] = NoModel
        BY <2>1, <3>2, <4>1 DEF AccountHoldProven, Present, Keys
      <4> QED
        BY <2>1, <3>2, <4>1, <4>2, <4>3, MergeKeepsStronger
    <3> QED
      BY <2>4, <3>1, <3>2
  <2>6. HoldBounded'
    <3> SUFFICES ASSUME NEW k \in Keys, table'[k] # Absent
                 PROVE  table'[k].until <= now + MaxHorizon
      BY <2>2 DEF HoldBounded, Present
    <3> QED
      BY <2>4, <2>5 DEF HoldBounded, Present
  <2>7. AccountHoldProven'
    <3> SUFFICES ASSUME NEW a \in Auths, NEW m \in Models \cup {NoModel},
                        table'[<<a, m>>] # Absent
                 PROVE  m = NoModel <=> table'[<<a, m>>].reason = "shared_credits_exhausted"
      BY DEF AccountHoldProven, Present
    <3>1. <<a, m>> \in Keys /\ <<a, m>>[2] = m
      BY DEF Keys
    <3> QED
      BY <2>4, <2>5, <3>1 DEF AccountHoldProven, Present
  <2> QED
    BY <2>3, <2>6, <2>7
<1>9. ASSUME NEW q \in Queries, NEW a \in Auths, QueryCredits(q, a)
      PROVE  PendingProven' /\ HoldBounded' /\ AccountHoldProven'
  BY <1>9 DEF QueryCredits, PendingProven, HoldBounded, AccountHoldProven, Present
<1>10. ASSUME NEW q \in Queries, observeQuotaCredits(q)
       PROVE  PendingProven' /\ HoldBounded' /\ AccountHoldProven'
  <2>1. now' = now /\ req' = req /\ \A k \in Keys : table'[k] \in {table[k], Absent}
    BY <1>10, WithoutEntries DEF observeQuotaCredits, TypeOK
  <2> QED
    BY <2>1, DeletionSafe DEF TypeOK, PendingProven
<1>11. ASSUME NEW a \in Auths, NEW m \in Models \cup {NoModel},
              clearModelCooldown(a, m) \/ coolingModelSetFor(a)
       PROVE  PendingProven' /\ HoldBounded' /\ AccountHoldProven'
  <2>1. now' = now /\ req' = req /\ \A k \in Keys : table'[k] \in {table[k], Absent}
    BY <1>11, WithoutEntries DEF clearModelCooldown, coolingModelSetFor, TypeOK
  <2> QED
    BY <2>1, DeletionSafe DEF TypeOK, PendingProven
<1>12. CASE UNCHANGED vars
  BY <1>12 DEF vars, PendingProven, HoldBounded, AccountHoldProven, Present
<1> QED
  BY <1>1, <1>2, <1>3, <1>4, <1>5, <1>6, <1>7, <1>8, <1>9, <1>10, <1>11, <1>12 DEF Next

\* At start the table is empty and no call is under way.
LEMMA HoldInvInit == Init => HoldInv
<1> SUFFICES ASSUME Init
             PROVE  HoldInv
  OBVIOUS
<1>1. TypeOK
  BY DEF Init, TypeOK, IdleReq, IdleQry, PendingReq, PendingQry
<1>2. \A k \in Keys : table[k] = Absent
  BY DEF Init
<1>3. HoldBounded /\ AccountHoldProven
  BY <1>2 DEF HoldBounded, AccountHoldProven, Present, Keys
<1>4. PendingProven
  BY DEF Init, PendingProven, IdleReq
<1> QED
  BY <1>1, <1>3, <1>4 DEF HoldInv

\* The strengthened invariant holds throughout.
THEOREM HoldInvariant == Spec => []HoldInv
<1>1. HoldInv /\ TypeOK' /\ [Next]_vars => HoldInv'
  BY HoldInvStep
<1> QED
  BY <1>1, HoldInvInit, TypeCorrect, PTL DEF Spec

\* No sequence of re-marks freezes a key beyond quotaMaxHorizon from the present
\* instant, whatever hints arrive and in whatever order calls get the mutex.
THEOREM HoldsBounded == Spec => []HoldBounded
<1>1. HoldInv => HoldBounded
  BY DEF HoldInv
<1> QED
  BY <1>1, HoldInvariant, PTL

\* An account-wide hold always stands for exhausted shared credits, and such an
\* exhaustion never lands on a single model (the scope rules of markQuotaFreeze).
THEOREM AccountHoldsProven == Spec => []AccountHoldProven
<1>1. HoldInv => AccountHoldProven
  BY DEF HoldInv
<1> QED
  BY <1>1, HoldInvariant, PTL

-----------------------------------------------------------------------------
(***************************************************************************)
(* The size of the table.                                                  *)
(***************************************************************************)

\* Deleting entries never makes the table larger.
LEMMA DeletionShrinks ==
    ASSUME TypeOK, TypeOK', TableBounded,
           \A k \in Keys : table'[k] \in {table[k], Absent}
    PROVE  TableBounded'
<1>1. PresentKeys(table') \subseteq PresentKeys(table)
  BY DEF PresentKeys
<1>2. IsFiniteSet(PresentKeys(table))
  BY KeysFinite, FS_Subset DEF PresentKeys
<1>3. /\ Cardinality(PresentKeys(table')) <= Cardinality(PresentKeys(table))
      /\ Cardinality(PresentKeys(table)) \in Nat /\ Cardinality(PresentKeys(table')) \in Nat
  BY <1>1, <1>2, FS_Subset, FS_CardinalityType
<1> QED
  BY <1>3, QuotaConstants DEF TableBounded

\* Marking either finds the key, finds room, or evicts one entry for it.
LEMMA MarkBounded ==
    ASSUME TypeOK, TypeOK', TableBounded, NEW r \in Requests, Mark(r)
    PROVE  TableBounded'
<1> DEFINE c == req[r]
           s == Swept(c.stamp)
           S == PresentKeys(s)
           T == PresentKeys(table')
<1>1. c.key \in Keys /\ s \in [Keys -> Entries \cup {Absent}]
  BY MarkEffect
<1>2. \A k \in Keys : s[k] \in {table[k], Absent}
  BY MarkEffect
<1>3. S \subseteq PresentKeys(table)
  BY <1>2 DEF PresentKeys
<1>4. IsFiniteSet(PresentKeys(table)) /\ IsFiniteSet(S) /\ IsFiniteSet(T)
  BY KeysFinite, FS_Subset DEF PresentKeys
<1>5. /\ Cardinality(S) \in Nat /\ Cardinality(T) \in Nat /\ MaxEntries \in Nat
      /\ Cardinality(S) <= MaxEntries
  <2>1. /\ Cardinality(S) <= Cardinality(PresentKeys(table))
        /\ Cardinality(S) \in Nat /\ Cardinality(T) \in Nat
        /\ Cardinality(PresentKeys(table)) \in Nat
    BY <1>3, <1>4, FS_Subset, FS_CardinalityType
  <2> QED
    BY <2>1, QuotaConstants DEF TableBounded
<1>6. T \subseteq S \cup {c.key}
  BY MarkEffect DEF PresentKeys
<1>7. CASE s[c.key] # Absent
  <2>1. T \subseteq S
    BY <1>1, <1>6, <1>7 DEF PresentKeys
  <2>2. Cardinality(T) <= Cardinality(S)
    BY <2>1, <1>4, FS_Subset
  <2> QED
    BY <2>2, <1>5 DEF TableBounded
<1>8. CASE s[c.key] = Absent /\ Cardinality(S) < MaxEntries
  <2>3. c.key \notin S
    BY <1>8 DEF PresentKeys
  <2>1. /\ IsFiniteSet(S \cup {c.key})
        /\ Cardinality(S \cup {c.key}) = Cardinality(S) + 1
    BY <1>4, <2>3, FS_AddElement
  <2>2. Cardinality(T) <= Cardinality(S \cup {c.key})
    BY <2>1, <1>6, FS_Subset
  <2> QED
    BY <2>1, <2>2, <1>5, <1>8 DEF TableBounded
<1>9. ASSUME NEW o \in S, c.key \notin S, T \subseteq (S \ {o}) \cup {c.key}
      PROVE  TableBounded'
  <2>1. /\ IsFiniteSet(S \ {o}) /\ Cardinality(S \ {o}) = Cardinality(S) - 1
    BY <1>4, <1>9, FS_RemoveElement
  <2>2. /\ IsFiniteSet((S \ {o}) \cup {c.key})
        /\ Cardinality((S \ {o}) \cup {c.key}) = Cardinality(S \ {o}) + 1
    BY <2>1, <1>9, FS_AddElement
  <2>3. Cardinality(T) <= Cardinality((S \ {o}) \cup {c.key})
    BY <2>2, <1>9, FS_Subset
  <2> QED
    BY <2>1, <2>2, <2>3, <1>5 DEF TableBounded
<1>10. CASE s[c.key] = Absent /\ ~(Cardinality(S) < MaxEntries)
  <2>1. PICK o \in EarliestOf(s) :
            table' = [k \in Keys |-> IF k = c.key THEN [reason |-> c.reason, until |-> c.until,
                                                       updated |-> c.stamp]
                                   ELSE IF k = o THEN Absent ELSE s[k]]
    BY <1>10, MarkEffect
  <2>2. o \in S /\ c.key \notin S
    BY <1>10 DEF EarliestOf, PresentKeys
  <2>3. T \subseteq (S \ {o}) \cup {c.key}
    BY <2>1 DEF PresentKeys
  <2> QED
    BY <2>2, <2>3, <1>9
<1> QED
  BY <1>7, <1>8, <1>10

\* The table never outgrows modelCooldownMaxEntries.
THEOREM TableStaysBounded == Spec => []TableBounded
<1>1. Init => TableBounded
  <2> SUFFICES ASSUME Init
               PROVE  TableBounded
    OBVIOUS
  <2>1. PresentKeys(table) = {}
    BY DEF Init, PresentKeys
  <2> QED
    BY <2>1, FS_EmptySet, QuotaConstants DEF TableBounded
<1>2. TypeOK /\ TypeOK' /\ TableBounded /\ [Next]_vars => TableBounded'
  <2> SUFFICES ASSUME TypeOK, TypeOK', TableBounded, [Next]_vars
               PROVE  TableBounded'
    OBVIOUS
  <2>1. ASSUME NEW r \in Requests, Mark(r)
        PROVE  TableBounded'
    BY <2>1, MarkBounded
  <2>2. ASSUME NEW r \in Requests, NEW a \in Auths, NEW m \in Models \cup {NoModel},
               Admit(r, a, m) \/ ExecutorHTTP(r, a, m)
        PROVE  \A k \in Keys : table'[k] \in {table[k], Absent}
    BY <2>2, WithoutEntries DEF Admit, ExecutorHTTP, afterLookup, TypeOK
  <2>3. ASSUME NEW r \in Requests, Dispatch(r)
        PROVE  \A k \in Keys : table'[k] \in {table[k], Absent}
    BY <2>3, WithoutEntries DEF Dispatch, afterLookup, TypeOK
  <2>4. ASSUME NEW q \in Queries, observeQuotaCredits(q)
        PROVE  \A k \in Keys : table'[k] \in {table[k], Absent}
    BY <2>4, WithoutEntries DEF observeQuotaCredits, TypeOK
  <2>5. ASSUME NEW a \in Auths, NEW m \in Models \cup {NoModel},
               clearModelCooldown(a, m) \/ coolingModelSetFor(a)
        PROVE  \A k \in Keys : table'[k] \in {table[k], Absent}
    BY <2>5, WithoutEntries DEF clearModelCooldown, coolingModelSetFor, TypeOK
  <2>6. CASE \/ Tick \/ UNCHANGED vars
             \/ \E a \in Auths : UpstreamBalance(a)
             \/ \E r \in Requests : AnswerOther(r) \/ Stamp(r)
             \/ \E r \in Requests, f \in Failures, h \in 0..(MaxHorizon + 1) :
                   AnswerFailure(r, f, h)
             \/ \E q \in Queries, a \in Auths : QueryCredits(q, a)
    BY <2>6 DEF Tick, vars, UpstreamBalance, AnswerOther, Stamp, AnswerFailure, QueryCredits,
                TableBounded
  <2> QED
    BY <2>1, <2>2, <2>3, <2>4, <2>5, <2>6, DeletionShrinks DEF Next
<1> QED
  BY <1>1, <1>2, TypeCorrect, PTL DEF Spec

-----------------------------------------------------------------------------
(***************************************************************************)
(* Action properties.                                                      *)
(***************************************************************************)

\* A re-mark never shortens a live hold and never weakens its reason.  The stamp
\* of a marking call is not in the future, so the sweep before the merge cannot
\* drop a hold that is still live: that is what HoldInv is needed for.
THEOREM HoldsNeverWeakened == Spec => HoldNeverWeakened
<1> DEFINE Kept(k) ==
      Active(k) /\ table'[k] # Absent =>
          /\ table'[k].until >= table[k].until
          /\ quotaReasonStrength(table'[k].reason) >= quotaReasonStrength(table[k].reason)
<1>1. ASSUME HoldInv, [Next]_vars, NEW k \in Keys
      PROVE  Kept(k)
  <2> USE <1>1 DEF HoldInv
  <2> SUFFICES ASSUME Active(k), table'[k] # Absent
               PROVE  /\ table'[k].until >= table[k].until
                      /\ quotaReasonStrength(table'[k].reason)
                            >= quotaReasonStrength(table[k].reason)
    OBVIOUS
  <2>1. /\ table[k] \in Entries /\ table[k].until \in Nat
        /\ quotaReasonStrength(table[k].reason) \in Nat
    BY DEF TypeOK, Active, Present, Entries, quotaReasonStrength
  <2>2. ASSUME table'[k] \in {table[k], Absent}
        PROVE  /\ table'[k].until >= table[k].until
               /\ quotaReasonStrength(table'[k].reason)
                     >= quotaReasonStrength(table[k].reason)
    BY <2>1, <2>2
  <2>3. ASSUME NEW r \in Requests, Mark(r)
        PROVE  /\ table'[k].until >= table[k].until
               /\ quotaReasonStrength(table'[k].reason)
                     >= quotaReasonStrength(table[k].reason)
    <3> DEFINE c == req[r]
               s == Swept(c.stamp)
    <3>1. /\ c \in [pc: {"stamped"}, key: Keys, reason: Reasons, stamp: Nat, until: Nat]
          /\ c.stamp \in Nat /\ c.stamp <= now
      BY <2>3, MarkEffect DEF Mark, PendingProven
    <3>2. /\ s \in [Keys -> Entries \cup {Absent}]
          /\ s[k] = IF Present(k) /\ table[k].until <= c.stamp THEN Absent ELSE table[k]
      BY <2>3, MarkEffect
    <3>6. /\ s[c.key] # Absent => table'[c.key] = mergeHold(s[c.key], c)
          /\ k # c.key => table'[k] \in {s[k], Absent}
      BY <2>3, <3>1, MarkEffect
    <3> HIDE DEF c, s
    <3>3. s[k] = table[k] /\ s[k] # Absent
      BY <2>1, <3>1, <3>2 DEF Active, Present, TypeOK
    <3>4. CASE k # c.key
      BY <2>2, <3>3, <3>4, <3>6
    <3>5. CASE k = c.key
      BY <2>1, <3>1, <3>2, <3>3, <3>5, <3>6, MergeKeepsStronger
    <3> QED
      BY <3>4, <3>5
  <2>4. ASSUME NEW r \in Requests, NEW a \in Auths, NEW m \in Models \cup {NoModel},
               Admit(r, a, m) \/ ExecutorHTTP(r, a, m) \/ Dispatch(r)
        PROVE  table'[k] \in {table[k], Absent}
    BY <2>4, WithoutEntries DEF Admit, ExecutorHTTP, Dispatch, afterLookup, TypeOK
  <2>5. ASSUME NEW q \in Queries, observeQuotaCredits(q)
        PROVE  table'[k] \in {table[k], Absent}
    BY <2>5, WithoutEntries DEF observeQuotaCredits, TypeOK
  <2>6. ASSUME NEW a \in Auths, NEW m \in Models \cup {NoModel},
               clearModelCooldown(a, m) \/ coolingModelSetFor(a)
        PROVE  table'[k] \in {table[k], Absent}
    BY <2>6, WithoutEntries DEF clearModelCooldown, coolingModelSetFor, TypeOK
  <2>7. ASSUME NEW r \in Requests, Dispatch(r)
        PROVE  table'[k] \in {table[k], Absent}
    BY <2>7, WithoutEntries DEF Dispatch, afterLookup, TypeOK
  <2>8. CASE \/ Tick \/ UNCHANGED vars
             \/ \E a \in Auths : UpstreamBalance(a)
             \/ \E r \in Requests : AnswerOther(r) \/ Stamp(r)
             \/ \E r \in Requests, f \in Failures, h \in 0..(MaxHorizon + 1) :
                   AnswerFailure(r, f, h)
             \/ \E q \in Queries, a \in Auths : QueryCredits(q, a)
    BY <2>2, <2>8 DEF Tick, vars, UpstreamBalance, AnswerOther, Stamp, AnswerFailure,
                      QueryCredits
  <2> QED
    BY <2>2, <2>3, <2>4, <2>5, <2>6, <2>7, <2>8 DEF Next
<1>2. HoldInv /\ [Next]_vars => [\A k \in Keys : Kept(k)]_vars
  BY <1>1
<1>3. Spec => [][\A k \in Keys : Kept(k)]_vars
  BY <1>2, HoldInvariant, PTL DEF Spec
<1> QED
  BY <1>3 DEF HoldNeverWeakened

\* The table as its readers rely on it: typed, within its limit, and no key frozen
\* beyond the horizon (markQuotaFreeze).
THEOREM TableTheorem == Spec => []TableSound
  BY TypeCorrect, TableStaysBounded, HoldsBounded, PTL DEF TableSound

\* No call is sent into a hold that exists at that moment: the guard in front of
\* host.http.do_stream and the sending are one step.
THEOREM NoDispatch == Spec => NoDispatchIntoHold
<1> DEFINE Guarded ==
      \A r \in Requests :
          req[r].pc # "sent" /\ req'[r].pc = "sent" =>
              ~Held(req'[r].auth, req'[r].model)
<1>1. TypeOK /\ [Next]_vars => Guarded
  <2> SUFFICES ASSUME TypeOK, [Next]_vars, NEW r \in Requests,
                      req[r].pc # "sent", req'[r].pc = "sent"
               PROVE  ~Held(req'[r].auth, req'[r].model)
    OBVIOUS
  <2>1. ASSUME NEW p \in Requests, Dispatch(p)
        PROVE  ~Held(req'[r].auth, req'[r].model)
    BY <2>1 DEF Dispatch, TypeOK, IdleReq
  <2>2. ASSUME NEW p \in Requests, NEW a \in Auths, NEW m \in Models \cup {NoModel},
               ExecutorHTTP(p, a, m)
        PROVE  ~Held(req'[r].auth, req'[r].model)
    BY <2>2 DEF ExecutorHTTP, TypeOK
  <2>3. ASSUME NEW p \in Requests, NEW a \in Auths, NEW m \in Models, Admit(p, a, m)
        PROVE  FALSE
    BY <2>3 DEF Admit, TypeOK
  <2>4. ASSUME NEW p \in Requests, AnswerOther(p) \/ Stamp(p) \/ Mark(p)
        PROVE  FALSE
    BY <2>4 DEF AnswerOther, Stamp, Mark, TypeOK, IdleReq
  <2>5. ASSUME NEW p \in Requests, NEW f \in Failures, NEW h \in 0..(MaxHorizon + 1),
               AnswerFailure(p, f, h)
        PROVE  FALSE
    BY <2>5 DEF AnswerFailure, TypeOK
  <2>6. req' # req
    OBVIOUS
  <2> QED
    BY <2>1, <2>2, <2>3, <2>4, <2>5, <2>6
       DEF Next, vars, Tick, UpstreamBalance, QueryCredits, observeQuotaCredits,
           clearModelCooldown, coolingModelSetFor
<1>2. Spec => [][Guarded]_vars
  BY <1>1, TypeCorrect, PTL DEF Spec
<1> QED
  BY <1>2 DEF NoDispatchIntoHold

-----------------------------------------------------------------------------
(***************************************************************************)
(* Why live holds disappear.                                               *)
(***************************************************************************)

\* A mark whose stamp is not in the future drops a live hold only when the table is
\* full, and then no live hold expires earlier: what the sweep left of the table
\* holds every live one, the candidate for eviction is the earliest of them.
LEMMA MarkLoses ==
    ASSUME HoldInv, NEW r \in Requests, Mark(r), NEW k \in Keys,
           Active(k), table'[k] = Absent
    PROVE  Crowded(k)
<1> DEFINE c == req[r]
           s == Swept(c.stamp)
           fresh == [reason |-> c.reason, until |-> c.until, updated |-> c.stamp]
<1>0. TypeOK
  BY DEF HoldInv
<1>1. /\ c \in [pc: {"stamped"}, key: Keys, reason: Reasons, stamp: Nat, until: Nat]
      /\ c.stamp \in Nat /\ c.stamp <= now /\ now \in Nat
  BY <1>0, MarkEffect DEF Mark, HoldInv, PendingProven, TypeOK
<1>2. /\ s \in [Keys -> Entries \cup {Absent}]
      /\ \A j \in Keys : s[j] = IF Present(j) /\ table[j].until <= c.stamp
                               THEN Absent ELSE table[j]
  BY <1>0, MarkEffect
<1>3. /\ s[c.key] # Absent => table'[c.key] = mergeHold(s[c.key], c)
      /\ s[c.key] = Absent => table'[c.key] = fresh
  BY <1>0, MarkEffect
<1>4. \/ /\ s[c.key] # Absent
         /\ table' = [s EXCEPT ![c.key] = mergeHold(s[c.key], c)]
      \/ /\ s[c.key] = Absent
         /\ table' = [s EXCEPT ![c.key] = fresh]
      \/ /\ Cardinality(PresentKeys(s)) >= MaxEntries
         /\ \E o \in EarliestOf(s) :
               table' = [j \in Keys |-> IF j = c.key THEN fresh
                                      ELSE IF j = o THEN Absent ELSE s[j]]
  BY <1>0, MarkEffect
<1>5. fresh \in Entries
  BY <1>1 DEF Entries
<1> HIDE DEF c, s, fresh
<1>6. ASSUME NEW j \in Keys, Active(j)
      PROVE  s[j] = table[j] /\ s[j] # Absent /\ table[j].until \in Nat
  <2>1. table[j] \in Entries /\ table[j].until > now /\ table[j] # Absent
    BY <1>0, <1>6 DEF TypeOK, Active, Present
  <2>2. table[j].until \in Nat /\ ~(table[j].until <= c.stamp)
    BY <1>1, <2>1 DEF Entries
  <2> QED
    BY <1>2, <2>1, <2>2
<1>7. k # c.key
  <2>1. SUFFICES ASSUME k = c.key PROVE table'[k] # Absent
    OBVIOUS
  <2>2. s[k] \in Entries /\ s[k] # Absent
    BY <1>2, <1>6
  <2>3. mergeHold(s[k], c) \in Entries
    BY <1>1, <2>2, MergeKeepsStronger
  <2> QED
    BY <1>3, <2>1, <2>2, <2>3, AbsentIsNoEntry
<1>8. PICK o \in EarliestOf(s) :
         /\ Cardinality(PresentKeys(s)) >= MaxEntries
         /\ table' = [j \in Keys |-> IF j = c.key THEN fresh
                                   ELSE IF j = o THEN Absent ELSE s[j]]
  <2>1. s[k] # Absent
    BY <1>6
  <2> QED
    BY <1>2, <1>4, <1>7, <2>1
<1>9. k = o
  BY <1>6, <1>7, <1>8
<1>10. \A j \in Keys : Active(j) => table[k].until <= table[j].until
  BY <1>6, <1>8, <1>9 DEF EarliestOf, PresentKeys
<1>11. Cardinality(PresentKeys(table)) >= MaxEntries
  <2>1. PresentKeys(s) \subseteq PresentKeys(table)
    BY <1>2 DEF PresentKeys
  <2>2. IsFiniteSet(PresentKeys(table)) /\ IsFiniteSet(PresentKeys(s))
    BY KeysFinite, FS_Subset DEF PresentKeys
  <2>3. /\ Cardinality(PresentKeys(s)) <= Cardinality(PresentKeys(table))
        /\ Cardinality(PresentKeys(s)) \in Nat /\ Cardinality(PresentKeys(table)) \in Nat
    BY <2>1, <2>2, FS_Subset, FS_CardinalityType
  <2> QED
    BY <1>8, <2>3, QuotaConstants
<1> QED
  BY <1>10, <1>11 DEF Crowded

\* A live hold is lost only to the operator, to a positive balance that billing has
\* shown for the account, or to a full table of holds that last at least as long:
\* never to a lookup, a sweep with an old clock reading or another key's mark
\* (markQuotaFreeze, observeQuotaCredits, quotaFreezeFor).
THEOREM HoldsLostJustified == Spec => HoldLossJustified
<1>1. ASSUME HoldInv, [Next]_vars, NEW k \in Keys, Active(k), table'[k] = Absent
      PROVE  Cleared(k) \/ ShownPositive(k) \/ Crowded(k)
  <2>0. /\ TypeOK /\ table[k] # Absent
        /\ table \in [Keys -> Entries \cup {Absent}]
    BY <1>1 DEF HoldInv, TypeOK, Active, Present
  <2>1. ASSUME NEW r \in Requests, NEW a \in Auths, NEW m \in Models \cup {NoModel},
               Admit(r, a, m) \/ ExecutorHTTP(r, a, m)
        PROVE  FALSE
    <3>1. table' = afterLookup(a, m)
      BY <2>1 DEF Admit, ExecutorHTTP
    <3> QED
      BY <1>1, <2>0, <3>1, WithoutEntries DEF afterLookup
  <2>2. ASSUME NEW r \in Requests, Dispatch(r) PROVE FALSE
    <3>1. PICK b, l : table' = afterLookup(b, l)
      BY <2>2 DEF Dispatch
    <3> QED
      BY <1>1, <2>0, <3>1, WithoutEntries DEF afterLookup
  <2>3. ASSUME NEW r \in Requests, Mark(r) PROVE Crowded(k)
    BY <1>1, <2>3, MarkLoses
  <2>4. ASSUME NEW q \in Queries, observeQuotaCredits(q) PROVE ShownPositive(k)
    <3>1. /\ qry[q].pc = "answered" /\ qry' = [qry EXCEPT ![q] = IdleQry]
          /\ \/ table' = table
             \/ /\ qry[q].positive
                /\ table' = Without(table, {<<qry[q].auth, NoModel>>})
      BY <2>4 DEF observeQuotaCredits
    <3>2. qry'[q].pc = "idle"
      BY <2>0, <3>1 DEF TypeOK, IdleQry
    <3>3. qry[q].positive /\ k = <<qry[q].auth, NoModel>>
      BY <1>1, <2>0, <3>1, WithoutEntries
    <3> QED
      BY <3>1, <3>2, <3>3 DEF ShownPositive
  <2>5. ASSUME NEW a \in Auths, NEW m \in Models \cup {NoModel}, clearModelCooldown(a, m)
        PROVE  Cleared(k)
    <3>1. k \in (IF m = NoModel THEN {j \in Keys : j[1] = a} ELSE {<<a, m>>})
      BY <1>1, <2>0, <2>5, WithoutEntries DEF clearModelCooldown
    <3>2. k[1] = a /\ m \in {k[2], NoModel}
      BY <3>1
    <3> QED
      BY <2>5, <3>2 DEF Cleared
  <2>6. ASSUME NEW a \in Auths, coolingModelSetFor(a) PROVE FALSE
    BY <1>1, <2>0, <2>6, WithoutEntries DEF coolingModelSetFor
  <2>7. CASE \/ Tick \/ UNCHANGED vars
             \/ \E a \in Auths : UpstreamBalance(a)
             \/ \E r \in Requests : AnswerOther(r) \/ Stamp(r)
             \/ \E r \in Requests, f \in Failures, h \in 0..(MaxHorizon + 1) :
                   AnswerFailure(r, f, h)
             \/ \E q \in Queries, a \in Auths : QueryCredits(q, a)
    BY <1>1, <2>0, <2>7 DEF Tick, vars, UpstreamBalance, AnswerOther, Stamp, AnswerFailure,
                            QueryCredits
  <2> QED
    BY <1>1, <2>1, <2>2, <2>3, <2>4, <2>5, <2>6, <2>7 DEF Next
<1>2. HoldInv /\ [Next]_vars =>
        [\A k \in Keys :
            Active(k) /\ table'[k] = Absent =>
                Cleared(k) \/ ShownPositive(k) \/ Crowded(k)]_vars
  BY <1>1
<1> QED
  BY <1>2, HoldInvariant, PTL DEF Spec, HoldLossJustified

(***************************************************************************)
(* StreamPump: usage records, error frames, blame and transports fit what  *)
(* the upstream did.  CallInv says what holds of a call at each point of   *)
(* its code; a step changes one call, so it is enough to show CallInv of   *)
(* its next record.                                                        *)
(***************************************************************************)
-----------------------------------------------------------------------------
(* The ways out of a loop.                                                 *)

\* A call that can still fail or succeed: nothing is reported yet.
Leaving(r) ==
    /\ r \in CallType /\ SentBy(r) /\ Fresh(r)
    /\ r.kind \in Kinds

\* One more line: the lines before it keep their places.
LEMMA AppendLine ==
    ASSUME NEW s \in Seq(Lines), NEW l \in Lines
    PROVE  /\ Append(s, l) \in Seq(Lines)
           /\ DOMAIN Append(s, l) = DOMAIN s \cup {Len(s) + 1}
           /\ Append(s, l)[Len(s) + 1] = l
           /\ \A i \in DOMAIN s : Append(s, l)[i] = s[i]
           /\ Len(Append(s, l)) = Len(s) + 1
  OBVIOUS

\* A failed call is in order when its blame is and its stream was not complete.
LEMMA FailKeeps ==
    ASSUME NEW r, Leaving(r), NEW b \in Seq(Faults \cup {"broken"}),
           ~Complete(r),
           BlameOf([r EXCEPT !.blame = b])
    PROVE  CallInv(Fail(r, b))
<1> DEFINE s == Fail(r, b)
           t == [r EXCEPT !.blame = b]
<1>1. r \in CallType /\ SentBy(r) /\ Fresh(r) /\ r.kind \in Kinds
  BY DEF Leaving
<1>2. <<>> \o b = b
  OBVIOUS
<1>3. /\ s.pc = "unwind" /\ s.kind = r.kind /\ s.mode = r.mode /\ s.sent = r.sent
      /\ s.status = r.status /\ s.up = r.up /\ s.end = r.end /\ s.body = r.body
      /\ s.sink = r.sink /\ s.got = r.got /\ s.blame = b
      /\ s.told = IF r.sink = "open" THEN 1 ELSE 0
      /\ s.usage = IF r.kind \in Executor THEN <<"failed">> ELSE <<>>
      /\ s.answer = IF r.kind = "async" THEN r.answer ELSE "error"
  BY <1>1, <1>2 DEF Fail, CallType, tells, publishes, Fresh
<1>4. s \in CallType
  <2>1. /\ Append(r.usage, "failed") \in Seq({"ok", "failed"})
        /\ r.blame \o b = b
        /\ tells(r) \in Nat
    BY <1>1, <1>2 DEF CallType, tells, Fresh
  <2>2. ASSUME NEW u \in Seq({"ok", "failed"}), NEW n \in Nat,
               NEW a \in {"none", "refused", "stream", "error", "ok"}
        PROVE  [r EXCEPT !.pc = "unwind", !.usage = u, !.blame = b, !.told = n, !.answer = a]
                  \in CallType
    BY <1>1 DEF CallType
  <2>3. r.usage \in Seq({"ok", "failed"}) /\ r.answer \in {"none", "refused", "stream", "error", "ok"}
    BY <1>1 DEF CallType
  <2> QED
    BY <2>1, <2>2, <2>3 DEF Fail
<1>5. EventsOf(s) = EventsOf(r) /\ (Faulty(s) <=> Faulty(r))
  BY <1>3 DEF EventsOf, Faulty
<1>6. ~Complete(s)
  BY <1>3, <1>5 DEF Complete
<1>7. SentBy(s)
  BY <1>1, <1>3 DEF SentBy
<1>8. BlameOf(s)
  <2>1. t.kind = r.kind /\ t.status = r.status /\ t.up = r.up /\ t.end = r.end /\ t.blame = b
    BY <1>1 DEF CallType
  <2>2. EventsOf(t) = EventsOf(s) /\ (Faulty(t) <=> Faulty(s))
    BY <2>1, <1>3 DEF EventsOf, Faulty
  <2> QED
    BY <2>1, <2>2, <1>3 DEF BlameOf
<1>9. ASSUME r.kind \in Executor PROVE UsageFits(s) /\ AnswerFits(s)
  <2>1. UsageFits(s)
    BY <1>3, <1>6, <1>9 DEF UsageFits
  <2>2. AnswerFits(s)
    BY <1>1, <1>3, <1>6, <1>9 DEF AnswerFits, Fresh
  <2> QED
    BY <2>1, <2>2
<1> QED
  BY <1>3, <1>4, <1>7, <1>8, <1>9 DEF CallInv

\* A complete stream, all of it handed on, may be reported as one.
LEMMA SucceedKeeps ==
    ASSUME NEW r, Leaving(r), r.mode \in {"inherit", "explicit"},
           r.kind \in Executor => Complete(r) /\ r.got = EventsOf(r),
           BlameOf(r)
    PROVE  CallInv(Succeed(r))
<1> DEFINE s == Succeed(r)
<1>1. r \in CallType /\ SentBy(r) /\ Fresh(r) /\ r.kind \in Kinds
  BY DEF Leaving
<1>3. /\ s.pc = "unwind" /\ s.kind = r.kind /\ s.mode = r.mode /\ s.sent = r.sent
      /\ s.status = r.status /\ s.up = r.up /\ s.end = r.end /\ s.body = r.body
      /\ s.sink = r.sink /\ s.got = r.got /\ s.blame = <<>> /\ s.told = 0
      /\ s.usage = IF r.kind \in Executor THEN <<"ok">> ELSE <<>>
      /\ s.answer = IF r.kind = "async" THEN r.answer ELSE "ok"
  BY <1>1 DEF Succeed, CallType, publishes, Fresh
<1>4. s \in CallType
  <2>1. Append(r.usage, "ok") \in Seq({"ok", "failed"}) /\ r.usage \in Seq({"ok", "failed"})
    BY <1>1 DEF CallType
  <2>2. ASSUME NEW u \in Seq({"ok", "failed"}),
               NEW a \in {"none", "refused", "stream", "error", "ok"}
        PROVE  [r EXCEPT !.pc = "unwind", !.usage = u, !.answer = a] \in CallType
    BY <1>1 DEF CallType
  <2>3. r.answer \in {"none", "refused", "stream", "error", "ok"}
    BY <1>1 DEF CallType
  <2> QED
    BY <2>1, <2>2, <2>3 DEF Succeed
<1>5. EventsOf(s) = EventsOf(r) /\ (Faulty(s) <=> Faulty(r))
  BY <1>3 DEF EventsOf, Faulty
<1>6. r.kind \in Executor => Complete(s) /\ s.got = EventsOf(s)
  BY <1>3, <1>5 DEF Complete
<1>7. SentBy(s)
  BY <1>1, <1>3 DEF SentBy
<1>8. BlameOf(s)
  BY <1>3, <1>5, <1>1 DEF BlameOf, Fresh
<1>9. ASSUME r.kind \in Executor PROVE UsageFits(s) /\ AnswerFits(s)
  BY <1>1, <1>3, <1>6, <1>9 DEF AnswerFits, Fresh, UsageFits
<1> QED
  BY <1>3, <1>4, <1>7, <1>8, <1>9 DEF CallInv

\* The client left: the call failed, although its stream may be complete.
LEMMA AbandonKeeps ==
    ASSUME NEW r, Leaving(r), r.mode \in {"inherit", "explicit"}, r.sink = "gone",
           r.got # EventsOf(r), r.status = "ok", ~Faulty(r)
    PROVE  CallInv(Abandon(r))
<1> DEFINE s == Abandon(r)
<1>1. r \in CallType /\ SentBy(r) /\ Fresh(r) /\ r.kind = "async"
  BY DEF Leaving, Fresh
<1>3. /\ s.pc = "unwind" /\ s.kind = r.kind /\ s.mode = r.mode /\ s.sent = r.sent
      /\ s.status = r.status /\ s.up = r.up /\ s.end = r.end
      /\ s.sink = r.sink /\ s.got = r.got /\ s.blame = <<>>
      /\ s.usage = <<"failed">> /\ s.answer = r.answer
  BY <1>1 DEF Abandon, CallType, Fresh
<1>4. s \in CallType
  <2>1. Append(r.usage, "failed") \in Seq({"ok", "failed"})
    BY <1>1 DEF CallType
  <2> QED
    BY <1>1, <2>1 DEF CallType, Abandon
<1>5. EventsOf(s) = EventsOf(r) /\ (Faulty(s) <=> Faulty(r))
  BY <1>3 DEF EventsOf, Faulty
<1>6. SentBy(s)
  BY <1>1, <1>3 DEF SentBy
<1>7. BlameOf(s)
  BY <1>3, <1>5 DEF BlameOf
<1>8. UsageFits(s) /\ AnswerFits(s)
  BY <1>1, <1>3, <1>5 DEF UsageFits, AnswerFits
<1> QED
  BY <1>3, <1>4, <1>6, <1>7, <1>8 DEF CallInv

-----------------------------------------------------------------------------
(* The steps of one call, one lemma each.                                  *)

LEMMA IdleCall == Idle \in CallType
<1>1. /\ <<>> \in Seq({"bridge", "direct", "proxy"}) /\ <<>> \in Seq(Lines)
      /\ <<>> \in Seq({"ok", "failed"}) /\ <<>> \in Seq(Faults \cup {"broken"})
  OBVIOUS
<1>2. "none" \in Kinds \cup {"none"} /\ "none" \in Modes \cup {"none"} /\ "open" \in Ends
  BY DEF Ends
<1>3. {} \in SUBSET Nat /\ 0 \in Nat
  OBVIOUS
<1> QED
  BY <1>1, <1>2, <1>3 DEF Idle, CallType

LEMMA RefuseKeeps ==
    ASSUME NEW k \in Kinds
    PROVE  CallInv([Idle EXCEPT !.pc = "done", !.kind = k, !.answer = "refused"])
<1> DEFINE s == [Idle EXCEPT !.pc = "done", !.kind = k, !.answer = "refused"]
<1>1. s \in CallType
  BY IdleCall DEF CallType
<1>2. /\ s.pc = "done" /\ s.kind = k /\ s.answer = "refused" /\ s.mode = "none"
      /\ s.sent = <<>> /\ s.status = "none" /\ s.up = <<>> /\ s.sink = "none"
      /\ s.usage = <<>> /\ s.blame = <<>>
  BY DEF Idle
<1>3. ~Faulty(s)
  BY <1>2 DEF Faulty
<1> QED
  BY <1>1, <1>2, <1>3
     DEF CallInv, SentBy, BlameOf, UsageFits, AnswerFits, Complete

LEMMA AdmitKeeps ==
    ASSUME NEW k \in Kinds
    PROVE  CallInv([Idle EXCEPT !.pc = IF k \in Executor THEN "guard" ELSE "route",
                                !.kind = k,
                                !.sink = IF k = "async" THEN "open" ELSE "none",
                                !.answer = IF k = "async" THEN "stream" ELSE "none"])
<1> DEFINE s == [Idle EXCEPT !.pc = IF k \in Executor THEN "guard" ELSE "route",
                             !.kind = k,
                             !.sink = IF k = "async" THEN "open" ELSE "none",
                             !.answer = IF k = "async" THEN "stream" ELSE "none"]
<1>1. s \in CallType
  <2>1. ASSUME NEW p \in {"guard", "route"}, NEW d \in {"open", "none"},
               NEW a \in {"stream", "none"}
        PROVE  [Idle EXCEPT !.pc = p, !.kind = k, !.sink = d, !.answer = a] \in CallType
    BY IdleCall, ZenonT(30) DEF CallType
  <2> QED
    BY <2>1
<1>2. /\ s.pc = (IF k \in Executor THEN "guard" ELSE "route") /\ s.kind = k
      /\ s.sink = (IF k = "async" THEN "open" ELSE "none")
      /\ s.answer = (IF k = "async" THEN "stream" ELSE "none")
      /\ s.mode = "none" /\ s.sent = <<>> /\ s.status = "none" /\ s.up = <<>>
      /\ s.end = "open" /\ s.got = {} /\ s.usage = <<>> /\ s.blame = <<>> /\ s.told = 0
  BY DEF Idle
<1> QED
  BY <1>1, <1>2 DEF CallInv, SentBy, Fresh, Untouched

LEMMA GuardKeeps ==
    ASSUME NEW r, CallInv(r), r.pc = "guard"
    PROVE  /\ CallInv([r EXCEPT !.pc = "route"])
           /\ r.kind = "async" => CallInv([r EXCEPT !.pc = "unwind", !.told = tells(r)])
           /\ r.kind = "sync" => CallInv([Fail(r, <<>>) EXCEPT !.answer = "refused"])
           /\ r.kind = "fold" => CallInv([r EXCEPT !.pc = "unwind", !.answer = "refused"])
<1>1. /\ r \in CallType /\ SentBy(r) /\ Fresh(r) /\ Untouched(r)
      /\ r.kind \in Executor /\ r.mode = "none" /\ r.sent = <<>> /\ r.status = "none"
  BY DEF CallInv
<1>2. ~Faulty(r) /\ ~Complete(r)
  BY <1>1 DEF Faulty, Complete, Untouched
<1>3. CallInv([r EXCEPT !.pc = "route"])
  <2> DEFINE s == [r EXCEPT !.pc = "route"]
  <2>1. s \in CallType
    BY <1>1 DEF CallType
  <2> QED
    BY <1>1, <2>1 DEF CallType, CallInv, SentBy, Fresh, Untouched, Kinds, Executor
<1>4. ASSUME r.kind = "async" PROVE CallInv([r EXCEPT !.pc = "unwind", !.told = tells(r)])
  <2> DEFINE s == [r EXCEPT !.pc = "unwind", !.told = tells(r)]
  <2>1. tells(r) \in Nat /\ (r.sink = "open" => tells(r) = 1)
    BY <1>1 DEF CallType, tells, Fresh
  <2>2. s \in CallType
    BY <1>1, <2>1 DEF CallType
  <2>3. /\ s.pc = "unwind" /\ s.kind = r.kind /\ s.mode = "none" /\ s.sent = <<>>
        /\ s.status = "none" /\ s.up = <<>> /\ s.usage = <<>> /\ s.blame = <<>>
        /\ s.sink = r.sink /\ s.told = tells(r) /\ s.got = {}
    BY <1>1 DEF CallType, Fresh, Untouched
  <2>4. ~Faulty(s) /\ ~Complete(s)
    BY <2>3 DEF Faulty, Complete
  <2> QED
    BY <1>1, <1>4, <2>1, <2>2, <2>3, <2>4 DEF CallInv, SentBy, BlameOf, UsageFits, AnswerFits, Fresh
<1>5. ASSUME r.kind = "sync" PROVE CallInv([Fail(r, <<>>) EXCEPT !.answer = "refused"])
  <2> DEFINE f == Fail(r, <<>>)
             s == [f EXCEPT !.answer = "refused"]
  <2>1. BlameOf([r EXCEPT !.blame = <<>>])
    <3> DEFINE t == [r EXCEPT !.blame = <<>>]
    <3>1. t.status = "none" /\ t.up = <<>> /\ t.blame = <<>>
      BY <1>1 DEF CallType, Untouched
    <3> QED
      BY <3>1 DEF BlameOf, Faulty
  <2>2. CallInv(f)
    <3>1. Leaving(r)
      BY <1>1 DEF Leaving, Kinds, Executor
    <3>2. <<>> \in Seq(Faults \cup {"broken"})
      OBVIOUS
    <3> QED
      BY <1>2, <2>1, <3>1, <3>2, FailKeeps
  <2>3. f.pc = "unwind" /\ f.kind = "sync" /\ f.mode = "none" /\ f.sent = <<>>
    BY <1>1, <1>5 DEF CallType, Fail
  <2>4. s \in CallType
    BY <2>2 DEF CallInv, CallType
  <2>5. /\ s.pc = f.pc /\ s.kind = f.kind /\ s.mode = f.mode /\ s.sent = f.sent
        /\ s.status = f.status /\ s.up = f.up /\ s.end = f.end /\ s.got = f.got
        /\ s.usage = f.usage /\ s.blame = f.blame /\ s.answer = "refused"
    BY <2>2 DEF CallInv, CallType
  <2>6. EventsOf(s) = EventsOf(f) /\ (Faulty(s) <=> Faulty(f)) /\ (Complete(s) <=> Complete(f))
    BY <2>5 DEF EventsOf, Faulty, Complete
  <2>7. ~Complete(f)
    BY <1>1, <1>5 DEF Complete, Fail, CallType
  <2>8. BlameOf(s) /\ UsageFits(s) /\ AnswerFits(s)
    BY <2>2, <2>3, <2>5, <2>6, <2>7
       DEF CallInv, BlameOf, UsageFits, AnswerFits, Executor
  <2> QED
    BY <2>3, <2>4, <2>5, <2>8 DEF CallInv, SentBy
<1>6. ASSUME r.kind = "fold" PROVE CallInv([r EXCEPT !.pc = "unwind", !.answer = "refused"])
  <2> DEFINE s == [r EXCEPT !.pc = "unwind", !.answer = "refused"]
  <2>2. s \in CallType
    BY <1>1 DEF CallType
  <2>3. /\ s.pc = "unwind" /\ s.kind = "fold" /\ s.mode = "none" /\ s.sent = <<>>
        /\ s.status = "none" /\ s.up = <<>> /\ s.usage = <<>> /\ s.blame = <<>>
        /\ s.answer = "refused"
    BY <1>1, <1>6 DEF CallType, Fresh, Untouched
  <2>4. ~Faulty(s) /\ ~Complete(s)
    BY <2>3 DEF Faulty, Complete
  <2> QED
    BY <2>2, <2>3, <2>4 DEF CallInv, SentBy, BlameOf, UsageFits, AnswerFits
<1> QED
  BY <1>3, <1>4, <1>5, <1>6

LEMMA RouteKeeps ==
    ASSUME NEW r, CallInv(r), r.pc = "route", NEW m \in Modes
    PROVE  /\ m = "blocked" => CallInv(Fail([r EXCEPT !.mode = m], <<>>))
           /\ m # "blocked" => CallInv([r EXCEPT !.pc = "send", !.mode = m])
<1>1. /\ r \in CallType /\ Fresh(r) /\ Untouched(r) /\ r.kind \in Kinds
      /\ r.sent = <<>> /\ r.status = "none"
  BY DEF CallInv
<1>2. ASSUME m = "blocked" PROVE CallInv(Fail([r EXCEPT !.mode = m], <<>>))
  <2> DEFINE t == [r EXCEPT !.mode = m]
             u == [t EXCEPT !.blame = <<>>]
  <2>1. t \in CallType
    BY <1>1 DEF CallType
  <2>2. /\ t.mode = m /\ t.kind = r.kind /\ t.sent = <<>> /\ t.status = "none" /\ t.up = <<>>
        /\ t.usage = r.usage /\ t.blame = r.blame /\ t.told = r.told /\ t.answer = r.answer
        /\ t.sink = r.sink
    BY <1>1 DEF CallType, Untouched
  <2>3. u.status = "none" /\ u.up = <<>> /\ u.blame = <<>>
    BY <2>1, <2>2 DEF CallType
  <2>4. Leaving(t) /\ ~Complete(t) /\ BlameOf(u)
    BY <1>1, <1>2, <2>1, <2>2, <2>3
       DEF Leaving, Fresh, SentBy, Complete, BlameOf, Faulty
  <2>5. <<>> \in Seq(Faults \cup {"broken"})
    OBVIOUS
  <2> QED
    BY <2>4, <2>5, FailKeeps
<1>3. ASSUME m # "blocked" PROVE CallInv([r EXCEPT !.pc = "send", !.mode = m])
  <2> DEFINE t == [r EXCEPT !.pc = "send", !.mode = m]
  <2>1. t \in CallType
    BY <1>1 DEF CallType
  <2>2. /\ t.pc = "send" /\ t.mode = m /\ t.kind = r.kind /\ t.sent = <<>>
        /\ t.status = "none" /\ t.up = r.up /\ t.end = r.end /\ t.got = r.got
        /\ t.usage = r.usage /\ t.blame = r.blame /\ t.told = r.told /\ t.answer = r.answer
        /\ t.sink = r.sink
    BY <1>1 DEF CallType
  <2> QED
    BY <1>1, <1>3, <2>1, <2>2 DEF CallInv, SentBy, Fresh, Untouched, Modes
<1> QED
  BY <1>2, <1>3

\* What a call is once its request has been handed to a transport.
LEMMA HandedOver ==
    ASSUME NEW r, CallInv(r), r.pc = "send"
    PROVE  LET h == Handed(r) IN
           /\ h \in CallType /\ SentBy(h) /\ Fresh(h) /\ Untouched(h)
           /\ h.pc = "send" /\ h.kind = r.kind /\ h.kind \in Kinds /\ h.mode = r.mode
           /\ h.mode \in {"inherit", "explicit"} /\ h.status = "none"
           /\ h.body = r.body
<1> DEFINE h == Handed(r)
<1>1. /\ r \in CallType /\ Fresh(r) /\ Untouched(r) /\ r.kind \in Kinds
      /\ r.sent = <<>> /\ r.status = "none" /\ r.mode \in {"inherit", "explicit"}
  BY DEF CallInv
<1>2. /\ Transport(r) \in {"bridge", "direct", "proxy"}
      /\ r.mode = "explicit" <=> Transport(r) = "proxy"
  BY <1>1 DEF Transport, Inherited
<1>3. Append(r.sent, Transport(r)) = <<Transport(r)>>
  BY <1>1
<1>4. <<Transport(r)>> \in Seq({"bridge", "direct", "proxy"})
  BY <1>2
<1>5. h = [r EXCEPT !.sent = <<Transport(r)>>]
  BY <1>3 DEF Handed
<1>6. h \in CallType
  BY <1>1, <1>4, <1>5 DEF CallType
<1>7. /\ h.sent = <<Transport(r)>> /\ h.pc = r.pc /\ h.kind = r.kind /\ h.mode = r.mode
      /\ h.status = r.status /\ h.body = r.body
      /\ h.up = r.up /\ h.end = r.end /\ h.got = r.got /\ h.usage = r.usage
      /\ h.blame = r.blame /\ h.told = r.told /\ h.answer = r.answer /\ h.sink = r.sink
  BY <1>1, <1>5 DEF CallType
<1>8. SentBy(h)
  BY <1>1, <1>2, <1>7 DEF SentBy, Fresh
<1> QED
  BY <1>1, <1>6, <1>7, <1>8 DEF Fresh, Untouched

LEMMA SendFailsKeeps ==
    ASSUME NEW r, CallInv(r), r.pc = "send"
    PROVE  CallInv(Fail(Handed(r), <<>>))
<1> DEFINE h == Handed(r)
           u == [h EXCEPT !.blame = <<>>]
<1>1. /\ h \in CallType /\ SentBy(h) /\ Fresh(h) /\ Untouched(h)
      /\ h.kind \in Kinds /\ h.status = "none"
  BY HandedOver
<1>2. u.status = "none" /\ u.up = <<>> /\ u.blame = <<>>
  BY <1>1 DEF CallType, Untouched
<1>3. Leaving(h) /\ ~Complete(h) /\ BlameOf(u)
  BY <1>1, <1>2 DEF Leaving, Complete, BlameOf, Faulty
<1>4. <<>> \in Seq(Faults \cup {"broken"})
  OBVIOUS
<1> QED
  BY <1>3, <1>4, FailKeeps

LEMMA OpenedKeeps ==
    ASSUME NEW r, CallInv(r), r.pc = "send", r.kind \in Executor,
           NEW status \in {"ok", "bad"}
    PROVE  CallInv([Handed(r) EXCEPT !.pc = IF status = "ok" THEN "read" ELSE "refusal",
                                     !.status = status, !.body = "open"])
<1> DEFINE h == Handed(r)
           p == IF status = "ok" THEN "read" ELSE "refusal"
           s == [h EXCEPT !.pc = p, !.status = status, !.body = "open"]
<1>1. /\ h \in CallType /\ SentBy(h) /\ Fresh(h) /\ Untouched(h)
      /\ h.kind \in Executor /\ h.mode \in {"inherit", "explicit"}
  BY HandedOver
<1>2. s \in CallType
  BY <1>1, SMTT(20), ZenonT(30) DEF CallType
<1>3. /\ s.pc = p /\ s.status = status /\ s.kind = h.kind /\ s.mode = h.mode
      /\ s.sent = h.sent /\ s.up = h.up /\ s.end = h.end /\ s.got = h.got
      /\ s.usage = h.usage /\ s.blame = h.blame /\ s.told = h.told
      /\ s.answer = h.answer /\ s.sink = h.sink
  BY <1>1 DEF CallType
<1>4. SentBy(s) /\ Fresh(s) /\ Untouched(s)
  BY <1>1, <1>3 DEF SentBy, Fresh, Untouched
<1>5. ~Faulty(s) /\ s.got = EventsOf(s)
  BY <1>4 DEF Untouched, Faulty, EventsOf
<1>6. s.kind \in Executor /\ s.mode \in {"inherit", "explicit"}
  BY <1>1, <1>3
<1>7. \/ s.pc = "read" /\ s.status = "ok"
      \/ s.pc = "refusal" /\ s.status = "bad"
  <2>1. CASE status = "ok"
    BY <1>3, <2>1
  <2>2. CASE status = "bad"
    BY <1>3, <2>2
  <2> QED
    BY <2>1, <2>2
<1> QED
  BY <1>2, <1>4, <1>5, <1>6, <1>7 DEF CallInv

LEMMA RefusalKeeps ==
    ASSUME NEW r, CallInv(r), r.pc = "refusal", NEW f \in Faults
    PROVE  CallInv(Fail(r, <<f>>))
<1> DEFINE u == [r EXCEPT !.blame = <<f>>]
<1>1. /\ r \in CallType /\ SentBy(r) /\ Fresh(r) /\ r.kind \in Executor /\ r.status = "bad"
  BY DEF CallInv
<1>2. u.status = "bad" /\ u.blame = <<f>> /\ u.kind = r.kind
  BY <1>1 DEF CallType
<1>3. Leaving(r) /\ ~Complete(r) /\ BlameOf(u)
  BY <1>1, <1>2 DEF Leaving, Complete, BlameOf, Kinds, Executor
<1>4. <<f>> \in Seq(Faults \cup {"broken"})
  OBVIOUS
<1> QED
  BY <1>3, <1>4, FailKeeps

LEMMA BufferedKeeps ==
    ASSUME NEW r, CallInv(r), r.pc = "send", r.kind \notin Executor,
           NEW status \in {"ok", "bad"}, NEW l \in {"chunk"} \cup Faults,
           status = "bad" => l \in Faults
    PROVE  LET h == [Handed(r) EXCEPT !.status = status, !.up = <<l>>, !.end = "eof"] IN
           CallInv(IF h.kind = "raw" /\ l \in Faults THEN Fail(h, <<l>>) ELSE Succeed(h))
<1> DEFINE g == Handed(r)
           h == [g EXCEPT !.status = status, !.up = <<l>>, !.end = "eof"]
           u == [h EXCEPT !.blame = <<l>>]
<1>1. /\ g \in CallType /\ SentBy(g) /\ Fresh(g)
      /\ g.kind = r.kind /\ g.kind \in Kinds /\ g.mode \in {"inherit", "explicit"}
  BY HandedOver
<1>2. <<l>> \in Seq(Lines) /\ "eof" \in Ends
  BY DEF Lines, Ends
<1>3. h \in CallType
  BY <1>1, <1>2 DEF CallType
<1>4. /\ h.status = status /\ h.up = <<l>> /\ h.kind = g.kind /\ h.mode = g.mode
      /\ h.sent = g.sent /\ h.answer = g.answer /\ h.sink = g.sink /\ h.usage = g.usage
      /\ h.blame = g.blame /\ h.told = g.told
  BY <1>1, <1>2 DEF CallType
<1>5. Leaving(h)
  BY <1>1, <1>3, <1>4 DEF Leaving, SentBy, Fresh
<1>6. Faulty(h) <=> l \in Faults
  BY <1>4 DEF Faulty
<1>7. CASE h.kind = "raw" /\ l \in Faults
  <2>1. u.up = <<l>> /\ u.blame = <<l>> /\ u.kind = "raw"
    BY <1>3, <1>4, <1>7 DEF CallType
  <2>2. Faulty(u) /\ ~Complete(h)
    BY <1>6, <1>7, <2>1 DEF Faulty, Complete
  <2>3. BlameOf(u)
    BY <1>7, <2>1, <2>2 DEF BlameOf
  <2>4. <<l>> \in Seq(Faults \cup {"broken"})
    BY <1>7
  <2> QED
    BY <1>5, <1>7, <2>2, <2>3, <2>4, FailKeeps
<1>8. CASE ~(h.kind = "raw" /\ l \in Faults)
  <2>1. BlameOf(h)
    BY <1>1, <1>4, <1>5, <1>6, <1>8 DEF BlameOf, Leaving, Fresh, Kinds, Executor
  <2> QED
    BY <1>1, <1>4, <1>5, <1>8, <2>1, SucceedKeeps
<1> QED
  BY <1>7, <1>8

\* A call inside one of its loops.
Reading(r) ==
    /\ Leaving(r)
    /\ r.kind \in Executor /\ r.mode \in {"inherit", "explicit"} /\ r.status = "ok"

LEMMA LineRead ==
    ASSUME NEW r, CallInv(r), r.pc = "read", NEW l \in Lines, NEW end \in Ends
    PROVE  LET s == [r EXCEPT !.up = Append(@, l), !.end = end]
               n == Len(r.up) + 1 IN
           /\ Reading(s) /\ s.pc = "read" /\ s.kind = r.kind /\ s.sink = r.sink
           /\ Faulty(s) <=> l \in Faults
           /\ EventsOf(s) = IF l \in Events(r.kind) THEN r.got \cup {n} ELSE r.got
           /\ n \notin r.got /\ n \in Nat /\ Len(s.up) = n /\ s.got = r.got
<1> DEFINE s == [r EXCEPT !.up = Append(@, l), !.end = end]
           n == Len(r.up) + 1
<1>1. /\ r \in CallType /\ SentBy(r) /\ Fresh(r) /\ r.status = "ok" /\ r.kind \in Executor
      /\ ~Faulty(r) /\ r.got = EventsOf(r) /\ r.mode \in {"inherit", "explicit"}
  BY DEF CallInv
<1>2. r.up \in Seq(Lines)
  BY <1>1 DEF CallType
<1>3. /\ s.up = Append(r.up, l) /\ s.end = end /\ s.kind = r.kind /\ s.mode = r.mode
      /\ s.sent = r.sent /\ s.status = r.status /\ s.got = r.got /\ s.pc = r.pc
      /\ s.usage = r.usage /\ s.blame = r.blame /\ s.told = r.told
      /\ s.answer = r.answer /\ s.sink = r.sink
  BY <1>1 DEF CallType
<1>4. s \in CallType
  BY <1>1, <1>2, AppendLine DEF CallType
<1>5. Reading(s)
  BY <1>1, <1>3, <1>4 DEF Reading, Leaving, SentBy, Fresh, Kinds, Executor
<1>6. /\ DOMAIN s.up = DOMAIN r.up \cup {n} /\ s.up[n] = l /\ Len(s.up) = n
      /\ \A i \in DOMAIN r.up : s.up[i] = r.up[i]
  BY <1>2, <1>3, AppendLine
<1>7. n \in Nat /\ n \notin DOMAIN r.up
  BY <1>2
<1>8. n \notin r.got
  BY <1>1, <1>7 DEF EventsOf
<1>9. Faulty(s) <=> l \in Faults
  BY <1>1, <1>6 DEF Faulty
<1>10. EventsOf(s) = IF l \in Events(r.kind) THEN r.got \cup {n} ELSE r.got
  BY <1>1, <1>3, <1>6, <1>7 DEF EventsOf
<1> QED
  BY <1>1, <1>3, <1>5, <1>6, <1>7, <1>8, <1>9, <1>10

LEMMA LineKeeps ==
    ASSUME NEW r, CallInv(r), r.pc = "read", NEW l \in Lines, NEW end \in Ends
    PROVE  LET s == [r EXCEPT !.up = Append(@, l), !.end = end] IN
           /\ l \in Faults => CallInv(Fail(s, <<l>>))
           /\ l = "done" => CallInv([s EXCEPT !.pc = "after"])
           /\ l \in Events(s.kind) /\ s.sink = "gone" => CallInv(Abandon(s))
           /\ l \in Events(s.kind) /\ s.sink # "gone" =>
                 CallInv([s EXCEPT !.got = @ \cup {Len(s.up)}])
           /\ l \notin Faults /\ l \notin Events(s.kind) => CallInv(s)
<1> DEFINE s == [r EXCEPT !.up = Append(@, l), !.end = end]
           n == Len(r.up) + 1
<1>1. /\ Reading(s) /\ s.pc = "read" /\ s.kind = r.kind /\ s.sink = r.sink
      /\ Faulty(s) <=> l \in Faults
      /\ EventsOf(s) = IF l \in Events(r.kind) THEN r.got \cup {n} ELSE r.got
      /\ n \notin r.got /\ n \in Nat /\ Len(s.up) = n /\ s.got = r.got
  BY LineRead
<1>2. /\ s \in CallType /\ SentBy(s) /\ Fresh(s) /\ s.kind \in Executor
      /\ s.mode \in {"inherit", "explicit"} /\ s.status = "ok"
  BY <1>1 DEF Reading, Leaving
<1>3. Events(s.kind) \cap (Faults \cup {"done"}) = {}
  BY DEF Events, Faults
<1>4. ASSUME l \in Faults PROVE CallInv(Fail(s, <<l>>))
  <2> DEFINE u == [s EXCEPT !.blame = <<l>>]
  <2>1. u.up = s.up /\ u.kind = s.kind /\ u.blame = <<l>>
    BY <1>2 DEF CallType
  <2>2. ~Complete(s) /\ Faulty(u)
    BY <1>1, <1>4, <2>1 DEF Complete, Faulty
  <2>3. BlameOf(u)
    BY <1>4, <2>1, <2>2 DEF BlameOf
  <2>4. <<l>> \in Seq(Faults \cup {"broken"})
    BY <1>4
  <2> QED
    BY <1>1, <2>2, <2>3, <2>4, FailKeeps DEF Reading
<1>5. ASSUME l = "done" PROVE CallInv([s EXCEPT !.pc = "after"])
  <2> DEFINE t == [s EXCEPT !.pc = "after"]
  <2>1. t \in CallType
    BY <1>2 DEF CallType
  <2>2. /\ t.pc = "after" /\ t.up = s.up /\ t.kind = s.kind /\ t.mode = s.mode
        /\ t.sent = s.sent /\ t.status = s.status /\ t.got = s.got
        /\ t.usage = s.usage /\ t.blame = s.blame /\ t.told = s.told
        /\ t.answer = s.answer /\ t.sink = s.sink
    BY <1>2 DEF CallType
  <2>3. SentBy(t) /\ Fresh(t)
    BY <1>2, <2>2 DEF SentBy, Fresh
  <2>4. ~Faulty(t) /\ t.got = EventsOf(t)
    BY <1>1, <1>3, <1>5, <2>2 DEF Faulty, EventsOf, Faults
  <2> QED
    BY <1>2, <2>1, <2>2, <2>3, <2>4 DEF CallInv
<1>6. ASSUME l \in Events(s.kind), s.sink = "gone" PROVE CallInv(Abandon(s))
  <2>1. s.got # EventsOf(s)
    BY <1>1, <1>6
  <2>2. ~Faulty(s)
    BY <1>1, <1>3, <1>6
  <2> QED
    BY <1>1, <1>2, <1>6, <2>1, <2>2, AbandonKeeps DEF Reading
<1>7. ASSUME l \in Events(s.kind), s.sink # "gone"
      PROVE  CallInv([s EXCEPT !.got = @ \cup {Len(s.up)}])
  <2> DEFINE t == [s EXCEPT !.got = @ \cup {Len(s.up)}]
  <2>1. t \in CallType
    BY <1>1, <1>2, ZenonT(30) DEF CallType
  <2>2. /\ t.pc = "read" /\ t.up = s.up /\ t.kind = s.kind /\ t.mode = s.mode
        /\ t.sent = s.sent /\ t.status = s.status /\ t.got = r.got \cup {n}
        /\ t.usage = s.usage /\ t.blame = s.blame /\ t.told = s.told
        /\ t.answer = s.answer /\ t.sink = s.sink
    BY <1>1, <1>2 DEF CallType
  <2>3. SentBy(t) /\ Fresh(t)
    BY <1>2, <2>2 DEF SentBy, Fresh
  <2>4. EventsOf(t) = EventsOf(s) /\ (Faulty(t) <=> Faulty(s))
    BY <2>2 DEF Faulty, EventsOf
  <2>5. ~Faulty(t) /\ t.got = EventsOf(t)
    BY <1>1, <1>3, <1>7, <2>2, <2>4
  <2> QED
    BY <1>2, <2>1, <2>2, <2>3, <2>5 DEF CallInv
<1>8. ASSUME l \notin Faults, l \notin Events(s.kind) PROVE CallInv(s)
  BY <1>1, <1>2, <1>8 DEF CallInv
<1> QED
  BY <1>4, <1>5, <1>6, <1>7, <1>8

LEMMA BodyEndsKeeps ==
    ASSUME NEW r, CallInv(r), r.pc = "read", NEW end \in Ends
    PROVE  CallInv([r EXCEPT !.pc = "after", !.end = end])
<1> DEFINE t == [r EXCEPT !.pc = "after", !.end = end]
<1>1. /\ r \in CallType /\ SentBy(r) /\ Fresh(r) /\ r.status = "ok" /\ r.kind \in Executor
      /\ ~Faulty(r) /\ r.got = EventsOf(r) /\ r.mode \in {"inherit", "explicit"}
  BY DEF CallInv
<1>2. t \in CallType
  BY <1>1 DEF CallType
<1>3. /\ t.pc = "after" /\ t.up = r.up /\ t.kind = r.kind /\ t.mode = r.mode
      /\ t.sent = r.sent /\ t.status = r.status /\ t.got = r.got
      /\ t.usage = r.usage /\ t.blame = r.blame /\ t.told = r.told
      /\ t.answer = r.answer /\ t.sink = r.sink
  BY <1>1 DEF CallType
<1>4. SentBy(t) /\ Fresh(t)
  BY <1>1, <1>3 DEF SentBy, Fresh
<1>5. ~Faulty(t) /\ t.got = EventsOf(t)
  BY <1>1, <1>3 DEF Faulty, EventsOf
<1> QED
  BY <1>1, <1>2, <1>3, <1>4, <1>5 DEF CallInv

LEMMA AfterKeeps ==
    ASSUME NEW r, CallInv(r), r.pc = "after"
    PROVE  LET own == IF r.kind = "async" THEN <<"broken">> ELSE <<>> IN
           CallInv(IF r.end = "broken" \/ r.got = {} THEN Fail(r, own) ELSE Succeed(r))
<1> DEFINE own == IF r.kind = "async" THEN <<"broken">> ELSE <<>>
           u == [r EXCEPT !.blame = own]
<1>1. /\ r \in CallType /\ SentBy(r) /\ Fresh(r) /\ r.status = "ok" /\ r.kind \in Executor
      /\ ~Faulty(r) /\ r.got = EventsOf(r) /\ r.mode \in {"inherit", "explicit"}
  BY DEF CallInv
<1>2. Leaving(r)
  BY <1>1 DEF Leaving, Kinds, Executor
<1>3. CASE r.end = "broken" \/ r.got = {}
  <2>1. /\ u.blame = own /\ u.kind = r.kind /\ u.status = "ok" /\ u.up = r.up /\ u.end = r.end
    BY <1>1 DEF CallType
  <2>2. EventsOf(u) = EventsOf(r) /\ (Faulty(u) <=> Faulty(r))
    BY <2>1 DEF EventsOf, Faulty
  <2>3. BlameOf(u)
    BY <1>1, <1>3, <2>1, <2>2 DEF BlameOf
  <2>4. ~Complete(r)
    BY <1>1, <1>3 DEF Complete
  <2>5. own \in Seq(Faults \cup {"broken"})
    <3>1. <<>> \in Seq(Faults \cup {"broken"}) /\ <<"broken">> \in Seq(Faults \cup {"broken"})
      OBVIOUS
    <3> QED
      BY <3>1
  <2> QED
    BY <1>2, <1>3, <2>3, <2>4, <2>5, FailKeeps
<1>4. CASE ~(r.end = "broken" \/ r.got = {})
  <2>1. Complete(r)
    BY <1>1, <1>4 DEF Complete
  <2>2. BlameOf(r)
    BY <1>1 DEF BlameOf, Fresh
  <2> QED
    BY <1>1, <1>2, <1>4, <2>1, <2>2, SucceedKeeps
<1> QED
  BY <1>3, <1>4

\* Closing what is open changes nothing anybody is told.
LEMMA UnwindKeeps ==
    ASSUME NEW r, CallInv(r), r.pc = "unwind", NEW body \in {"none", "open", "closed"}
    PROVE  CallInv([r EXCEPT !.pc = "done", !.body = body,
                             !.sink = IF @ = "open" THEN "closed" ELSE @])
<1> DEFINE d == IF r.sink = "open" THEN "closed" ELSE r.sink
           t == [r EXCEPT !.pc = "done", !.body = body, !.sink = d]
<1> HIDE DEF d
<1>1. /\ r \in CallType /\ SentBy(r) /\ BlameOf(r)
      /\ r.kind \in Executor => UsageFits(r) /\ AnswerFits(r)
  BY DEF CallInv
<1>2. d \in {"none", "open", "gone", "closed"}
  BY <1>1 DEF CallType, d
<1>3. t \in CallType
  BY <1>1, <1>2 DEF CallType
<1>4. /\ t.pc = "done" /\ t.up = r.up /\ t.kind = r.kind /\ t.mode = r.mode /\ t.end = r.end
      /\ t.sent = r.sent /\ t.status = r.status /\ t.got = r.got
      /\ t.usage = r.usage /\ t.blame = r.blame /\ t.told = r.told
      /\ t.answer = r.answer /\ t.sink = d
  BY <1>1 DEF CallType
<1>5. EventsOf(t) = EventsOf(r) /\ (Faulty(t) <=> Faulty(r))
  BY <1>4 DEF EventsOf, Faulty
<1>6. Complete(t) <=> Complete(r)
  BY <1>4, <1>5 DEF Complete
<1>7. SentBy(t) /\ BlameOf(t)
  BY <1>1, <1>4, <1>5 DEF SentBy, BlameOf
<1>8. r.kind \in Executor => UsageFits(t) /\ AnswerFits(t)
  BY <1>1, <1>4, <1>5, <1>6 DEF UsageFits, AnswerFits, d
<1>9. CallInv(t)
  BY <1>3, <1>4, <1>7, <1>8 DEF CallInv
<1> QED
  BY <1>9 DEF d

LEMMA DisconnectKeeps ==
    ASSUME NEW r, CallInv(r), r.sink = "open"
    PROVE  CallInv([r EXCEPT !.sink = "gone"])
<1> DEFINE t == [r EXCEPT !.sink = "gone"]
<1>1. r \in CallType /\ SentBy(r)
  BY DEF CallInv
<1>2. t \in CallType
  BY <1>1 DEF CallType
<1>3. /\ t.pc = r.pc /\ t.up = r.up /\ t.kind = r.kind /\ t.mode = r.mode /\ t.end = r.end
      /\ t.sent = r.sent /\ t.status = r.status /\ t.got = r.got
      /\ t.usage = r.usage /\ t.blame = r.blame /\ t.told = r.told
      /\ t.answer = r.answer /\ t.sink = "gone"
  BY <1>1 DEF CallType
<1>4. EventsOf(t) = EventsOf(r) /\ (Faulty(t) <=> Faulty(r))
  BY <1>3 DEF EventsOf, Faulty
<1>5. Complete(t) <=> Complete(r)
  BY <1>3, <1>4 DEF Complete
<1>6. SentBy(t)
  BY <1>1, <1>3 DEF SentBy
<1>7. Fresh(r) => Fresh(t)
  BY <1>3 DEF Fresh
<1>8. Untouched(r) => Untouched(t)
  BY <1>3 DEF Untouched
<1>9. BlameOf(r) => BlameOf(t)
  BY <1>3, <1>4 DEF BlameOf
<1>10. UsageFits(r) => UsageFits(t)
  BY <1>3, <1>4, <1>5 DEF UsageFits
<1>11. AnswerFits(r) => AnswerFits(t)
  BY <1>3, <1>5 DEF AnswerFits
<1>12. r.pc # "idle"
  BY DEF CallInv, Idle
<1> QED
  BY <1>2, <1>3, <1>4, <1>6, <1>7, <1>8, <1>9, <1>10, <1>11, <1>12 DEF CallInv

-----------------------------------------------------------------------------
(* The induction.                                                          *)

PumpIInv == PumpTypeOK /\ PumpInv

LEMMA InitHolds == PumpInit => PumpIInv
<1> SUFFICES ASSUME PumpInit PROVE PumpIInv
  OBVIOUS
<1>1. PumpTypeOK
  BY IdleCall DEF PumpInit, PumpTypeOK, Modes
<1>2. CallInv(Idle)
  BY IdleCall DEF CallInv, SentBy, Idle
<1> QED
  BY <1>1, <1>2 DEF PumpIInv, PumpInv, PumpInit

\* A step that replaces the record of one call by a sound one.
LEMMA OneCall ==
    ASSUME PumpTypeOK, PumpInv, NEW c \in Calls, NEW x, CallInv(x),
           call' = [call EXCEPT ![c] = x]
    PROVE  PumpInv' /\ call' \in [Calls -> CallType]
<1>1. x \in CallType
  BY DEF CallInv
<1>2. call' \in [Calls -> CallType]
  BY <1>1 DEF PumpTypeOK
<1>3. \A d \in Calls : call'[d] = IF d = c THEN x ELSE call[d]
  BY DEF PumpTypeOK
<1> QED
  BY <1>2, <1>3 DEF PumpInv

\* The steps of one call.
LEMMA StepHolds ==
    ASSUME PumpIInv, NEW c \in Calls, Step(c)
    PROVE  PumpInv' /\ call' \in [Calls -> CallType]
<1> DEFINE r == call[c]
<1>1. PumpTypeOK /\ PumpInv /\ CallInv(r)
  BY DEF PumpIInv, PumpInv
<1>2. r \in CallType
  BY <1>1 DEF CallInv
<1>3. CASE Guard(c)
  <2>1. r.pc = "guard" /\ r.kind \in {"fold", "sync", "async"}
    BY <1>1, <1>3 DEF Guard, CallInv, Executor
  <2>2. PICK x : /\ call' = [call EXCEPT ![c] = x]
                 /\ x = CASE ~held -> [r EXCEPT !.pc = "route"]
                          [] held /\ r.kind = "async" -> [r EXCEPT !.pc = "unwind", !.told = tells(r)]
                          [] held /\ r.kind = "sync" -> [Fail(r, <<>>) EXCEPT !.answer = "refused"]
                          [] held /\ r.kind = "fold" -> [r EXCEPT !.pc = "unwind", !.answer = "refused"]
    BY <1>3 DEF Guard
  <2>3. CallInv(x)
    <3>1. CASE ~held
      BY <1>1, <2>1, <2>2, <3>1, GuardKeeps
    <3>2. CASE held /\ r.kind = "async"
      BY <1>1, <2>1, <2>2, <3>2, GuardKeeps
    <3>3. CASE held /\ r.kind = "sync"
      BY <1>1, <2>1, <2>2, <3>3, GuardKeeps
    <3>4. CASE held /\ r.kind = "fold"
      BY <1>1, <2>1, <2>2, <3>4, GuardKeeps
    <3> QED
      BY <2>1, <3>1, <3>2, <3>3, <3>4
  <2> QED
    BY <1>1, <2>2, <2>3, OneCall
<1>4. CASE Route(c)
  <2>1. r.pc = "route" /\ proxy \in Modes
    BY <1>1, <1>4 DEF Route, PumpTypeOK
  <2>2. call' = [call EXCEPT ![c] = IF proxy = "blocked" THEN Fail([r EXCEPT !.mode = proxy], <<>>)
                                    ELSE [r EXCEPT !.pc = "send", !.mode = proxy]]
    BY <1>4 DEF Route, PumpTypeOK
  <2>3. CallInv(IF proxy = "blocked" THEN Fail([r EXCEPT !.mode = proxy], <<>>)
                ELSE [r EXCEPT !.pc = "send", !.mode = proxy])
    BY <1>1, <2>1, RouteKeeps
  <2> QED
    BY <1>1, <2>2, <2>3, OneCall
<1>5. CASE SendFails(c)
  <2>1. r.pc = "send" /\ call' = [call EXCEPT ![c] = Fail(Handed(r), <<>>)]
    BY <1>5 DEF SendFails
  <2> QED
    BY <1>1, <2>1, SendFailsKeeps, OneCall
<1>6. ASSUME NEW status \in {"ok", "bad"}, Opened(c, status)
      PROVE  PumpInv' /\ call' \in [Calls -> CallType]
  <2>1. /\ r.pc = "send" /\ r.kind \in Executor
        /\ call' = [call EXCEPT ![c] = [Handed(r) EXCEPT !.pc = IF status = "ok" THEN "read" ELSE "refusal",
                                                         !.status = status, !.body = "open"]]
    BY <1>6 DEF Opened
  <2> QED
    BY <1>1, <2>1, OpenedKeeps, OneCall
<1>7. ASSUME NEW f \in Faults, Refusal(c, f)
      PROVE  PumpInv' /\ call' \in [Calls -> CallType]
  <2>1. r.pc = "refusal" /\ call' = [call EXCEPT ![c] = Fail(r, <<f>>)]
    BY <1>7 DEF Refusal
  <2> QED
    BY <1>1, <2>1, RefusalKeeps, OneCall
<1>8. ASSUME NEW status \in {"ok", "bad"}, NEW l \in {"chunk"} \cup Faults, Buffered(c, status, l)
      PROVE  PumpInv' /\ call' \in [Calls -> CallType]
  <2> DEFINE h == [Handed(r) EXCEPT !.status = status, !.up = <<l>>, !.end = "eof"]
             x == IF h.kind = "raw" /\ l \in Faults THEN Fail(h, <<l>>) ELSE Succeed(h)
  <2>1. /\ r.pc = "send" /\ r.kind \notin Executor
        /\ status = "bad" => l \in Faults
        /\ call' = [call EXCEPT ![c] = x]
    BY <1>8 DEF Buffered
  <2>2. CallInv(x)
    BY <1>1, <2>1, BufferedKeeps
  <2> HIDE DEF x
  <2> QED
    BY <1>1, <2>1, <2>2, OneCall
<1>9. ASSUME NEW l \in Lines, NEW end \in Ends, Line(c, l, end)
      PROVE  PumpInv' /\ call' \in [Calls -> CallType]
  <2> DEFINE s == [r EXCEPT !.up = Append(@, l), !.end = end]
  <2>1. /\ r.pc = "read"
        /\ call' = [call EXCEPT ![c] =
              CASE l \in Faults -> Fail(s, <<l>>)
                [] l = "done" -> [s EXCEPT !.pc = "after"]
                [] l \in Events(s.kind) /\ s.sink = "gone" -> Abandon(s)
                [] l \in Events(s.kind) /\ s.sink # "gone" -> [s EXCEPT !.got = @ \cup {Len(s.up)}]
                [] OTHER -> s]
    BY <1>9 DEF Line
  <2>2. /\ l \in Faults => CallInv(Fail(s, <<l>>))
        /\ l = "done" => CallInv([s EXCEPT !.pc = "after"])
        /\ l \in Events(s.kind) /\ s.sink = "gone" => CallInv(Abandon(s))
        /\ l \in Events(s.kind) /\ s.sink # "gone" => CallInv([s EXCEPT !.got = @ \cup {Len(s.up)}])
        /\ l \notin Faults /\ l \notin Events(s.kind) => CallInv(s)
    BY <1>1, <2>1, LineKeeps
  <2>3. Faults \cap Events(s.kind) = {} /\ "done" \notin Faults \cup Events(s.kind)
    BY DEF Faults, Events
  <2> HIDE DEF s
  <2>4. CASE l \in Faults
    <3>1. call' = [call EXCEPT ![c] = Fail(s, <<l>>)]
      BY <2>1, <2>3, <2>4
    <3> QED
      BY <1>1, <2>2, <2>4, <3>1, OneCall
  <2>5. CASE l = "done"
    <3>1. call' = [call EXCEPT ![c] = [s EXCEPT !.pc = "after"]]
      BY <2>1, <2>3, <2>5
    <3> QED
      BY <1>1, <2>2, <2>5, <3>1, OneCall
  <2>6. CASE l \in Events(s.kind) /\ s.sink = "gone"
    <3>1. call' = [call EXCEPT ![c] = Abandon(s)]
      BY <2>1, <2>3, <2>6
    <3> QED
      BY <1>1, <2>2, <2>6, <3>1, OneCall
  <2>7. CASE l \in Events(s.kind) /\ s.sink # "gone"
    <3>1. call' = [call EXCEPT ![c] = [s EXCEPT !.got = @ \cup {Len(s.up)}]]
      BY <2>1, <2>3, <2>7
    <3> QED
      BY <1>1, <2>2, <2>7, <3>1, OneCall
  <2>8. CASE l \notin Faults /\ l # "done" /\ l \notin Events(s.kind)
    <3>1. call' = [call EXCEPT ![c] = s]
      BY <2>1, <2>8
    <3> QED
      BY <1>1, <2>2, <2>8, <3>1, OneCall
  <2> QED
    BY <2>4, <2>5, <2>6, <2>7, <2>8
<1>10. ASSUME NEW end \in Ends, BodyEnds(c, end)
       PROVE  PumpInv' /\ call' \in [Calls -> CallType]
  <2>1. r.pc = "read" /\ call' = [call EXCEPT ![c] = [r EXCEPT !.pc = "after", !.end = end]]
    BY <1>10 DEF BodyEnds
  <2> QED
    BY <1>1, <2>1, BodyEndsKeeps, OneCall
<1>11. CASE After(c)
  <2> DEFINE own == IF r.kind = "async" THEN <<"broken">> ELSE <<>>
             x == IF r.end = "broken" \/ r.got = {} THEN Fail(r, own) ELSE Succeed(r)
  <2>1. r.pc = "after" /\ call' = [call EXCEPT ![c] = x]
    BY <1>11 DEF After
  <2>2. CallInv(x)
    BY <1>1, <2>1, AfterKeeps
  <2> HIDE DEF x
  <2> QED
    BY <1>1, <2>1, <2>2, OneCall
<1>12. CASE Unwind(c)
  <2> DEFINE body == IF r.body = "open" THEN "closed" ELSE r.body
             x == [r EXCEPT !.pc = "done", !.body = body,
                            !.sink = IF @ = "open" THEN "closed" ELSE @]
  <2>1. r.pc = "unwind" /\ call' = [call EXCEPT ![c] = x]
    BY <1>12 DEF Unwind
  <2>2. body \in {"none", "open", "closed"}
    BY <1>2 DEF CallType
  <2> HIDE DEF body
  <2>3. CallInv(x)
    BY <1>1, <2>1, <2>2, UnwindKeeps
  <2> HIDE DEF x
  <2> QED
    BY <1>1, <2>1, <2>3, OneCall
<1> QED
  BY <1>3, <1>4, <1>5, <1>6, <1>7, <1>8, <1>9, <1>10, <1>11, <1>12 DEF Step

LEMMA NextHolds == PumpIInv /\ [PumpNext]_pumpVars => PumpIInv'
<1> SUFFICES ASSUME PumpIInv, [PumpNext]_pumpVars PROVE PumpIInv'
  OBVIOUS
<1>1. PumpTypeOK /\ PumpInv
  BY DEF PumpIInv
<1>2. ASSUME NEW c \in Calls, NEW k \in Kinds, Refuse(c, k) PROVE PumpIInv'
  <2>1. call' = [call EXCEPT ![c] = [Idle EXCEPT !.pc = "done", !.kind = k, !.answer = "refused"]]
    BY <1>2 DEF Refuse
  <2>2. PumpInv' /\ call' \in [Calls -> CallType]
    BY <1>1, <2>1, RefuseKeeps, OneCall
  <2> QED
    BY <1>1, <1>2, <2>2 DEF Refuse, PumpIInv, PumpTypeOK
<1>3. ASSUME NEW c \in Calls, NEW k \in Kinds, AdmitCall(c, k) PROVE PumpIInv'
  <2>1. call' = [call EXCEPT ![c] =
                    [Idle EXCEPT !.pc = IF k \in Executor THEN "guard" ELSE "route",
                                 !.kind = k,
                                 !.sink = IF k = "async" THEN "open" ELSE "none",
                                 !.answer = IF k = "async" THEN "stream" ELSE "none"]]
    BY <1>3 DEF AdmitCall
  <2>2. PumpInv' /\ call' \in [Calls -> CallType]
    BY <1>1, <2>1, AdmitKeeps, OneCall
  <2> QED
    BY <1>1, <1>3, <2>2 DEF AdmitCall, PumpIInv, PumpTypeOK
<1>4. ASSUME NEW c \in Calls, Step(c) PROVE PumpIInv'
  <2>1. PumpInv' /\ call' \in [Calls -> CallType]
    BY <1>4, StepHolds
  <2>2. host' = host /\ proxy' = proxy /\ held' \in BOOLEAN
    BY <1>1, <1>4
       DEF Step, Guard, Route, SendFails, Opened, Refusal, Buffered, Line, BodyEnds, After,
           Unwind, PumpTypeOK, holds
  <2> QED
    BY <1>1, <2>1, <2>2 DEF PumpIInv, PumpTypeOK
<1>5. ASSUME NEW c \in Calls, Disconnect(c) PROVE PumpIInv'
  <2>1. call[c].sink = "open" /\ CallInv(call[c])
    BY <1>1, <1>5 DEF Disconnect, PumpInv
  <2>2. call' = [call EXCEPT ![c] = [call[c] EXCEPT !.sink = "gone"]]
    BY <1>1, <1>5 DEF Disconnect, PumpTypeOK
  <2>3. PumpInv' /\ call' \in [Calls -> CallType]
    BY <1>1, <2>1, <2>2, DisconnectKeeps, OneCall
  <2> QED
    BY <1>1, <1>5, <2>3 DEF Disconnect, PumpIInv, PumpTypeOK
<1>6. ASSUME NEW m \in Modes, Reconfigure(m) PROVE PumpIInv'
  BY <1>1, <1>6 DEF Reconfigure, PumpIInv, PumpTypeOK, PumpInv
<1>7. CASE HoldChanges
  BY <1>1, <1>7 DEF HoldChanges, PumpIInv, PumpTypeOK, PumpInv
<1>8. CASE UNCHANGED pumpVars
  BY <1>1, <1>8 DEF pumpVars, PumpIInv, PumpTypeOK, PumpInv
<1> QED
  BY <1>2, <1>3, <1>4, <1>5, <1>6, <1>7, <1>8 DEF PumpNext

LEMMA AlwaysIInv == PumpSpec => []PumpIInv
  BY InitHolds, NextHolds, PTL DEF PumpSpec

-----------------------------------------------------------------------------
(* The theorems.                                                           *)

\* Every finished executor call that chose a transport has left one usage
\* record, which says ok exactly for a complete and delivered stream
\* (publishUsage in main.go and stream.go).
THEOREM UsageTheorem == PumpSpec => []UsageTruthful
<1>1. PumpIInv => UsageTruthful
  BY DEF PumpIInv, PumpInv, CallInv, UsageTruthful
<1> QED
  BY <1>1, AlwaysIInv, PTL

\* Whoever stayed to the end learns of every incomplete answer and of no other
\* (streamEmitError, the answers of handleExecExecute and handleExecStream).
THEOREM TruncationTheorem == PumpSpec => []NoSilentTruncation
<1>1. PumpIInv => NoSilentTruncation
  BY DEF PumpIInv, PumpInv, CallInv, NoSilentTruncation
<1> QED
  BY <1>1, AlwaysIInv, PTL

\* An account answers for what its upstream said, once, and for nothing else
\* (recordUpstreamFailureWithHeaders in stream.go and executor_http.go).
THEOREM BlameTheorem == PumpSpec => []BlameFits
<1>1. PumpIInv => BlameFits
  BY DEF PumpIInv, PumpInv, CallInv, BlameFits
<1> QED
  BY <1>1, AlwaysIInv, PTL

\* No request is handed to a transport twice, past a configured proxy, or after
\* a refusal, however the proxy is reconfigured meanwhile (hostHTTPDo).
THEOREM SentTheorem == PumpSpec => []SentOnce
<1>1. PumpIInv => SentOnce
  BY DEF PumpIInv, PumpInv, CallInv, SentOnce
<1> QED
  BY <1>1, AlwaysIInv, PTL
=============================================================================
