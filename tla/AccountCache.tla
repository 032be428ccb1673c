---------------------------- MODULE AccountCache ----------------------------
(***************************************************************************)
(* The per-account snapshot cache (cache.go) and everyone who writes it:   *)
(* single-flighted detail fetches of the panel refresh and the reconciler, *)
(* single-account credit queries (credits_handler.go), check-ins           *)
(* (checkin.go), invalidations after a chat or a trial claim               *)
(* (lifecycle.go, credits_handler.go), deletions by account operations     *)
(* and the expiry sweep of the dashboard (panel.go).                       *)
(*                                                                         *)
(* Each sync.Map operation and each upstream answer is a step.  A balance  *)
(* is represented by the instant it was read at, a check-in status by the  *)
(* flag it carries; the plan travels with the balance and is left out.     *)
(* Every clock reading is unique (the process clock counts nanoseconds).   *)
(***************************************************************************)
EXTENDS Integers, FiniteSets

CONSTANTS
    Auths,         \* host auth IDs
    Callers,       \* runs of cachedAccountDetails, each used once
    Queries,       \* single-account /credits queries
    Checkins,      \* check-in attempts
    Invalidators,  \* credit invalidations
    Panels,        \* dashboard builds
    None,          \* no process
    Faults,        \* bound: which upstream reads may fail
    Deletions,     \* bound: may account operations drop entries?
    TTL,           \* accountCacheTTL
    Expiry,        \* 4 * accountCacheTTL
    Cap,           \* accountCacheSoftCap
    MaxNow         \* bound: the last clock reading

Procs == Callers \cup Queries \cup Checkins \cup Invalidators \cup Panels

ASSUME CacheConstants ==
    /\ None \notin Procs
    /\ Callers \cap (Queries \cup Checkins \cup Invalidators \cup Panels) = {}
    /\ Queries \cap (Checkins \cup Invalidators \cup Panels) = {}
    /\ Checkins \cap (Invalidators \cup Panels) = {} /\ Invalidators \cap Panels = {}
    /\ Faults \subseteq {"status", "credits"}
    /\ Deletions \in BOOLEAN
    /\ TTL \in Nat /\ Expiry \in Nat /\ Cap \in Nat \ {0} /\ MaxNow \in Nat \ {0}

VARIABLES
    now,      \* the clock
    claimed,  \* upstream: is the account checked in today?
    cache,    \* accountCache
    flight,   \* accountDetailFlight: the fetcher registered for an account
    proc      \* the runs and their local variables

vars == <<now, claimed, cache, flight, proc>>

Instants == 0..MaxNow
Statuses == {"nil", "no", "yes"}
NoCredits == 0

\* accountCacheEntry.  A zero instant is Go's zero time.
Entries == [checkin: Statuses, checkinAt: Instants, credits: Instants, fetched: Instants]
Empty == [checkin |-> "nil", checkinAt |-> 0, credits |-> NoCredits, fetched |-> 0]
Absent == [Empty EXCEPT !.checkin = "absent"]

Idle ==
    [pc |-> "idle", auth |-> None, prev |-> Absent, own |-> Empty,
     status |-> "todo", billing |-> "todo", began |-> 0, owner |-> None,
     victims |-> {}, answer |-> NoCredits, closed |-> FALSE]

Done(r) == [Idle EXCEPT !.pc = "done", !.answer = r.answer, !.billing = r.billing,
                        !.auth = r.auth, !.began = r.began, !.owner = r.owner,
                        !.closed = r.closed]

Status(a) == IF claimed[a] THEN "yes" ELSE "no"
Present == {a \in Auths : cache[a] # Absent}

\* Clock readings are unique: reading the clock advances it.
Reading == now + 1
ReadsClock == now < MaxNow /\ now' = Reading

-----------------------------------------------------------------------------
Init ==
    /\ now = 1
    /\ claimed \in [Auths -> {FALSE}]
    /\ cache = [a \in Auths |-> Absent]
    /\ flight = [a \in Auths |-> None]
    /\ proc = [p \in Procs |-> Idle]

\* Bound: idle time passes only while every run has its clock readings left.
Reserve ==
    3 * Cardinality(Callers) + 2 * Cardinality(Queries)
        + Cardinality(Checkins) + Cardinality(Invalidators)

Tick ==
    /\ now + Reserve < MaxNow
    /\ ReadsClock
    /\ UNCHANGED <<claimed, cache, flight, proc>>

(***************************************************************************)
(* storeAccountSnapshot: the compare-and-swap loop takes effect at its     *)
(* successful swap.                                                        *)
(***************************************************************************)

\* Seeded fault: the snapshot replaces whatever is cached.
mergedBlind(a, e) == e

\* The entry a snapshot becomes: a later check-in status in the cache is kept.
merged(a, e) ==
    IF cache[a] # Absent /\ cache[a].checkinAt > e.checkinAt
    THEN [e EXCEPT !.checkin = cache[a].checkin, !.checkinAt = cache[a].checkinAt]
    ELSE e

(***************************************************************************)
(* cachedAccountDetailsWithCallback                                        *)
(***************************************************************************)

\* The cached entry is read; without force a fresh one is the answer.
Begin(p, a, force) ==
    /\ proc[p].pc = "idle"
    /\ LET e == cache[a]
           r == [Idle EXCEPT !.auth = a, !.prev = e, !.pc = "join"]
       IN  proc' = [proc EXCEPT ![p] =
                      IF e # Absent /\ ~force /\ now - e.fetched < TTL
                      THEN Done([r EXCEPT !.answer = e.credits]) ELSE r]
    /\ UNCHANGED <<now, claimed, cache, flight>>

\* Seeded fault: a caller never joins a flight.
JoinForced(p) ==
    /\ proc[p].pc = "join"
    /\ flight' = [flight EXCEPT ![proc[p].auth] = p]
    /\ proc' = [proc EXCEPT ![p].pc = "fetch", ![p].began = now]
    /\ UNCHANGED <<now, claimed, cache>>

\* LoadOrStore on the flight map: become the fetcher or wait for it.
Join(p) ==
    /\ proc[p].pc = "join"
    /\ LET a == proc[p].auth IN
       \/ /\ flight[a] = None
          /\ flight' = [flight EXCEPT ![a] = p]
          /\ proc' = [proc EXCEPT ![p].pc = "fetch", ![p].began = now]
       \/ /\ flight[a] # None
          /\ proc' = [proc EXCEPT ![p].pc = "wait", ![p].owner = flight[a],
                                  ![p].prev = Absent, ![p].began = proc[flight[a]].began]
          /\ UNCHANGED flight
    /\ UNCHANGED <<now, claimed, cache>>

\* The status goroutine: the stamp is taken before the request.
StartStatus(p) ==
    /\ proc[p].pc = "fetch" /\ proc[p].status = "todo"
    /\ ReadsClock
    /\ proc' = [proc EXCEPT ![p].status = "sent", ![p].own.checkinAt = Reading]
    /\ UNCHANGED <<claimed, cache, flight>>

ReadStatus(p) ==
    /\ proc[p].pc = "fetch" /\ proc[p].status = "sent"
    /\ \/ proc' = [proc EXCEPT ![p].status = "ok",
                               ![p].own.checkin = Status(proc[p].auth)]
       \/ /\ "status" \in Faults
          /\ proc' = [proc EXCEPT ![p].status = "failed", ![p].own.checkinAt = 0]
    /\ UNCHANGED <<now, claimed, cache, flight>>

\* The billing goroutine.
ReadCredits(p) ==
    /\ proc[p].pc = "fetch" /\ proc[p].billing = "todo"
    /\ \/ /\ ReadsClock
          /\ proc' = [proc EXCEPT ![p].billing = "ok", ![p].own.credits = Reading]
       \/ /\ "credits" \in Faults
          /\ proc' = [proc EXCEPT ![p].billing = "failed"]
          /\ UNCHANGED now
    /\ UNCHANGED <<claimed, cache, flight>>

\* Seeded fault: the previous balance is carried although a new one was read.
carriedAlways(r) ==
    LET own == IF r.status = "failed" /\ r.prev # Absent
               THEN [r.own EXCEPT !.checkin = r.prev.checkin, !.checkinAt = r.prev.checkinAt]
               ELSE r.own
    IN  IF r.prev # Absent /\ r.prev.credits # NoCredits
        THEN [own EXCEPT !.credits = r.prev.credits] ELSE own

\* Stale-while-error: a failed field takes the value read at the start.
carried(r) ==
    LET own == IF r.status = "failed" /\ r.prev # Absent
               THEN [r.own EXCEPT !.checkin = r.prev.checkin, !.checkinAt = r.prev.checkinAt]
               ELSE r.own
    IN  IF r.billing = "failed" /\ r.prev # Absent
        THEN [own EXCEPT !.credits = r.prev.credits] ELSE own

Store(p) ==
    /\ proc[p].pc = "fetch"
    /\ proc[p].status \in {"ok", "failed"} /\ proc[p].billing # "todo"
    /\ ReadsClock
    /\ LET a == proc[p].auth
           e == merged(a, [carried(proc[p]) EXCEPT !.fetched = Reading])
       IN  /\ cache' = [cache EXCEPT ![a] = e]
           /\ proc' = [proc EXCEPT ![p].pc = "prune", ![p].answer = e.credits,
                                   ![p].prev = Absent, ![p].own = Empty]
    /\ UNCHANGED <<claimed, flight>>

\* The sets of entries pruneAccountCacheSoftCap may choose: the excess, oldest
\* first (the order among equals is not stable).
victimSets ==
    LET excess == Cardinality(Present) - Cap IN
    {v \in SUBSET Present :
        /\ Cardinality(v) = IF excess > 0 THEN excess ELSE 0
        /\ \A a \in v, b \in Present \ v : cache[a].fetched <= cache[b].fetched}

PruneLook(p) ==
    /\ proc[p].pc = "prune"
    /\ \E v \in victimSets :
          proc' = [proc EXCEPT ![p].pc = IF v = {} THEN "close" ELSE "drop", ![p].victims = v]
    /\ UNCHANGED <<now, claimed, cache, flight>>

PruneDrop(p) ==
    /\ proc[p].pc = "drop"
    /\ \E a \in proc[p].victims :
          LET left == proc[p].victims \ {a} IN
          /\ cache' = [cache EXCEPT ![a] = Absent]
          /\ proc' = [proc EXCEPT ![p].victims = left,
                                  ![p].pc = IF left = {} THEN "close" ELSE "drop"]
    /\ UNCHANGED <<now, claimed, flight>>

\* Seeded fault: a fetcher that met an error leaves its flight open.
CloseOnSuccess(p) ==
    /\ proc[p].pc = "close"
    /\ proc' = [proc EXCEPT ![p] =
                  IF proc[p].billing = "ok" THEN [@ EXCEPT !.pc = "release", !.closed = TRUE]
                  ELSE Done(@)]
    /\ UNCHANGED <<now, claimed, cache, flight>>

\* The deferred epilogue: wake the waiters, then leave the map.
Close(p) ==
    /\ proc[p].pc = "close"
    /\ proc' = [proc EXCEPT ![p].pc = "release", ![p].closed = TRUE]
    /\ UNCHANGED <<now, claimed, cache, flight>>

Release(p) ==
    /\ proc[p].pc = "release"
    /\ flight' = [flight EXCEPT ![proc[p].auth] = None]
    /\ proc' = [proc EXCEPT ![p] = Done(@)]
    /\ UNCHANGED <<now, claimed, cache>>

\* A waiter reads the cache again; the flight's own result is the fallback.
Woken(p) ==
    /\ proc[p].pc = "wait"
    /\ LET r == proc[p]
           o == proc[r.owner]
           e == cache[r.auth]
       IN  /\ o.closed
           /\ proc' = [proc EXCEPT ![p] =
                         Done([r EXCEPT !.billing = o.billing,
                                        !.answer = IF e # Absent THEN e.credits ELSE o.answer])]
    /\ UNCHANGED <<now, claimed, cache, flight>>

(***************************************************************************)
(* The other writers                                                       *)
(***************************************************************************)

\* handleCreditsQuery for one account: read the balance ...
QueryCredits(q, a) ==
    /\ proc[q].pc = "idle"
    /\ \/ /\ ReadsClock
          /\ proc' = [proc EXCEPT ![q] = [Idle EXCEPT !.pc = "fetched", !.auth = a,
                                                      !.own.credits = Reading]]
       \/ /\ "credits" \in Faults
          /\ proc' = [proc EXCEPT ![q] = Done(Idle)]
          /\ UNCHANGED now
    /\ UNCHANGED <<claimed, cache, flight>>

\* ... take the cached check-in status, without its stamp ...
QueryLoad(q) ==
    /\ proc[q].pc = "fetched"
    /\ ReadsClock
    /\ LET e == cache[proc[q].auth] IN
       proc' = [proc EXCEPT ![q].pc = "merge", ![q].own.fetched = Reading,
                            ![q].own.checkin = IF e = Absent THEN "nil" ELSE e.checkin]
    /\ UNCHANGED <<claimed, cache, flight>>

\* ... and store both.
QueryStore(q) ==
    /\ proc[q].pc = "merge"
    /\ LET a == proc[q].auth IN cache' = [cache EXCEPT ![a] = merged(a, proc[q].own)]
    /\ proc' = [proc EXCEPT ![q] = Done([@ EXCEPT !.answer = proc[q].own.credits])]
    /\ UNCHANGED <<now, claimed, flight>>

\* confirmedCheckinAttempt under the account's lock: a claim that is granted ...
Claim(k, a) ==
    /\ proc[k].pc = "idle"
    /\ \A o \in Checkins : proc[o].auth = a => proc[o].pc \in {"idle", "done"}
    /\ \/ claimed' = [claimed EXCEPT ![a] = TRUE]
       \/ UNCHANGED claimed                             \* rejected, or only confirmed
    /\ proc' = [proc EXCEPT ![k] = [Idle EXCEPT !.pc = "confirm", !.auth = a]]
    /\ UNCHANGED <<now, cache, flight>>

\* ... the status read that follows it ...
ConfirmStatus(k) ==
    /\ proc[k].pc = "confirm"
    /\ proc' = [proc EXCEPT ![k].pc = "merge", ![k].own.checkin = Status(proc[k].auth)]
    /\ UNCHANGED <<now, claimed, cache, flight>>

\* ... and mergeCheckinCache, stamped when it begins: balance and age are kept.
mergeCheckinCache(k) ==
    /\ proc[k].pc = "merge"
    /\ ReadsClock
    /\ LET a == proc[k].auth
           base == IF cache[a] = Absent THEN Empty ELSE cache[a]
       IN  cache' = [cache EXCEPT ![a] =
                       [base EXCEPT !.checkin = proc[k].own.checkin, !.checkinAt = Reading]]
    /\ proc' = [proc EXCEPT ![k] = Done(@)]
    /\ UNCHANGED <<claimed, flight>>

\* invalidateAccountCredits and handleClaimTrial: copy the entry ...
InvalidateLoad(v, a) ==
    /\ proc[v].pc = "idle"
    /\ cache[a] # Absent
    /\ ReadsClock
    /\ proc' = [proc EXCEPT ![v] =
                  [Idle EXCEPT !.pc = "copied", !.auth = a,
                     !.own = [cache[a] EXCEPT !.credits = NoCredits, !.fetched = Reading]]]
    /\ UNCHANGED <<claimed, cache, flight>>

\* ... and store the copy over whatever is there.
InvalidateStore(v) ==
    /\ proc[v].pc = "copied"
    /\ cache' = [cache EXCEPT ![proc[v].auth] = proc[v].own]
    /\ proc' = [proc EXCEPT ![v] = Done(@)]
    /\ UNCHANGED <<now, claimed, flight>>

\* disableAuth, reenableAuth, deleteAuth and the operator's switch drop the entry.
DropEntry(a) ==
    /\ Deletions
    /\ cache[a] # Absent
    /\ cache' = [cache EXCEPT ![a] = Absent]
    /\ UNCHANGED <<now, claimed, flight, proc>>

\* buildDashboardEx: an entry fetched too long ago is chosen for deletion ...
ExpireLook(b, a) ==
    /\ proc[b].pc = "idle"
    /\ cache[a] # Absent
    /\ cache[a].fetched = 0 \/ now - cache[a].fetched > Expiry
    /\ proc' = [proc EXCEPT ![b] = [Idle EXCEPT !.pc = "expired", !.auth = a]]
    /\ UNCHANGED <<now, claimed, cache, flight>>

\* ... and deleted by its key.
ExpireDrop(b) ==
    /\ proc[b].pc = "expired"
    /\ cache' = [cache EXCEPT ![proc[b].auth] = Absent]
    /\ proc' = [proc EXCEPT ![b] = Done(@)]
    /\ UNCHANGED <<now, claimed, flight>>

-----------------------------------------------------------------------------
\* The steps of a detail call once it has begun.
Step(p) ==
    \/ Join(p) \/ StartStatus(p) \/ ReadStatus(p) \/ ReadCredits(p) \/ Store(p)
    \/ PruneLook(p) \/ PruneDrop(p) \/ Close(p) \/ Release(p) \/ Woken(p)

Next ==
    \/ Tick
    \/ \E p \in Callers, a \in Auths, force \in BOOLEAN : Begin(p, a, force)
    \/ \E p \in Callers : Step(p)
    \/ \E q \in Queries, a \in Auths : QueryCredits(q, a)
    \/ \E q \in Queries : QueryLoad(q) \/ QueryStore(q)
    \/ \E k \in Checkins, a \in Auths : Claim(k, a)
    \/ \E k \in Checkins : ConfirmStatus(k) \/ mergeCheckinCache(k)
    \/ \E v \in Invalidators, a \in Auths : InvalidateLoad(v, a)
    \/ \E v \in Invalidators : InvalidateStore(v)
    \/ \E a \in Auths : DropEntry(a)
    \/ \E b \in Panels, a \in Auths : ExpireLook(b, a)
    \/ \E b \in Panels : ExpireDrop(b)

Spec == Init /\ [][Next]_vars

\* Every fetching goroutine keeps running and every upstream read is answered.
FairSpec == Spec /\ \A p \in Callers : WF_vars(Step(p))

-----------------------------------------------------------------------------
(* Properties *)

\* Types of the maps and of the runs.
TypeOK ==
    /\ now \in Instants
    /\ claimed \in [Auths -> BOOLEAN]
    /\ cache \in [Auths -> Entries \cup {Absent}]
    /\ flight \in [Auths -> Callers \cup {None}]
    /\ \A p \in Procs :
          /\ proc[p].auth \in Auths \cup {None} /\ proc[p].owner \in Callers \cup {None}
          /\ proc[p].prev \in Entries \cup {Absent} /\ proc[p].own \in Entries
          /\ proc[p].victims \subseteq Auths /\ proc[p].answer \in Instants
          /\ proc[p].closed \in BOOLEAN

\* The single flight: panel refreshes and reconciles of one account never fetch
\* it twice at the same time, whether forced or not.
Fetching(p) == proc[p].pc \in {"fetch", "prune", "drop", "close", "release"}
OneFetcher ==
    /\ TypeOK
    /\ \A p, q \in Callers :
          Fetching(p) /\ Fetching(q) /\ proc[p].auth = proc[q].auth => p = q

\* What a forced caller relies on for its lifecycle decision: when the billing
\* read of the flight it owned or joined succeeded, the balance it is given was
\* read after that flight began, although it is taken from the shared cache.  The
\* exception is a joiner that finds what a credit query stored: that balance may
\* have been read earlier.
ForcedAnswerFresh ==
    \A p \in Callers :
        proc[p].pc = "done" /\ proc[p].billing = "ok" /\ proc[p].answer # NoCredits =>
            \/ proc[p].answer > proc[p].began
            \/ /\ proc[p].owner # None
               /\ \E q \in Queries : proc[q].pc = "done" /\ proc[q].answer = proc[p].answer

\* A check-in that the cache shows as done, with the time its status was read at, is
\* never shown as not done again by a slower fetch, a credit query or a fetch whose
\* status read failed; the dashboard may delete the entry.
ConfirmedKept ==
    [][\A a \in Auths :
          cache[a].checkin = "yes" /\ cache[a].checkinAt > 0 /\ cache'[a] # Absent =>
              cache'[a].checkin = "yes"]_vars

\* Every detail call returns: the fetcher always wakes its joiners, whichever of
\* its reads failed.
CallersReturn == \A p \in Callers : proc[p].pc # "idle" ~> proc[p].pc = "done"
=============================================================================
