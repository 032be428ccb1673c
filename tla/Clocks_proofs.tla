---------------------------- MODULE Clocks_proofs ----------------------------
(***************************************************************************)
(* What is kept by the clock.  The snapshots of the accounts               *)
(* (AccountCache): one fetch at a time, answers later than the flight that *)
(* gave them, a confirmed check-in that stays.  The daily window of a      *)
(* campaign (PromoWindow).  What a client of the management routes is      *)
(* granted in any span of time (RateLimit).                                *)
(***************************************************************************)
EXTENDS AccountCache, PromoWindow, RateLimit, FiniteSetTheorems, TLAPS

-----------------------------------------------------------------------------
(* The inductive invariant of AccountCache, in layers.                     *)

Runs == [pc : {"idle", "join", "wait", "fetch", "prune", "drop", "close", "release", "done",
               "fetched", "merge", "confirm", "copied", "expired"},
         auth : Auths \cup {None}, prev : Entries \cup {Absent}, own : Entries,
         status : {"todo", "sent", "ok", "failed"}, billing : {"todo", "ok", "failed"},
         began : Instants, owner : Callers \cup {None}, victims : SUBSET Auths,
         answer : Instants, closed : BOOLEAN]

\* Which phases the runs of each kind go through.
InPhase(p, r) ==
    /\ p \in Callers => r.pc \in {"idle", "join", "wait", "fetch", "prune", "drop", "close",
                                  "release", "done"}
    /\ p \in Queries => r.pc \in {"idle", "fetched", "merge", "done"}
    /\ p \in Checkins => r.pc \in {"idle", "confirm", "merge", "done"}
    /\ p \in Invalidators => r.pc \in {"idle", "copied", "done"}
    /\ p \in Panels => r.pc \in {"idle", "expired", "done"}

\* Nothing is stamped with an instant that is still to come.
Past(e) == e.checkinAt <= now /\ e.credits <= now /\ e.fetched <= now

\* What the locals of one run are in each phase.
Fits(p, r) ==
    /\ InPhase(p, r)
    /\ r.pc \notin {"idle", "done"} => r.auth \in Auths
    /\ r.began <= now /\ Past(r.own) /\ Past(r.prev)
    /\ r.closed => r.pc \in {"release", "done"}
    /\ r.status = "failed" => "status" \in Faults
    /\ r.billing = "failed" => "credits" \in Faults
    /\ r.pc = "join" => r.status = "todo" /\ r.billing = "todo" /\ r.own.checkinAt = 0
    /\ r.pc = "fetch" /\ r.status \in {"todo", "failed"} => r.own.checkinAt = 0
    /\ p \in Queries => r.own.checkinAt = 0
    /\ p \in Invalidators => r.own.credits = NoCredits

Typed ==
    /\ now \in Instants
    /\ claimed \in [Auths -> BOOLEAN]
    /\ cache \in [Auths -> Entries \cup {Absent}]
    /\ flight \in [Auths -> Callers \cup {None}]
    /\ proc \in [Procs -> Runs]
    /\ \A p \in Procs : Fits(p, proc[p])
    /\ \A a \in Auths : Past(cache[a])

\* The flight of an account is its only fetcher.
Flights ==
    /\ \A p \in Callers : Fetching(p) => flight[proc[p].auth] = p
    /\ \A a \in Auths :
         flight[a] # None => Fetching(flight[a]) /\ proc[flight[a]].auth = a

\* A joiner waits for a fetcher of its account, or for one that has returned.
Awaits(w, o) ==
    /\ proc[o].auth = proc[w].auth /\ proc[w].began = proc[o].began
    /\ Fetching(o) \/ proc[o].pc = "done"
Joined ==
    \A w \in Callers :
        proc[w].pc = "wait" => proc[w].owner \in Callers /\ Awaits(w, proc[w].owner)

Base == Typed /\ Flights /\ Joined

\* A balance that some credit query returned.
Queried(n) == \E q \in Queries : proc[q].pc = "done" /\ proc[q].answer = n

\* The call has stored its result, or was given one.
Served(r) == r.pc \in {"prune", "drop", "close", "release", "done"}

\* The balance a fetcher holds is later than every flight of its account.
ReadLater ==
    \A p, o \in Callers :
        /\ proc[p].pc = "fetch" /\ proc[p].billing = "ok"
        /\ proc[o].auth = proc[p].auth
        => proc[p].own.credits > proc[o].began

Later(n, o) == n = NoCredits \/ n > proc[o].began \/ Queried(n)

\* What the cache shows is later than every flight that has stored.
CacheLater ==
    \A o \in Callers :
        Served(proc[o]) /\ proc[o].auth \in Auths => Later(cache[proc[o].auth].credits, o)

AnswerLater(o) ==
    Served(proc[o]) /\ proc[o].billing = "ok" /\ proc[o].answer # NoCredits =>
        \/ proc[o].answer > proc[o].began
        \/ proc[o].owner # None /\ Queried(proc[o].answer)

Fresh == ReadLater /\ CacheLater /\ \A o \in Callers : AnswerLater(o)

\* Nobody shows an account as checked in that is not.
KnownRun(r) ==
    r.auth \in Auths /\ (r.own.checkin = "yes" \/ r.prev.checkin = "yes") => claimed[r.auth]

Known ==
    /\ \A a \in Auths : cache[a].checkin = "yes" => claimed[a]
    /\ \A p \in Procs : KnownRun(proc[p])

\* A check-in holds its account's lock until its status is in the cache.
Locks(k) == proc[k].pc \in {"confirm", "merge"}

Confirmed ==
    /\ \A k \in Checkins : proc[k].pc = "merge" => proc[k].own.checkin = Status(proc[k].auth)
    /\ \A k, l \in Checkins : Locks(k) /\ Locks(l) /\ proc[k].auth = proc[l].auth => k = l

\* A status read is not the one in the cache, and when it was too early to see the
\* check-in its stamp is older.
OlderRun(r) ==
    r.pc = "fetch" =>
        /\ r.own.checkinAt > 0 => r.own.checkinAt # cache[r.auth].checkinAt
        /\ /\ r.status = "ok" /\ r.own.checkin # "yes"
           /\ cache[r.auth].checkin = "yes" /\ cache[r.auth].checkinAt > 0
           => r.own.checkinAt < cache[r.auth].checkinAt

\* The status to fall back on is the cached one or an older one.
FallbackRun(r) ==
    r.pc \in {"join", "fetch"} /\ r.prev # Absent =>
        /\ cache[r.auth] # Absent
        /\ r.prev.checkinAt <= cache[r.auth].checkinAt
        /\ r.prev.checkinAt = cache[r.auth].checkinAt /\ r.prev.checkinAt > 0
           => r.prev.checkin = cache[r.auth].checkin

\* Nobody deletes an entry: no operator, no sweep, and room for all.
NothingDeleted == ~Deletions /\ Panels = {} /\ IsFiniteSet(Auths) /\ Cardinality(Auths) <= Cap

Lasting == \A p \in Callers : FallbackRun(proc[p]) /\ proc[p].pc # "drop"

Kept ==
    /\ Known /\ Confirmed
    /\ \A p \in Callers : OlderRun(proc[p])
    /\ NothingDeleted => Lasting

-----------------------------------------------------------------------------
(* Records and maps.                                                       *)

\* What one step does to the runs: one of them moves.
Moves(p, r) == proc' = [proc EXCEPT ![p] = r]

LEMMA OneMoves ==
    ASSUME Typed, NEW p \in Procs, NEW r \in Runs, Moves(p, r)
    PROVE  /\ proc' \in [Procs -> Runs] /\ proc'[p] = r
           /\ \A x \in Procs \ {p} : proc'[x] = proc[x]
  BY DEF Typed, Moves

LEMMA EmptyTyped ==
    /\ Empty \in Entries /\ Empty.checkinAt = 0 /\ Empty.credits = 0 /\ Empty.fetched = 0
    /\ Empty.checkin = "nil"
    /\ Absent.checkinAt = 0 /\ Absent.credits = 0 /\ Absent.fetched = 0
    /\ Absent.checkin = "absent" /\ Absent \notin Entries
<1>1. MaxNow \in Nat
  BY CacheConstants
<1>a. Empty \in Entries
  BY <1>1 DEF Empty, Entries, Statuses, Instants, NoCredits
<1>b. Empty = [checkin |-> "nil", checkinAt |-> 0, credits |-> 0, fetched |-> 0]
  BY DEF Empty, NoCredits
<1>2. PICK e \in Entries : e = Empty
  BY <1>a
<1>3. Absent = [e EXCEPT !.checkin = "absent"]
  BY <1>2 DEF Absent
<1>4. /\ e.checkinAt = 0 /\ e.credits = 0 /\ e.fetched = 0 /\ e.checkin = "nil"
      /\ Absent.checkinAt = 0 /\ Absent.credits = 0 /\ Absent.fetched = 0
      /\ Absent.checkin = "absent"
  BY <1>b, <1>2, <1>3 DEF Entries
<1>5. Absent \notin Entries
  BY <1>4 DEF Entries, Statuses
<1> QED
  BY <1>2, <1>4, <1>5

LEMMA IdleTyped ==
    /\ Idle \in Runs /\ Idle.pc = "idle" /\ Idle.auth = None /\ Idle.prev = Absent
    /\ Idle.own = Empty /\ Idle.status = "todo" /\ Idle.billing = "todo" /\ Idle.began = 0
    /\ Idle.owner = None /\ Idle.victims = {} /\ Idle.answer = 0 /\ Idle.closed = FALSE
<1>1. MaxNow \in Nat
  BY CacheConstants
<1> QED
  BY <1>1, EmptyTyped, SMTT(30) DEF Idle, Runs, Instants, NoCredits

LEMMA DoneTyped ==
    ASSUME NEW r \in Runs
    PROVE  /\ Done(r) \in Runs /\ Done(r).pc = "done" /\ Done(r).answer = r.answer
           /\ Done(r).billing = r.billing /\ Done(r).auth = r.auth /\ Done(r).began = r.began
           /\ Done(r).owner = r.owner /\ Done(r).closed = r.closed
           /\ Done(r).own = Empty /\ Done(r).prev = Absent /\ Done(r).status = "todo"
           /\ Done(r).victims = {}
<1>0. PICK i \in Runs : i = Idle
  BY IdleTyped
<1>1. PICK s : s = [i EXCEPT !.pc = "done"]
  OBVIOUS
<1>3. /\ s \in Runs /\ s = [Idle EXCEPT !.pc = "done"] /\ s.pc = "done"
      /\ s.own = Empty /\ s.prev = Absent /\ s.status = "todo" /\ s.victims = {}
  BY <1>0, <1>1, IdleTyped DEF Runs
<1>2. Done(r) = [s EXCEPT !.answer = r.answer, !.billing = r.billing, !.auth = r.auth,
                          !.began = r.began, !.owner = r.owner, !.closed = r.closed]
  BY <1>3 DEF Done
<1> QED
  BY <1>2, <1>3, ZenonT(30) DEF Runs

\* The clock: readings are later than all before.
LEMMA Clock ==
    ASSUME Typed, ReadsClock
    PROVE  now \in Nat /\ Reading = now + 1 /\ now' = Reading /\ Reading \in Instants
  BY CacheConstants DEF Typed, ReadsClock, Reading, Instants

\* A step that moves one run, lets time pass and writes entries of the past.
LEMMA StepTyped ==
    ASSUME Typed, NEW p \in Procs, NEW r \in Runs, Moves(p, r), Fits(p, r)',
           now' \in Instants, now' >= now, claimed' \in [Auths -> BOOLEAN],
           flight' \in [Auths -> Callers \cup {None}],
           cache' \in [Auths -> Entries \cup {Absent}],
           \A a \in Auths : cache'[a] = cache[a] \/ Past(cache[a])'
    PROVE  Typed'
<1>1. now \in Int /\ now' \in Int /\ now' >= now
  BY CacheConstants DEF Typed, Instants
<1>2. ASSUME NEW e \in Entries \cup {Absent}, Past(e) PROVE Past(e)'
  <2>1. e.checkinAt \in Int /\ e.credits \in Int /\ e.fetched \in Int
    BY EmptyTyped, CacheConstants DEF Entries, Instants
  <2> QED
    BY <1>1, <1>2, <2>1 DEF Past
<1>3. \A a \in Auths : Past(cache[a])'
  BY <1>2 DEF Typed
<1>4. ASSUME NEW x \in Procs PROVE Fits(x, proc[x])'
  <2>1. CASE x = p
    BY <2>1, OneMoves
  <2>2. CASE x # p
    <3>1. PICK q \in Runs : q = proc[x] /\ q = proc'[x]
      BY <2>2, OneMoves DEF Typed
    <3>2. Fits(x, q) /\ q.began \in Int /\ q.own \in Entries /\ q.prev \in Entries \cup {Absent}
      <4>1. q.began \in Instants /\ q.own \in Entries /\ q.prev \in Entries \cup {Absent}
        BY DEF Runs
      <4>2. Fits(x, q)
        BY <3>1 DEF Typed
      <4> QED
        BY <4>1, <4>2, CacheConstants DEF Instants
    <3>3. Past(q.own)' /\ Past(q.prev)' /\ q.began <= now'
      BY <1>1, <1>2, <3>2 DEF Fits
    <3> QED
      BY <3>1, <3>2, <3>3 DEF Fits, InPhase
  <2> QED
    BY <2>1, <2>2
<1> QED
  BY <1>3, <1>4, OneMoves DEF Typed

-----------------------------------------------------------------------------
(* Steps that leave a layer as it was.                                     *)

InFlight(r) == r.pc \in {"fetch", "prune", "drop", "close", "release"}

\* A step that neither begins nor ends a flight.
CalmFlight(p, r) ==
    p \in Callers =>
        /\ r.pc # "wait" /\ proc[p].pc # "done"
        /\ InFlight(r) <=> InFlight(proc[p])
        /\ proc[p].pc = "idle" \/ (r.auth = proc[p].auth /\ r.began = proc[p].began)

LEMMA FlightsStay ==
    ASSUME Base, NEW p \in Procs, NEW r \in Runs, Moves(p, r), CalmFlight(p, r),
           flight' = flight
    PROVE  Flights' /\ Joined'
<1>1. proc'[p] = r /\ \A x \in Procs \ {p} : proc'[x] = proc[x]
  BY OneMoves DEF Base
<1>2. Callers \subseteq Procs /\ None \notin Callers
  BY CacheConstants DEF Procs
<1>3. \A x \in Callers :
        /\ Fetching(x)' <=> Fetching(x)
        /\ Fetching(x) => proc'[x].auth = proc[x].auth
  BY <1>1, <1>2 DEF CalmFlight, InFlight, Fetching
<1>4. Flights'
  <2>1. \A a \in Auths : flight[a] \in Callers \cup {None}
    BY DEF Base, Typed
  <2> QED
    BY <1>3, <2>1 DEF Base, Flights
<1>5. ASSUME NEW w \in Callers, proc'[w].pc = "wait"
      PROVE  proc'[w].owner \in Callers /\ Awaits(w, proc[w].owner)'
  <2>1. proc'[w] = proc[w]
    BY <1>1, <1>2, <1>5 DEF CalmFlight
  <2>2. PICK o \in Callers : o = proc[w].owner /\ o = proc'[w].owner /\ Awaits(w, o)
    BY <1>5, <2>1 DEF Base, Joined
  <2>3. /\ proc'[o].auth = proc[o].auth /\ proc'[o].began = proc[o].began
        /\ proc[o].pc = "done" => proc'[o].pc = "done"
    <3>1. CASE o = p
      BY <1>1, <2>2, <3>1 DEF CalmFlight, Fetching, Awaits
    <3>2. CASE o # p
      BY <1>1, <1>2, <3>2
    <3> QED
      BY <3>1, <3>2
  <2>4. Awaits(w, o)'
    BY <1>3, <2>1, <2>2, <2>3 DEF Awaits
  <2> QED
    BY <2>2, <2>4
<1> QED
  BY <1>4, <1>5 DEF Joined

\* A step that reads no balance and answers nobody.
CalmRead(p, r) ==
    /\ p \in Callers =>
         /\ r.auth = proc[p].auth /\ r.began = proc[p].began
         /\ r.pc = "fetch" /\ r.billing = "ok" =>
              proc[p].pc = "fetch" /\ proc[p].billing = "ok" /\ r.own.credits = proc[p].own.credits
         /\ Served(r) => /\ Served(proc[p]) /\ r.answer = proc[p].answer
                         /\ r.billing = proc[p].billing /\ r.owner = proc[p].owner
    /\ p \in Queries => proc[p].pc # "done"

\* What queries returned stays returned.
LEMMA QueriedStays ==
    ASSUME Typed, NEW p \in Procs, NEW r \in Runs, Moves(p, r),
           p \in Queries => proc[p].pc # "done"
    PROVE  \A n : Queried(n) => Queried(n)'
<1>1. \A x \in Procs \ {p} : proc'[x] = proc[x]
  BY OneMoves
<1>2. Queries \subseteq Procs
  BY DEF Procs
<1> QED
  BY <1>1, <1>2 DEF Queried

\* Nor does it, where it writes, show an old balance.
LEMMA FreshStays ==
    ASSUME Typed, Fresh, NEW p \in Procs, NEW r \in Runs, Moves(p, r), CalmRead(p, r),
           \A a \in Auths : \/ cache'[a].credits \in {NoCredits, cache[a].credits}
                            \/ Queried(cache[a].credits)'
    PROVE  Fresh'
<1>1. proc'[p] = r /\ \A x \in Procs \ {p} : proc'[x] = proc[x]
  BY OneMoves
<1>2. Callers \subseteq Procs
  BY DEF Procs
<1>3. \A n : Queried(n) => Queried(n)'
  BY QueriedStays DEF CalmRead
<1>4. \A x \in Callers :
        /\ proc'[x].auth = proc[x].auth /\ proc'[x].began = proc[x].began
        /\ proc'[x].pc = "fetch" /\ proc'[x].billing = "ok" =>
             /\ proc[x].pc = "fetch" /\ proc[x].billing = "ok"
             /\ proc'[x].own.credits = proc[x].own.credits
        /\ Served(proc'[x]) =>
             /\ Served(proc[x]) /\ proc'[x].answer = proc[x].answer
             /\ proc'[x].billing = proc[x].billing /\ proc'[x].owner = proc[x].owner
  BY <1>1, <1>2 DEF CalmRead
<1>5. ReadLater'
  BY <1>4 DEF Fresh, ReadLater
<1>6. CacheLater'
  <2> SUFFICES ASSUME NEW o \in Callers, Served(proc'[o]), proc'[o].auth \in Auths
               PROVE  Later(cache[proc[o].auth].credits, o)'
    BY DEF CacheLater
  <2>1. PICK a \in Auths : a = proc[o].auth /\ a = proc'[o].auth
    BY <1>4
  <2>2. Later(cache[a].credits, o)
    BY <1>4, <2>1 DEF Fresh, CacheLater
  <2>3. proc'[o].began = proc[o].began
    BY <1>4
  <2>4. Later(cache[a].credits, o)'
    BY <1>3, <2>2, <2>3 DEF Later
  <2> QED
    BY <2>1, <2>4 DEF Later
<1>7. \A o \in Callers : AnswerLater(o)'
  BY <1>3, <1>4 DEF Fresh, AnswerLater
<1> QED
  BY <1>5, <1>6, <1>7 DEF Fresh
\* A step that moves one run, leaves the cache and confirms nothing.
CalmKept(p, r) ==
    /\ KnownRun(r)
    /\ p \in Callers => OlderRun(r) /\ (NothingDeleted => FallbackRun(r) /\ r.pc # "drop")
    /\ p \notin Checkins

LEMMA ConfirmedStays ==
    ASSUME Typed, Confirmed, NEW p \in Procs, NEW r \in Runs, Moves(p, r), p \notin Checkins,
           claimed' = claimed
    PROVE  Confirmed'
<1>1. \A k \in Checkins : proc'[k] = proc[k]
  BY OneMoves DEF Procs
<1> QED
  BY <1>1 DEF Confirmed, Locks, Status

LEMMA KeptStays ==
    ASSUME Typed, Kept, NEW p \in Procs, NEW r \in Runs, Moves(p, r), CalmKept(p, r),
           claimed' = claimed, cache' = cache
    PROVE  Kept'
<1>1. proc'[p] = r /\ \A x \in Procs \ {p} : proc'[x] = proc[x]
  BY OneMoves
<1>2. Callers \subseteq Procs
  BY DEF Procs
<1>3. Confirmed'
  BY ConfirmedStays DEF CalmKept, Kept
<1>4. Known'
  <2>1. ASSUME NEW x \in Procs PROVE KnownRun(proc[x])'
    BY <1>1 DEF CalmKept, Kept, Known, KnownRun
  <2> QED
    BY <2>1 DEF Kept, Known
<1>5. ASSUME NEW x \in Callers PROVE OlderRun(proc[x])'
  BY <1>1, <1>2 DEF CalmKept, Kept, OlderRun
<1>6. ASSUME NothingDeleted, NEW x \in Callers PROVE FallbackRun(proc[x])' /\ proc'[x].pc # "drop"
  BY <1>1, <1>2, <1>6 DEF CalmKept, Kept, FallbackRun, Lasting
<1> QED
  BY <1>3, <1>4, <1>5, <1>6 DEF Kept, Lasting, NothingDeleted

\* What may be written to the cache beside a fetch: nothing new, an entry without a
\* stamp where there was none, or one whose stamp is the last reading.
Stamped(e, c) ==
    \/ c # Absent /\ e # Absent /\ e.checkin = c.checkin /\ e.checkinAt = c.checkinAt
    \/ c.checkinAt = 0 /\ e.checkinAt = 0 /\ e # Absent
    \/ e.checkinAt = now + 1 /\ e # Absent

LEMMA OthersWrite ==
    ASSUME Typed, Kept, NEW p \in Procs, NEW r \in Runs, Moves(p, r), p \notin Callers,
           KnownRun(r), NEW a \in Auths, NEW e \in Entries, cache' = [cache EXCEPT ![a] = e],
           Stamped(e, cache[a]), e.checkin = "yes" => claimed[a], claimed' = claimed,
           Confirmed'
    PROVE  Kept'
<1>1. proc'[p] = r /\ \A x \in Procs \ {p} : proc'[x] = proc[x]
  BY OneMoves
<1>2. Callers \subseteq Procs
  BY DEF Procs
<1>3. /\ cache \in [Auths -> Entries \cup {Absent}]
      /\ cache'[a] = e /\ \A b \in Auths \ {a} : cache'[b] = cache[b]
  BY DEF Typed
<1>4. Known'
  <2>1. ASSUME NEW x \in Procs PROVE KnownRun(proc[x])'
    BY <1>1 DEF Kept, Known, KnownRun
  <2> QED
    BY <1>3, <2>1 DEF Kept, Known
<1>5. ASSUME NEW x \in Callers
      PROVE  OlderRun(proc[x])' /\ (FallbackRun(proc[x]) => FallbackRun(proc[x])')
  <2>1. PICK q \in Runs : q = proc[x] /\ q = proc'[x]
    BY <1>1, <1>2 DEF Typed
  <2>2. /\ q.own \in Entries /\ q.prev \in Entries \cup {Absent}
        /\ Past(q.own) /\ Past(q.prev) /\ (q.pc \notin {"idle", "done"} => q.auth \in Auths)
    BY <1>2, <2>1, ZenonT(30) DEF Typed, Runs, Fits
  <2>3. /\ q.own.checkinAt \in Int /\ q.prev.checkinAt \in Int /\ now \in Int
        /\ q.own.checkinAt <= now /\ q.prev.checkinAt <= now
        /\ e.checkinAt \in Int /\ e.checkinAt >= 0
        /\ q.prev.checkinAt >= 0 /\ q.own.checkinAt >= 0
    BY <2>2, EmptyTyped, CacheConstants DEF Entries, Instants, Past, Typed
  <2>4. CASE q.auth = a
    <3>1. PICK c \in Entries \cup {Absent} : c = cache[a]
      BY <1>3
    <3>2. c.checkinAt \in Int /\ c.checkinAt >= 0 /\ c.checkinAt <= now
      BY <3>1, EmptyTyped, CacheConstants DEF Entries, Instants, Past, Typed
    <3>3. e # Absent
      BY EmptyTyped
    <3>4. OlderRun(q)'
      <4>1. OlderRun(q)
        BY <2>1 DEF Kept
      <4> QED
        BY <1>3, <2>3, <2>4, <3>1, <3>2, <4>1 DEF OlderRun, Stamped
    <3>5. FallbackRun(q) => FallbackRun(q)'
      BY <1>3, <2>3, <2>4, <3>1, <3>2, <3>3 DEF FallbackRun, Stamped
    <3> QED
      BY <2>1, <3>4, <3>5
  <2>5. CASE q.auth # a
    <3>1. q.pc \in {"join", "fetch"} => cache'[q.auth] = cache[q.auth]
      BY <1>3, <2>2, <2>5
    <3> QED
      BY <2>1, <3>1 DEF Kept, OlderRun, FallbackRun
  <2> QED
    BY <2>4, <2>5
<1>6. ASSUME NothingDeleted, NEW x \in Callers PROVE FallbackRun(proc[x])' /\ proc'[x].pc # "drop"
  BY <1>1, <1>2, <1>5, <1>6 DEF Kept, Lasting
<1> QED
  BY <1>4, <1>5, <1>6 DEF Kept, Lasting, NothingDeleted

\* A deletion leaves all but the fallback as it was.
LEMMA DropKeeps ==
    ASSUME Typed, Kept, NEW a \in Auths, cache' = [cache EXCEPT ![a] = Absent],
           claimed' = claimed, ~NothingDeleted, Confirmed',
           \A x \in Procs : KnownRun(proc'[x]),
           \A x \in Callers : proc'[x].pc = "fetch" => proc'[x] = proc[x]
    PROVE  Kept'
<1>1. /\ cache \in [Auths -> Entries \cup {Absent}]
      /\ cache'[a] = Absent /\ \A b \in Auths \ {a} : cache'[b] = cache[b]
  BY DEF Typed
<1>2. Known'
  BY <1>1, EmptyTyped DEF Kept, Known, KnownRun
<1>3. ASSUME NEW x \in Callers PROVE OlderRun(proc[x])'
  <2>1. SUFFICES ASSUME proc'[x].pc = "fetch" PROVE OlderRun(proc[x])'
    BY DEF OlderRun
  <2>2. proc'[x] = proc[x] /\ proc[x].auth \in Auths
    BY <2>1 DEF Typed, Fits, Procs
  <2>3. CASE proc[x].auth = a
    BY <1>1, <2>2, <2>3, EmptyTyped DEF OlderRun
  <2>4. CASE proc[x].auth # a
    BY <1>1, <2>2, <2>4 DEF OlderRun, Kept
  <2> QED
    BY <2>3, <2>4
<1> QED
  BY <1>2, <1>3 DEF Kept, NothingDeleted

-----------------------------------------------------------------------------
(* Every step keeps the invariant.                                         *)

Inv ==
    /\ Base
    /\ "credits" \notin Faults => Fresh
    /\ Invalidators = {} => Kept

\* A run is typed and fits.
LEMMA OneRun ==
    ASSUME Typed, NEW p \in Procs
    PROVE  /\ proc[p] \in Runs /\ Fits(p, proc[p])
           /\ proc[p].own \in Entries /\ proc[p].prev \in Entries \cup {Absent}
           /\ proc[p].began \in Instants /\ proc[p].answer \in Instants
           /\ now \in Nat /\ MaxNow \in Nat /\ now <= MaxNow
<1>1. proc[p] \in Runs /\ Fits(p, proc[p])
  BY DEF Typed
<1> QED
  BY <1>1, CacheConstants DEF Runs, Typed, Instants

\* What was past stays past.
LEMMA PastLater ==
    ASSUME Typed, now' \in Instants, now' >= now
    PROVE  /\ \A e \in Entries \cup {Absent} : Past(e) => Past(e)'
           /\ \A t \in Instants : t <= now => t <= now'
<1>1. now \in Int /\ now' \in Int
  BY CacheConstants DEF Typed, Instants
<1>2. ASSUME NEW e \in Entries \cup {Absent}, Past(e) PROVE Past(e)'
  <2>1. e.checkinAt \in Int /\ e.credits \in Int /\ e.fetched \in Int
    BY EmptyTyped, CacheConstants DEF Entries, Instants
  <2> QED
    BY <1>1, <1>2, <2>1 DEF Past
<1>3. ASSUME NEW t \in Instants, t <= now PROVE t <= now'
  BY <1>1, <1>3, CacheConstants DEF Instants
<1> QED
  BY <1>2, <1>3

LEMMA RunLater ==
    ASSUME Typed, NEW p \in Procs, NEW q \in Runs, q = proc[p],
           now' \in Instants, now' >= now
    PROVE  q.began <= now' /\ Past(q.prev)' /\ Past(q.own)'
<1>1. /\ q.began \in Instants /\ q.prev \in Entries \cup {Absent} /\ q.own \in Entries
  BY DEF Runs
<1>2. q.began <= now /\ Past(q.prev) /\ Past(q.own)
  BY DEF Typed, Fits
<1> QED
  BY <1>1, <1>2, PastLater

\* A step that moves one run and changes nothing shared.
LEMMA QuietStep ==
    ASSUME Inv, NEW p \in Procs, NEW r \in Runs, Moves(p, r), Fits(p, r)',
           now' \in Instants, now' >= now,
           CalmFlight(p, r), CalmRead(p, r), Invalidators = {} => CalmKept(p, r),
           UNCHANGED <<claimed, cache, flight>>
    PROVE  Inv'
<1>1. Typed'
  <2>1. \A a \in Auths : cache'[a] = cache[a]
    OBVIOUS
  <2> QED
    BY <2>1, StepTyped DEF Inv, Base, Typed
<1>2. Flights' /\ Joined'
  BY FlightsStay DEF Inv
<1>3. "credits" \notin Faults => Fresh'
  <2>1. \A a \in Auths : cache'[a].credits \in {NoCredits, cache[a].credits}
    OBVIOUS
  <2> QED
    BY <2>1, FreshStays DEF Inv, Base
<1>4. Invalidators = {} => Kept'
  BY KeptStays DEF Inv, Base
<1> QED
  BY <1>1, <1>2, <1>3, <1>4 DEF Inv, Base

LEMMA StartStatusKeeps == ASSUME Inv, NEW p \in Callers, StartStatus(p) PROVE Inv'
<1>0. p \in Procs /\ Typed
  BY DEF Procs, Inv, Base
<1>1. PICK q \in Runs : q = proc[p]
  BY <1>0, OneRun
<1>2. /\ q.pc = "fetch" /\ q.status = "todo" /\ Fits(p, q) /\ q.own \in Entries
      /\ q.auth \in Auths
  BY <1>0, <1>1, OneRun DEF StartStatus, Fits
<1>3. now \in Nat /\ Reading = now + 1 /\ now' = Reading /\ Reading \in Instants
  BY <1>0, Clock DEF StartStatus
<1>4. PICK e : e = [q.own EXCEPT !.checkinAt = Reading]
  OBVIOUS
<1>5. /\ e \in Entries /\ e.checkinAt = Reading /\ e.checkin = q.own.checkin
      /\ e.credits = q.own.credits /\ e.fetched = q.own.fetched
  BY <1>2, <1>3, <1>4 DEF Entries
<1>6. PICK r : r = [q EXCEPT !.status = "sent", !.own = e]
  OBVIOUS
<1>7. /\ r \in Runs /\ r.status = "sent" /\ r.own = e /\ r.pc = "fetch" /\ r.auth = q.auth
      /\ r.prev = q.prev /\ r.billing = q.billing /\ r.began = q.began /\ r.owner = q.owner
      /\ r.victims = q.victims /\ r.answer = q.answer /\ r.closed = q.closed
  BY <1>2, <1>5, <1>6 DEF Runs
<1>8. Moves(p, r)
  BY <1>0, <1>1, <1>4, <1>6 DEF StartStatus, Moves, Inv, Base, Typed
<1>9. Fits(p, r)'
  <2>1. q.began <= now' /\ Past(q.prev)' /\ Past(q.own)'
    BY <1>0, <1>1, <1>3, RunLater
  <2>2. Past(e)'
    BY <1>3, <1>5, <2>1 DEF Past
  <2> QED
    BY <1>2, <1>7, <2>1, <2>2, CacheConstants DEF Fits, InPhase
<1>10. CalmFlight(p, r) /\ CalmRead(p, r)
  BY <1>1, <1>2, <1>5, <1>7 DEF CalmFlight, CalmRead, InFlight, Served
<1>11. ASSUME Invalidators = {} PROVE CalmKept(p, r)
  <2>1. Kept /\ p \notin Checkins
    BY <1>11, CacheConstants DEF Inv
  <2>2. KnownRun(r)
    BY <1>0, <1>1, <1>5, <1>7, <2>1 DEF Kept, Known, KnownRun
  <2>3. OlderRun(r)
    BY <1>0, <1>2, <1>3, <1>5, <1>7 DEF OlderRun, Typed, Past
  <2>4. NothingDeleted => FallbackRun(r)
    BY <1>1, <1>2, <1>7, <2>1 DEF Kept, Lasting, FallbackRun
  <2> QED
    BY <1>7, <2>1, <2>2, <2>3, <2>4 DEF CalmKept
<1> QED
  BY <1>0, <1>3, <1>7, <1>8, <1>9, <1>10, <1>11, QuietStep DEF StartStatus

LEMMA ReadStatusKeeps == ASSUME Inv, NEW p \in Callers, ReadStatus(p) PROVE Inv'
<1>0. p \in Procs /\ Typed
  BY DEF Procs, Inv, Base
<1>1. PICK q \in Runs : q = proc[p]
  BY <1>0, OneRun
<1>2. /\ q.pc = "fetch" /\ q.status = "sent" /\ Fits(p, q) /\ q.own \in Entries
      /\ q.auth \in Auths
  BY <1>0, <1>1, OneRun DEF ReadStatus, Fits
<1>3. now \in Nat /\ now' = now /\ now' \in Instants
  BY <1>0, OneRun DEF ReadStatus, Typed
<1>4. PICK e \in Entries, st \in {"ok", "failed"} :
        /\ e.credits = q.own.credits /\ e.fetched = q.own.fetched
        /\ Moves(p, [q EXCEPT !.status = st, !.own = e])
        /\ \/ st = "ok" /\ e.checkin = Status(q.auth) /\ e.checkinAt = q.own.checkinAt
           \/ st = "failed" /\ "status" \in Faults /\ e.checkin = q.own.checkin /\ e.checkinAt = 0
  <2>1. CASE proc' = [proc EXCEPT ![p].status = "ok", ![p].own.checkin = Status(proc[p].auth)]
    <3>1. PICK e : e = [q.own EXCEPT !.checkin = Status(q.auth)]
      OBVIOUS
    <3>2. Status(q.auth) \in Statuses
      BY DEF Status, Statuses
    <3>3. /\ e \in Entries /\ e.checkin = Status(q.auth) /\ e.checkinAt = q.own.checkinAt
          /\ e.credits = q.own.credits /\ e.fetched = q.own.fetched
      BY <1>2, <3>1, <3>2 DEF Entries
    <3>4. Moves(p, [q EXCEPT !.status = "ok", !.own = e])
      BY <1>0, <1>1, <2>1, <3>1 DEF Moves, Typed
    <3> QED
      BY <3>3, <3>4
  <2>2. CASE /\ "status" \in Faults
             /\ proc' = [proc EXCEPT ![p].status = "failed", ![p].own.checkinAt = 0]
    <3>1. PICK e : e = [q.own EXCEPT !.checkinAt = 0]
      OBVIOUS
    <3>2. 0 \in Instants
      BY CacheConstants DEF Instants
    <3>3. /\ e \in Entries /\ e.checkin = q.own.checkin /\ e.checkinAt = 0
          /\ e.credits = q.own.credits /\ e.fetched = q.own.fetched
      BY <1>2, <3>1, <3>2 DEF Entries
    <3>4. Moves(p, [q EXCEPT !.status = "failed", !.own = e])
      BY <1>0, <1>1, <2>2, <3>1 DEF Moves, Typed
    <3> QED
      BY <2>2, <3>3, <3>4
  <2> QED
    BY <2>1, <2>2 DEF ReadStatus
<1>6. PICK r : r = [q EXCEPT !.status = st, !.own = e]
  OBVIOUS
<1>7. /\ r \in Runs /\ r.status = st /\ r.own = e /\ r.pc = "fetch" /\ r.auth = q.auth
      /\ r.prev = q.prev /\ r.billing = q.billing /\ r.began = q.began /\ r.owner = q.owner
      /\ r.victims = q.victims /\ r.answer = q.answer /\ r.closed = q.closed
  BY <1>2, <1>4, <1>6 DEF Runs
<1>8. Moves(p, r)
  BY <1>4, <1>6
<1>9. Fits(p, r)'
  <2>1. q.began <= now' /\ Past(q.prev)' /\ Past(q.own)'
    BY <1>0, <1>1, <1>3, RunLater
  <2>2. Past(e)'
    BY <1>3, <1>4, <2>1 DEF Past
  <2> QED
    BY <1>2, <1>4, <1>7, <2>1, <2>2, CacheConstants DEF Fits, InPhase
<1>10. CalmFlight(p, r) /\ CalmRead(p, r)
  BY <1>1, <1>2, <1>4, <1>7, CacheConstants DEF CalmFlight, CalmRead, InFlight, Served
<1>11. ASSUME Invalidators = {} PROVE CalmKept(p, r)
  <2>1. Kept /\ p \notin Checkins
    BY <1>11, CacheConstants DEF Inv
  <2>2. KnownRun(r)
    BY <1>0, <1>1, <1>4, <1>7, <2>1 DEF Kept, Known, KnownRun, Status
  <2>3. OlderRun(r)
    <3>1. OlderRun(q)
      BY <1>1, <2>1 DEF Kept
    <3>2. st = "ok" /\ e.checkin # "yes" => cache[q.auth].checkin # "yes"
      BY <1>2, <1>4, <2>1 DEF Kept, Known, Status
    <3> QED
      BY <1>2, <1>4, <1>7, <3>1, <3>2 DEF OlderRun
  <2>4. NothingDeleted => FallbackRun(r)
    BY <1>1, <1>2, <1>7, <2>1 DEF Kept, Lasting, FallbackRun
  <2> QED
    BY <1>7, <2>1, <2>2, <2>3, <2>4 DEF CalmKept
<1> QED
  BY <1>0, <1>3, <1>7, <1>8, <1>9, <1>10, <1>11, QuietStep DEF ReadStatus

\* A caller that has stored moves on.
LEMMA PhaseKeeps ==
    ASSUME Inv, NEW p \in Callers, NEW q \in Runs, q = proc[p],
           q.pc \in {"prune", "close"}, NEW r \in Runs, Moves(p, r),
           r.pc \in {"drop", "close", "release"}, r.closed => r.pc = "release",
           NothingDeleted => r.pc # "drop",
           r.auth = q.auth, r.prev = q.prev, r.own = q.own, r.status = q.status,
           r.billing = q.billing, r.began = q.began, r.owner = q.owner, r.answer = q.answer,
           UNCHANGED <<now, claimed, cache, flight>>
    PROVE  Inv'
<1>0. p \in Procs /\ Typed
  BY DEF Procs, Inv, Base
<1>1. Fits(p, q) /\ q.auth \in Auths
  BY <1>0, OneRun DEF Fits
<1>2. now' \in Instants /\ now' >= now
  BY <1>0, OneRun DEF Typed
<1>3. Fits(p, r)'
  BY <1>1, CacheConstants DEF Fits, InPhase, Past
<1>4. CalmFlight(p, r) /\ CalmRead(p, r)
  BY CacheConstants DEF CalmFlight, CalmRead, InFlight, Served
<1>5. ASSUME Invalidators = {} PROVE CalmKept(p, r)
  <2>1. Kept /\ p \notin Checkins
    BY <1>5, CacheConstants DEF Inv
  <2>2. KnownRun(r)
    BY <1>0, <2>1 DEF Kept, Known, KnownRun
  <2> QED
    BY <2>1, <2>2 DEF CalmKept, OlderRun, FallbackRun
<1> QED
  BY <1>0, <1>2, <1>3, <1>4, <1>5, QuietStep

\* With room for all there is nothing to prune.
LEMMA RoomForAll ==
    ASSUME NothingDeleted, NEW v \in victimSets PROVE v = {}
<1>1. Present \subseteq Auths /\ IsFiniteSet(Auths)
  BY DEF Present, NothingDeleted
<1>2. IsFiniteSet(Present) /\ Cardinality(Present) <= Cardinality(Auths)
  BY <1>1, FS_Subset
<1>3. Cardinality(Present) \in Nat /\ Cardinality(Auths) \in Nat /\ Cap \in Nat
  BY <1>1, <1>2, FS_CardinalityType, CacheConstants
<1>4. v \subseteq Present /\ Cardinality(v) = 0
  BY <1>2, <1>3 DEF victimSets, NothingDeleted
<1>5. IsFiniteSet(v)
  BY <1>2, <1>4, FS_Subset
<1> QED
  BY <1>4, <1>5, FS_EmptySet

LEMMA PruneLookKeeps == ASSUME Inv, NEW p \in Callers, PruneLook(p) PROVE Inv'
<1>0. p \in Procs /\ Typed
  BY DEF Procs, Inv, Base
<1>1. PICK q \in Runs : q = proc[p]
  BY <1>0, OneRun
<1>2. PICK v \in victimSets :
        proc' = [proc EXCEPT ![p].pc = IF v = {} THEN "close" ELSE "drop", ![p].victims = v]
  BY DEF PruneLook
<1>3. v \subseteq Auths /\ q.pc = "prune" /\ Fits(p, q)
  BY <1>0, <1>1, <1>2, OneRun DEF victimSets, Present, PruneLook
<1>4. PICK ph : ph = IF v = {} THEN "close" ELSE "drop"
  OBVIOUS
<1>5. PICK r : r = [q EXCEPT !.pc = ph, !.victims = v]
  OBVIOUS
<1>6. /\ r \in Runs /\ r.pc = ph /\ r.auth = q.auth /\ r.prev = q.prev /\ r.own = q.own
      /\ r.status = q.status /\ r.billing = q.billing /\ r.began = q.began
      /\ r.owner = q.owner /\ r.answer = q.answer /\ r.closed = q.closed
  BY <1>3, <1>4, <1>5 DEF Runs
<1>7. Moves(p, r)
  BY <1>0, <1>1, <1>2, <1>4, <1>5 DEF Moves, Typed
<1>8. NothingDeleted => ph # "drop"
  BY <1>4, RoomForAll
<1>9. ~r.closed
  BY <1>3, <1>6 DEF Fits
<1> QED
  BY <1>1, <1>3, <1>4, <1>6, <1>7, <1>8, <1>9, PhaseKeeps DEF PruneLook

LEMMA CloseKeeps == ASSUME Inv, NEW p \in Callers, Close(p) PROVE Inv'
<1>0. p \in Procs /\ Typed
  BY DEF Procs, Inv, Base
<1>1. PICK q \in Runs : q = proc[p]
  BY <1>0, OneRun
<1>2. PICK r : r = [q EXCEPT !.pc = "release", !.closed = TRUE]
  OBVIOUS
<1>3. /\ r \in Runs /\ r.pc = "release" /\ r.auth = q.auth /\ r.prev = q.prev /\ r.own = q.own
      /\ r.status = q.status /\ r.billing = q.billing /\ r.began = q.began
      /\ r.owner = q.owner /\ r.answer = q.answer
  BY <1>2 DEF Runs
<1>4. Moves(p, r)
  BY <1>0, <1>1, <1>2 DEF Close, Moves, Typed
<1>5. q.pc = "close"
  BY <1>1 DEF Close
<1> QED
  BY <1>1, <1>3, <1>4, <1>5, PhaseKeeps DEF Close

-----------------------------------------------------------------------------
(* The others.                                                             *)

\* A step of one that is not a detail call.
LEMMA OtherStep ==
    ASSUME Inv, NEW p \in Procs \ Callers, NEW r \in Runs, Moves(p, r), Fits(p, r)',
           now' \in Instants, now' >= now, flight' = flight,
           p \in Queries => proc[p].pc # "done",
           claimed' \in [Auths -> BOOLEAN], cache' \in [Auths -> Entries \cup {Absent}],
           \A a \in Auths : cache'[a] = cache[a] \/ Past(cache[a])',
           \A a \in Auths : \/ cache'[a].credits \in {NoCredits, cache[a].credits}
                            \/ Queried(cache[a].credits)',
           Invalidators = {} => Kept'
    PROVE  Inv'
<1>1. Typed'
  BY StepTyped DEF Inv, Base, Typed
<1>2. CalmFlight(p, r) /\ CalmRead(p, r)
  BY DEF CalmFlight, CalmRead
<1>3. Flights' /\ Joined'
  BY <1>2, FlightsStay DEF Inv
<1>4. "credits" \notin Faults => Fresh'
  BY <1>2, FreshStays DEF Inv, Base
<1> QED
  BY <1>1, <1>3, <1>4 DEF Inv, Base

LEMMA KindsApart ==
    /\ \A p \in Queries :
         p \in Procs /\ p \notin Callers \cup Checkins \cup Invalidators \cup Panels
    /\ \A p \in Checkins :
         p \in Procs /\ p \notin Callers \cup Queries \cup Invalidators \cup Panels
    /\ \A p \in Invalidators :
         p \in Procs /\ p \notin Callers \cup Checkins \cup Queries \cup Panels
    /\ \A p \in Panels :
         p \in Procs /\ p \notin Callers \cup Checkins \cup Invalidators \cup Queries
  BY CacheConstants DEF Procs

\* A query reads the balance, or fails.
LEMMA QueryCreditsKeeps ==
    ASSUME Inv, NEW p \in Queries, NEW a \in Auths, QueryCredits(p, a) PROVE Inv'
<1>0. p \in Procs \ Callers /\ p \notin Checkins /\ Typed
  BY KindsApart DEF Inv, Base
<1>1. PICK i \in Runs : i = Idle
  BY IdleTyped
<1>2. CASE /\ ReadsClock
           /\ proc' = [proc EXCEPT ![p] = [Idle EXCEPT !.pc = "fetched", !.auth = a,
                                                       !.own.credits = Reading]]
  <2>1. now \in Nat /\ Reading = now + 1 /\ now' = Reading /\ Reading \in Instants
    BY <1>0, <1>2, Clock
  <2>2. PICK e : e = [i.own EXCEPT !.credits = Reading]
    OBVIOUS
  <2>3. /\ e \in Entries /\ e.checkinAt = 0 /\ e.checkin = "nil" /\ e.fetched = 0
        /\ e.credits = Reading
    BY <1>1, <2>1, <2>2, IdleTyped, EmptyTyped DEF Entries
  <2>4. PICK r : r = [i EXCEPT !.pc = "fetched", !.auth = a, !.own = e]
    OBVIOUS
  <2>5. /\ r \in Runs /\ r.pc = "fetched" /\ r.auth = a /\ r.own = e /\ r.prev = Absent
        /\ r.status = "todo" /\ r.billing = "todo" /\ r.began = 0 /\ r.closed = FALSE
    BY <1>1, <2>3, <2>4, IdleTyped DEF Runs
  <2>6. Moves(p, r)
    <3>1. r = [Idle EXCEPT !.pc = "fetched", !.auth = a, !.own.credits = Reading]
      BY <1>1, <2>2, <2>4
    <3> QED
      BY <1>2, <3>1 DEF Moves
  <2>7. Fits(p, r)'
    BY <1>0, <2>1, <2>3, <2>5, EmptyTyped, KindsApart DEF Fits, InPhase, Past
  <2>8. CalmFlight(p, r) /\ CalmRead(p, r)
    BY <1>0 DEF CalmFlight, CalmRead, QueryCredits
  <2>9. CalmKept(p, r)
    BY <1>0, <2>3, <2>5, EmptyTyped DEF CalmKept, KnownRun
  <2> QED
    BY <1>0, <2>1, <2>5, <2>6, <2>7, <2>8, <2>9, QuietStep DEF QueryCredits
<1>3. CASE proc' = [proc EXCEPT ![p] = Done(Idle)] /\ UNCHANGED now
  <2>1. PICK r \in Runs : r = Done(Idle)
    BY IdleTyped, DoneTyped
  <2>2. /\ r.pc = "done" /\ r.own = Empty /\ r.prev = Absent /\ r.status = "todo"
        /\ r.billing = "todo" /\ r.began = 0 /\ r.closed = FALSE
    BY <2>1, IdleTyped, DoneTyped
  <2>3. Moves(p, r) /\ now' \in Instants /\ now' \in Nat /\ now' >= now
    BY <1>0, <1>3, <2>1, OneRun DEF Moves, Typed
  <2>4. Fits(p, r)'
    BY <1>0, <2>2, <2>3, EmptyTyped, KindsApart DEF Fits, InPhase, Past, NoCredits
  <2>5. CalmFlight(p, r) /\ CalmRead(p, r)
    BY <1>0 DEF CalmFlight, CalmRead, QueryCredits
  <2>6. CalmKept(p, r)
    BY <1>0, <2>2, EmptyTyped DEF CalmKept, KnownRun
  <2> QED
    BY <1>0, <2>3, <2>4, <2>5, <2>6, QuietStep DEF QueryCredits
<1> QED
  BY <1>2, <1>3 DEF QueryCredits

LEMMA QueryLoadKeeps == ASSUME Inv, NEW p \in Queries, QueryLoad(p) PROVE Inv'
<1>0. p \in Procs \ Callers /\ p \notin Checkins /\ Typed
  BY KindsApart DEF Inv, Base
<1>1. PICK q \in Runs : q = proc[p]
  BY <1>0, OneRun
<1>2. q.pc = "fetched" /\ Fits(p, q) /\ q.own \in Entries /\ q.auth \in Auths
  BY <1>0, <1>1, OneRun DEF QueryLoad, Fits
<1>3. now \in Nat /\ Reading = now + 1 /\ now' = Reading /\ Reading \in Instants
  BY <1>0, Clock DEF QueryLoad
<1>4. PICK c : c = IF cache[q.auth] = Absent THEN "nil" ELSE cache[q.auth].checkin
  OBVIOUS
<1>5. c \in Statuses /\ (c = "yes" => cache[q.auth].checkin = "yes")
  <2>1. cache[q.auth] \in Entries \cup {Absent}
    BY <1>0, <1>2 DEF Typed
  <2> QED
    BY <1>4, <2>1 DEF Entries, Statuses
<1>6. PICK e : e = [q.own EXCEPT !.fetched = Reading, !.checkin = c]
  OBVIOUS
<1>7. /\ e \in Entries /\ e.checkinAt = q.own.checkinAt /\ e.checkin = c /\ e.fetched = Reading
      /\ e.credits = q.own.credits
  BY <1>2, <1>3, <1>5, <1>6 DEF Entries
<1>8. PICK r : r = [q EXCEPT !.pc = "merge", !.own = e]
  OBVIOUS
<1>9. /\ r \in Runs /\ r.pc = "merge" /\ r.auth = q.auth /\ r.own = e /\ r.prev = q.prev
      /\ r.status = q.status /\ r.billing = q.billing /\ r.began = q.began
      /\ r.closed = q.closed
  BY <1>7, <1>8 DEF Runs
<1>10. Moves(p, r)
  BY <1>0, <1>1, <1>4, <1>6, <1>8, SMTT(20), ZenonT(30) DEF QueryLoad, Moves, Typed
<1>11. Fits(p, r)'
  <2>1. q.began <= now' /\ Past(q.prev)' /\ Past(q.own)'
    BY <1>0, <1>1, <1>3, RunLater
  <2>2. Past(e)'
    BY <1>3, <1>7, <2>1 DEF Past
  <2> QED
    BY <1>0, <1>2, <1>7, <1>9, <2>1, <2>2, KindsApart DEF Fits, InPhase
<1>12. CalmFlight(p, r) /\ CalmRead(p, r)
  BY <1>0, <1>1, <1>2 DEF CalmFlight, CalmRead
<1>13. Invalidators = {} => CalmKept(p, r)
  BY <1>0, <1>1, <1>2, <1>5, <1>7, <1>9 DEF CalmKept, KnownRun, Kept, Known, Inv
<1> QED
  BY <1>0, <1>3, <1>9, <1>10, <1>11, <1>12, <1>13, QuietStep DEF QueryLoad

\* What storeAccountSnapshot leaves in the cache.
LEMMA MergedTyped ==
    ASSUME Typed, NEW a \in Auths, NEW e \in Entries
    PROVE  /\ merged(a, e) \in Entries
           /\ merged(a, e).credits = e.credits /\ merged(a, e).fetched = e.fetched
           /\ \/ /\ cache[a] # Absent /\ cache[a].checkinAt > e.checkinAt
                 /\ merged(a, e).checkin = cache[a].checkin
                 /\ merged(a, e).checkinAt = cache[a].checkinAt
              \/ /\ cache[a].checkinAt <= e.checkinAt /\ merged(a, e) = e
<1>1. PICK c \in Entries \cup {Absent} : c = cache[a] /\ merged(a, e) =
        IF c # Absent /\ c.checkinAt > e.checkinAt
        THEN [e EXCEPT !.checkin = c.checkin, !.checkinAt = c.checkinAt] ELSE e
  BY DEF Typed, merged
<1>2. c.checkinAt \in Int /\ e.checkinAt \in Int /\ e.checkinAt >= 0
  BY EmptyTyped, CacheConstants DEF Entries, Instants
<1>3. CASE c # Absent /\ c.checkinAt > e.checkinAt
  <2>1. PICK f : f = [e EXCEPT !.checkin = c.checkin, !.checkinAt = c.checkinAt]
    OBVIOUS
  <2>2. /\ f \in Entries /\ f.checkin = c.checkin /\ f.checkinAt = c.checkinAt
        /\ f.credits = e.credits /\ f.fetched = e.fetched
    BY <1>3, <2>1 DEF Entries
  <2> QED
    BY <1>1, <1>3, <2>1, <2>2
<1>4. CASE ~(c # Absent /\ c.checkinAt > e.checkinAt)
  <2>1. merged(a, e) = e
    BY <1>1, <1>4
  <2>2. c.checkinAt <= e.checkinAt
    BY <1>2, <1>4, EmptyTyped
  <2> QED
    BY <1>1, <2>1, <2>2
<1> QED
  BY <1>3, <1>4

LEMMA QueryStoreKeeps == ASSUME Inv, NEW p \in Queries, QueryStore(p) PROVE Inv'
<1>0. p \in Procs \ Callers /\ p \notin Checkins /\ Typed
  BY KindsApart DEF Inv, Base
<1>1. PICK q \in Runs : q = proc[p]
  BY <1>0, OneRun
<1>2. /\ q.pc = "merge" /\ Fits(p, q) /\ q.own \in Entries /\ q.auth \in Auths
      /\ q.own.checkinAt = 0
  BY <1>0, <1>1, OneRun DEF QueryStore, Fits
<1>3. PICK a \in Auths, e \in Entries : a = q.auth /\ e = merged(a, q.own)
  BY <1>0, <1>2, MergedTyped
<1>4. PICK s : s = [q EXCEPT !.answer = q.own.credits]
  OBVIOUS
<1>5. /\ s \in Runs /\ s.answer = q.own.credits /\ s.auth = q.auth /\ s.began = q.began
      /\ s.billing = q.billing /\ s.closed = q.closed
  BY <1>2, <1>4 DEF Runs, Entries
<1>6. PICK r \in Runs : r = Done(s)
  BY <1>5, DoneTyped
<1>7. /\ r.pc = "done" /\ r.answer = q.own.credits /\ r.auth = q.auth /\ r.own = Empty
      /\ r.prev = Absent /\ r.status = "todo" /\ r.began = q.began /\ r.billing = q.billing
  BY <1>5, <1>6, DoneTyped
<1>8. Moves(p, r) /\ cache' = [cache EXCEPT ![a] = e]
  BY <1>0, <1>1, <1>3, <1>4, <1>6 DEF QueryStore, Moves, Typed
<1>9. now' = now /\ now' \in Instants /\ now \in Nat /\ claimed' = claimed /\ flight' = flight
  BY <1>0, OneRun DEF QueryStore, Typed
<1>10. /\ cache' \in [Auths -> Entries \cup {Absent}] /\ cache'[a] = e
       /\ \A b \in Auths \ {a} : cache'[b] = cache[b]
  BY <1>0, <1>8 DEF Typed
<1>11. /\ e.credits = q.own.credits /\ e.fetched = q.own.fetched
       /\ \/ /\ cache[a] # Absent /\ cache[a].checkinAt > q.own.checkinAt
             /\ e.checkin = cache[a].checkin /\ e.checkinAt = cache[a].checkinAt
          \/ cache[a].checkinAt <= q.own.checkinAt /\ e = q.own
  BY <1>0, <1>2, <1>3, MergedTyped
<1>12. Fits(p, r)'
  BY <1>0, <1>2, <1>7, <1>9, EmptyTyped, KindsApart DEF Fits, InPhase, Past
<1>13. Past(e)'
  <2>1. Past(q.own) /\ Past(cache[a])
    BY <1>0, <1>2 DEF Typed, Fits
  <2> QED
    BY <1>9, <1>11, <2>1 DEF Past
<1>14. Queried(e.credits)'
  BY <1>0, <1>7, <1>8, <1>11, OneMoves DEF Queried
<1>15. ASSUME Invalidators = {} PROVE Kept'
  <2>1. Kept
    BY <1>15 DEF Inv
  <2>2. Stamped(e, cache[a])
    <3>1. cache[a].checkinAt >= 0 /\ cache[a].checkinAt \in Int /\ e # Absent
      BY <1>0, EmptyTyped, CacheConstants DEF Typed, Entries, Instants
    <3> QED
      BY <1>2, <1>11, <3>1 DEF Stamped
  <2>3. e.checkin = "yes" => claimed[a]
    BY <1>0, <1>1, <1>3, <1>11, <2>1 DEF Kept, Known, KnownRun
  <2>4. KnownRun(r)
    BY <1>7, EmptyTyped DEF KnownRun
  <2>5. Confirmed'
    BY <1>0, <1>8, <1>9, <2>1, ConfirmedStays DEF Kept
  <2> QED
    BY <1>0, <1>8, <1>9, <2>1, <2>2, <2>3, <2>4, <2>5, OthersWrite
<1> QED
  BY <1>0, <1>1, <1>2, <1>8, <1>9, <1>10, <1>12, <1>13, <1>14, <1>15, OtherStep DEF Typed

\* The claim: the lock is free, and WorkBuddy may record the check-in.
LEMMA ClaimKeeps ==
    ASSUME Inv, NEW p \in Checkins, NEW a \in Auths, Claim(p, a) PROVE Inv'
<1>0. p \in Procs \ Callers /\ Typed
  BY KindsApart DEF Inv, Base
<1>1. PICK i \in Runs : i = Idle
  BY IdleTyped
<1>2. PICK r : r = [i EXCEPT !.pc = "confirm", !.auth = a]
  OBVIOUS
<1>3. /\ r \in Runs /\ r.pc = "confirm" /\ r.auth = a /\ r.own = Empty /\ r.prev = Absent
      /\ r.status = "todo" /\ r.billing = "todo" /\ r.began = 0 /\ r.closed = FALSE
  BY <1>1, <1>2, IdleTyped DEF Runs
<1>4. Moves(p, r) /\ UNCHANGED <<now, cache, flight>>
  BY <1>1, <1>2 DEF Claim, Moves
<1>5. claimed' \in [Auths -> BOOLEAN] /\ \A b \in Auths : claimed[b] => claimed'[b]
  BY <1>0 DEF Claim, Typed
<1>6. now' \in Instants /\ now' >= now /\ now \in Nat
  BY <1>0, <1>4, OneRun DEF Typed
<1>7. Fits(p, r)'
  BY <1>0, <1>3, <1>4, <1>6, EmptyTyped, KindsApart DEF Fits, InPhase, Past
<1>8. ASSUME Invalidators = {} PROVE Kept'
  <2>1. Kept
    BY <1>8 DEF Inv
  <2>2. proc'[p] = r /\ \A x \in Procs \ {p} : proc'[x] = proc[x]
    BY <1>0, <1>3, <1>4, OneMoves
  <2>3. Known'
    <3>1. ASSUME NEW x \in Procs PROVE KnownRun(proc[x])'
      <4>1. CASE x = p
        BY <1>3, <2>2, <4>1, EmptyTyped DEF KnownRun
      <4>2. CASE x # p
        BY <1>5, <2>1, <2>2, <4>2 DEF Kept, Known, KnownRun
      <4> QED
        BY <4>1, <4>2
    <3> QED
      BY <1>4, <1>5, <2>1, <3>1 DEF Kept, Known
  <2>4. Confirmed'
    <3>1. \A k \in Checkins : k \in Procs
      BY KindsApart
    <3>2. \A k \in Checkins : Locks(k) => proc[k].auth # a /\ proc[k].auth \in Auths
      BY <1>0, <3>1 DEF Claim, Locks, Typed, Fits
    <3>3. \A k \in Checkins \ {p} : Locks(k)' <=> Locks(k)
      BY <2>2, <3>1 DEF Locks
    <3>4. ASSUME NEW k \in Checkins, proc'[k].pc = "merge"
          PROVE  proc'[k].own.checkin = Status(proc[k].auth)'
      <4>1. k # p /\ proc'[k] = proc[k] /\ proc[k].pc = "merge"
        BY <1>3, <2>2, <3>1, <3>4
      <4>2. proc[k].auth # a /\ proc[k].auth \in Auths
        BY <3>2, <4>1 DEF Locks
      <4>3. claimed'[proc[k].auth] = claimed[proc[k].auth]
        BY <1>0, <4>2 DEF Claim, Typed
      <4> QED
        BY <2>1, <4>1, <4>3 DEF Kept, Confirmed, Status
    <3>5. ASSUME NEW k \in Checkins, NEW l \in Checkins, Locks(k)', Locks(l)',
                 proc'[k].auth = proc'[l].auth
          PROVE  k = l
      <4>1. CASE k # p /\ l # p
        BY <2>1, <2>2, <3>1, <3>3, <3>5, <4>1 DEF Kept, Confirmed
      <4>2. CASE k = p /\ l # p
        BY <1>3, <2>2, <3>1, <3>2, <3>3, <3>5, <4>2
      <4>3. CASE k # p /\ l = p
        BY <1>3, <2>2, <3>1, <3>2, <3>3, <3>5, <4>3
      <4> QED
        BY <4>1, <4>2, <4>3
    <3> QED
      BY <3>4, <3>5 DEF Confirmed
  <2>5. \A x \in Callers : proc'[x] = proc[x]
    BY <1>0, <2>2 DEF Procs
  <2> QED
    BY <1>4, <2>1, <2>3, <2>4, <2>5 DEF Kept, OlderRun, Lasting, FallbackRun, NothingDeleted
<1>9. \A b \in Auths : cache'[b] = cache[b]
  BY <1>4
<1> QED
  BY <1>0, <1>3, <1>4, <1>5, <1>6, <1>7, <1>8, <1>9, KindsApart, OtherStep DEF Typed

LEMMA ConfirmStatusKeeps == ASSUME Inv, NEW p \in Checkins, ConfirmStatus(p) PROVE Inv'
<1>0. p \in Procs \ Callers /\ Typed
  BY KindsApart DEF Inv, Base
<1>1. PICK q \in Runs : q = proc[p]
  BY <1>0, OneRun
<1>2. q.pc = "confirm" /\ Fits(p, q) /\ q.own \in Entries /\ q.auth \in Auths
  BY <1>0, <1>1, OneRun DEF ConfirmStatus, Fits
<1>3. PICK e : e = [q.own EXCEPT !.checkin = Status(q.auth)]
  OBVIOUS
<1>4. /\ e \in Entries /\ e.checkin = Status(q.auth) /\ e.checkinAt = q.own.checkinAt
      /\ e.credits = q.own.credits /\ e.fetched = q.own.fetched
  <2>1. Status(q.auth) \in Statuses
    BY DEF Status, Statuses
  <2> QED
    BY <1>2, <1>3, <2>1 DEF Entries
<1>5. PICK r : r = [q EXCEPT !.pc = "merge", !.own = e]
  OBVIOUS
<1>6. /\ r \in Runs /\ r.pc = "merge" /\ r.auth = q.auth /\ r.own = e /\ r.prev = q.prev
      /\ r.status = q.status /\ r.billing = q.billing /\ r.began = q.began
      /\ r.closed = q.closed
  BY <1>4, <1>5 DEF Runs
<1>7. Moves(p, r) /\ UNCHANGED <<now, claimed, cache, flight>>
  BY <1>0, <1>1, <1>3, <1>5 DEF ConfirmStatus, Moves, Typed
<1>8. now' \in Instants /\ now' >= now /\ now \in Nat
  BY <1>0, <1>7, OneRun DEF Typed
<1>9. Fits(p, r)'
  BY <1>0, <1>2, <1>4, <1>6, <1>7, KindsApart DEF Fits, InPhase, Past
<1>10. ASSUME Invalidators = {} PROVE Kept'
  <2>1. Kept
    BY <1>10 DEF Inv
  <2>2. proc'[p] = r /\ \A x \in Procs \ {p} : proc'[x] = proc[x]
    BY <1>0, <1>6, <1>7, OneMoves
  <2>3. Known'
    <3>1. KnownRun(q)
      BY <1>0, <1>1, <2>1 DEF Kept, Known
    <3>2. KnownRun(r)
      BY <1>2, <1>4, <1>6, <3>1 DEF KnownRun, Status
    <3> QED
      BY <1>7, <2>1, <2>2, <3>2 DEF Kept, Known, KnownRun
  <2>4. Confirmed'
    <3>1. \A k \in Checkins : /\ k \in Procs /\ (Locks(k)' <=> Locks(k))
                              /\ proc'[k].auth = proc[k].auth
      BY <1>1, <1>2, <1>6, <2>2, KindsApart DEF Locks
    <3>2. ASSUME NEW k \in Checkins, proc'[k].pc = "merge"
          PROVE  proc'[k].own.checkin = Status(proc[k].auth)'
      BY <1>4, <1>6, <1>7, <2>1, <2>2, <3>1, <3>2 DEF Kept, Confirmed, Status
    <3> QED
      BY <2>1, <3>1, <3>2 DEF Kept, Confirmed
  <2>5. \A x \in Callers : proc'[x] = proc[x]
    BY <1>0, <2>2 DEF Procs
  <2> QED
    BY <1>7, <2>1, <2>3, <2>4, <2>5 DEF Kept, OlderRun, Lasting, FallbackRun, NothingDeleted
<1>11. \A b \in Auths : cache'[b] = cache[b]
  BY <1>7
<1> QED
  BY <1>0, <1>6, <1>7, <1>8, <1>9, <1>10, <1>11, KindsApart, OtherStep DEF Typed

LEMMA MergeKeeps == ASSUME Inv, NEW p \in Checkins, mergeCheckinCache(p) PROVE Inv'
<1>0. p \in Procs \ Callers /\ Typed
  BY KindsApart DEF Inv, Base
<1>1. PICK q \in Runs : q = proc[p]
  BY <1>0, OneRun
<1>2. q.pc = "merge" /\ Fits(p, q) /\ q.own \in Entries /\ q.auth \in Auths
  BY <1>0, <1>1, OneRun DEF mergeCheckinCache, Fits
<1>3. now \in Nat /\ Reading = now + 1 /\ now' = Reading /\ Reading \in Instants
  BY <1>0, Clock DEF mergeCheckinCache
<1>4. PICK b \in Entries : /\ b = IF cache[q.auth] = Absent THEN Empty ELSE cache[q.auth]
                           /\ b.credits \in {NoCredits, cache[q.auth].credits} /\ Past(b)
  <2>1. cache[q.auth] \in Entries \cup {Absent} /\ Past(cache[q.auth])
    BY <1>0, <1>2 DEF Typed
  <2>2. Past(Empty)
    BY <1>3, EmptyTyped DEF Past
  <2> QED
    BY <2>1, <2>2, EmptyTyped DEF NoCredits
<1>5. PICK e : e = [b EXCEPT !.checkin = q.own.checkin, !.checkinAt = Reading]
  OBVIOUS
<1>6. /\ e \in Entries /\ e.checkin = q.own.checkin /\ e.checkinAt = Reading
      /\ e.credits = b.credits /\ e.fetched = b.fetched
  BY <1>2, <1>3, <1>5 DEF Entries
<1>7. PICK r \in Runs : r = Done(q)
  BY DoneTyped
<1>8. /\ r.pc = "done" /\ r.auth = q.auth /\ r.own = Empty /\ r.prev = Absent
      /\ r.status = "todo" /\ r.began = q.began /\ r.billing = q.billing
  BY <1>7, DoneTyped
<1>9. PICK a \in Auths : a = q.auth
  BY <1>2
<1>10. /\ Moves(p, r) /\ cache' = [cache EXCEPT ![a] = e]
       /\ claimed' = claimed /\ flight' = flight
  BY <1>0, <1>1, <1>4, <1>5, <1>7, <1>9 DEF mergeCheckinCache, Moves, Typed
<1>11. /\ cache' \in [Auths -> Entries \cup {Absent}] /\ cache'[a] = e
       /\ \A x \in Auths \ {a} : cache'[x] = cache[x]
  BY <1>0, <1>6, <1>10 DEF Typed
<1>12. Fits(p, r)' /\ Past(e)'
  <2>0. now' \in Instants /\ now' >= now
    BY <1>3
  <2>1. q.began <= now' /\ Past(b)'
    <3>1. q.began <= now'
      BY <1>0, <1>1, <2>0, RunLater
    <3> QED
      BY <1>0, <1>4, <2>0, <3>1, PastLater
  <2> QED
    BY <1>0, <1>2, <1>3, <1>6, <1>8, <2>1, EmptyTyped, KindsApart DEF Fits, InPhase, Past
<1>13. ASSUME Invalidators = {} PROVE Kept'
  <2>1. Kept /\ Confirmed
    BY <1>13 DEF Inv, Kept
  <2>2. proc'[p] = r /\ \A x \in Procs \ {p} : proc'[x] = proc[x]
    BY <1>0, <1>10, OneMoves
  <2>3. Stamped(e, cache[a])
    BY <1>3, <1>6, EmptyTyped DEF Stamped
  <2>4. e.checkin = "yes" => claimed[a]
    BY <1>1, <1>2, <1>6, <1>9, <2>1 DEF Confirmed, Status
  <2>5. KnownRun(r)
    BY <1>8, EmptyTyped DEF KnownRun
  <2>6. Confirmed'
    <3>1. \A k \in Checkins : k \in Procs /\ (Locks(k)' => Locks(k) /\ proc'[k] = proc[k])
      BY <1>8, <2>2, KindsApart DEF Locks
    <3>2. \A k \in Checkins : proc'[k].pc = "merge" => Locks(k)'
      BY DEF Locks
    <3> QED
      BY <1>10, <2>1, <3>1, <3>2 DEF Confirmed, Status
  <2> QED
    BY <1>0, <1>6, <1>10, <2>1, <2>3, <2>4, <2>5, <2>6, OthersWrite
<1>14. now' \in Instants /\ now' >= now
  BY <1>3
<1> QED
  BY <1>0, <1>4, <1>6, <1>9, <1>10, <1>11, <1>12, <1>13, <1>14, KindsApart, OtherStep DEF Typed

LEMMA InvalidateLoadKeeps ==
    ASSUME Inv, NEW p \in Invalidators, NEW a \in Auths, InvalidateLoad(p, a) PROVE Inv'
<1>0. p \in Procs \ Callers /\ Typed
  BY KindsApart DEF Inv, Base
<1>1. PICK i \in Runs : i = Idle
  BY IdleTyped
<1>2. now \in Nat /\ Reading = now + 1 /\ now' = Reading /\ Reading \in Instants
  BY <1>0, Clock DEF InvalidateLoad
<1>3. PICK c \in Entries : c = cache[a] /\ Past(c)
  BY <1>0 DEF InvalidateLoad, Typed
<1>4. PICK e : e = [c EXCEPT !.credits = NoCredits, !.fetched = Reading]
  OBVIOUS
<1>5. /\ e \in Entries /\ e.checkin = c.checkin /\ e.checkinAt = c.checkinAt
      /\ e.credits = NoCredits /\ e.fetched = Reading
  <2>1. NoCredits \in Instants
    BY CacheConstants DEF NoCredits, Instants
  <2> QED
    BY <1>2, <1>4, <2>1 DEF Entries
<1>6. PICK r : r = [i EXCEPT !.pc = "copied", !.auth = a, !.own = e]
  OBVIOUS
<1>7. /\ r \in Runs /\ r.pc = "copied" /\ r.auth = a /\ r.own = e /\ r.prev = Absent
      /\ r.status = "todo" /\ r.billing = "todo" /\ r.began = 0 /\ r.closed = FALSE
  BY <1>1, <1>5, <1>6, IdleTyped DEF Runs
<1>8. Moves(p, r)
  BY <1>1, <1>3, <1>4, <1>6 DEF InvalidateLoad, Moves
<1>9. Fits(p, r)'
  <2>1. c.checkinAt \in Int /\ c.checkinAt <= now
    BY <1>3, CacheConstants DEF Past, Entries, Instants
  <2> QED
    BY <1>0, <1>2, <1>5, <1>7, <2>1, EmptyTyped, KindsApart DEF Fits, InPhase, Past, NoCredits
<1>10. CalmFlight(p, r) /\ CalmRead(p, r) /\ Invalidators # {}
  BY <1>0, KindsApart DEF CalmFlight, CalmRead
<1> QED
  BY <1>0, <1>2, <1>7, <1>8, <1>9, <1>10, QuietStep DEF InvalidateLoad

LEMMA InvalidateStoreKeeps ==
    ASSUME Inv, NEW p \in Invalidators, InvalidateStore(p) PROVE Inv'
<1>0. p \in Procs \ Callers /\ Typed
  BY KindsApart DEF Inv, Base
<1>1. PICK q \in Runs : q = proc[p]
  BY <1>0, OneRun
<1>2. /\ q.pc = "copied" /\ Fits(p, q) /\ q.own \in Entries /\ q.auth \in Auths
      /\ q.own.credits = NoCredits /\ Past(q.own)
  BY <1>0, <1>1, OneRun DEF InvalidateStore, Fits
<1>3. PICK a \in Auths, e \in Entries : a = q.auth /\ e = q.own
  BY <1>2
<1>4. PICK r \in Runs : r = Done(q)
  BY DoneTyped
<1>5. /\ r.pc = "done" /\ r.auth = q.auth /\ r.own = Empty /\ r.prev = Absent
      /\ r.status = "todo" /\ r.began = q.began /\ r.billing = q.billing
  BY <1>4, DoneTyped
<1>6. /\ Moves(p, r) /\ cache' = [cache EXCEPT ![a] = e]
      /\ now' = now /\ claimed' = claimed /\ flight' = flight
  BY <1>0, <1>1, <1>3, <1>4 DEF InvalidateStore, Moves, Typed
<1>7. now' \in Instants /\ now' >= now /\ now \in Nat
  BY <1>0, <1>6, OneRun DEF Typed
<1>8. /\ cache' \in [Auths -> Entries \cup {Absent}] /\ cache'[a] = e
      /\ \A x \in Auths \ {a} : cache'[x] = cache[x]
  BY <1>0, <1>6 DEF Typed
<1>9. Fits(p, r)' /\ Past(e)'
  BY <1>0, <1>2, <1>3, <1>5, <1>6, <1>7, EmptyTyped, KindsApart
     DEF Fits, InPhase, Past, NoCredits
<1> QED
  BY <1>0, <1>2, <1>3, <1>5, <1>6, <1>7, <1>8, <1>9, KindsApart, OtherStep DEF Typed

\* The sweep picks an entry.
LEMMA ExpireLookKeeps ==
    ASSUME Inv, NEW p \in Panels, NEW a \in Auths, ExpireLook(p, a) PROVE Inv'
<1>0. p \in Procs \ Callers /\ Typed /\ p \notin Checkins
  BY KindsApart DEF Inv, Base
<1>1. PICK i \in Runs : i = Idle
  BY IdleTyped
<1>2. PICK r : r = [i EXCEPT !.pc = "expired", !.auth = a]
  OBVIOUS
<1>3. /\ r \in Runs /\ r.pc = "expired" /\ r.auth = a /\ r.own = Empty /\ r.prev = Absent
      /\ r.status = "todo" /\ r.billing = "todo" /\ r.began = 0 /\ r.closed = FALSE
  BY <1>1, <1>2, IdleTyped DEF Runs
<1>4. Moves(p, r) /\ UNCHANGED <<now, claimed, cache, flight>>
  BY <1>1, <1>2 DEF ExpireLook, Moves
<1>5. now' \in Instants /\ now' >= now /\ now \in Nat
  BY <1>0, <1>4, OneRun DEF Typed
<1>6. Fits(p, r)'
  BY <1>0, <1>3, <1>4, <1>5, EmptyTyped, KindsApart DEF Fits, InPhase, Past
<1>7. CalmFlight(p, r) /\ CalmRead(p, r) /\ CalmKept(p, r)
  BY <1>0, <1>3, EmptyTyped, KindsApart DEF CalmFlight, CalmRead, CalmKept, KnownRun
<1> QED
  BY <1>0, <1>3, <1>4, <1>5, <1>6, <1>7, QuietStep

\* ... and deletes what is there by then.
LEMMA ExpireDropKeeps == ASSUME Inv, NEW p \in Panels, ExpireDrop(p) PROVE Inv'
<1>0. p \in Procs \ Callers /\ Typed /\ p \notin Checkins
  BY KindsApart DEF Inv, Base
<1>1. PICK q \in Runs : q = proc[p]
  BY <1>0, OneRun
<1>2. q.pc = "expired" /\ Fits(p, q)
  BY <1>0, <1>1, OneRun DEF ExpireDrop
<1>3. PICK a \in Auths : a = q.auth
  BY <1>2 DEF Fits
<1>4. PICK r \in Runs : r = Done(q)
  BY DoneTyped
<1>5. /\ r.pc = "done" /\ r.auth = q.auth /\ r.own = Empty /\ r.prev = Absent
      /\ r.status = "todo" /\ r.began = q.began /\ r.billing = q.billing
  BY <1>4, DoneTyped
<1>6. /\ Moves(p, r) /\ cache' = [cache EXCEPT ![a] = Absent]
      /\ now' = now /\ claimed' = claimed /\ flight' = flight
  BY <1>0, <1>1, <1>3, <1>4 DEF ExpireDrop, Moves, Typed
<1>7. now' \in Instants /\ now' >= now /\ now \in Nat
  BY <1>0, <1>6, OneRun DEF Typed
<1>8. /\ cache' \in [Auths -> Entries \cup {Absent}] /\ cache'[a] = Absent
      /\ \A x \in Auths \ {a} : cache'[x] = cache[x]
  BY <1>0, <1>6 DEF Typed
<1>9. Fits(p, r)' /\ Past(Absent)'
  BY <1>0, <1>2, <1>5, <1>6, <1>7, EmptyTyped, KindsApart DEF Fits, InPhase, Past
<1>10. ASSUME Invalidators = {} PROVE Kept'
  <2>1. Kept
    BY <1>10 DEF Inv
  <2>2. proc'[p] = r /\ \A x \in Procs \ {p} : proc'[x] = proc[x]
    BY <1>0, <1>6, OneMoves
  <2>3. \A x \in Procs : KnownRun(proc'[x])
    BY <1>5, <2>1, <2>2, EmptyTyped DEF Kept, Known, KnownRun
  <2>4. Confirmed'
    BY <1>0, <1>6, <2>1, ConfirmedStays DEF Kept
  <2>5. \A x \in Callers : proc'[x] = proc[x]
    BY <1>0, <2>2 DEF Procs
  <2>6. ~NothingDeleted
    BY DEF NothingDeleted
  <2> QED
    BY <1>0, <1>6, <2>1, <2>3, <2>4, <2>5, <2>6, DropKeeps
<1>11. \A x \in Auths : cache'[x].credits \in {NoCredits, cache[x].credits}
  BY <1>8, EmptyTyped DEF NoCredits
<1> QED
  BY <1>0, <1>1, <1>2, <1>5, <1>6, <1>7, <1>8, <1>9, <1>10, <1>11, KindsApart, OtherStep
     DEF Typed

\* The cache and the clock change, the runs do not.
LEMMA StillStep ==
    ASSUME Inv, UNCHANGED <<claimed, flight, proc>>, now' \in Instants, now' >= now,
           cache' \in [Auths -> Entries \cup {Absent}],
           \A a \in Auths : cache'[a] \in {cache[a], Absent},
           Invalidators = {} => Kept'
    PROVE  Inv'
<1>0. Typed /\ now' \in Nat
  BY CacheConstants DEF Inv, Base, Instants
<1>1. Typed'
  <2>1. ASSUME NEW a \in Auths PROVE Past(cache[a])'
    <3>1. cache[a] \in Entries \cup {Absent} /\ Past(cache[a])
      BY <1>0 DEF Typed
    <3>2. \A e \in Entries \cup {Absent} : Past(e) => Past(e)'
      BY <1>0, PastLater
    <3>3. Past(Absent)'
      BY <1>0, EmptyTyped DEF Past
    <3>4. PICK e \in Entries \cup {Absent} : e = cache[a] /\ Past(e)'
      BY <3>1, <3>2
    <3> QED
      BY <3>3, <3>4
  <2>2. ASSUME NEW x \in Procs PROVE Fits(x, proc[x])'
    <3>1. PICK q \in Runs : q = proc[x] /\ q = proc'[x] /\ Fits(x, q)
      BY <1>0, OneRun
    <3>2. q.began <= now' /\ Past(q.prev)' /\ Past(q.own)'
      BY <1>0, <3>1, RunLater
    <3>3. Fits(x, q)'
      BY <3>1, <3>2 DEF Fits, InPhase
    <3> QED
      BY <3>1, <3>3
  <2> QED
    BY <1>0, <2>1, <2>2 DEF Typed
<1>2. Flights' /\ Joined'
  BY DEF Inv, Base, Flights, Joined, Fetching, Awaits
<1>3. ASSUME Fresh PROVE Fresh'
  <2>1. ReadLater' /\ \A o \in Callers : AnswerLater(o)'
    BY <1>3 DEF Fresh, ReadLater, AnswerLater, Queried
  <2>2. \A n : Queried(n)' <=> Queried(n)
    BY DEF Queried
  <2>3. CacheLater'
    BY <1>3, <2>2, EmptyTyped DEF Fresh, CacheLater, Later, NoCredits
  <2> QED
    BY <2>1, <2>3 DEF Fresh
<1> QED
  BY <1>1, <1>2, <1>3 DEF Inv, Base

LEMMA TickKeeps == ASSUME Inv, Tick PROVE Inv'
<1>0. Typed
  BY DEF Inv, Base
<1>1. now' \in Instants /\ now' >= now
  BY <1>0, Clock DEF Tick
<1>2. Kept => Kept'
  BY DEF Tick, Kept, Known, KnownRun, Confirmed, Locks, Status, OlderRun, Lasting,
         FallbackRun, NothingDeleted
<1> QED
  BY <1>0, <1>1, <1>2, StillStep DEF Tick, Inv, Typed

LEMMA DropEntryKeeps == ASSUME Inv, NEW a \in Auths, DropEntry(a) PROVE Inv'
<1>0. Typed /\ now' = now /\ now \in Nat
  BY OneRun, CacheConstants DEF Inv, Base, DropEntry, Typed, Instants
<1>1. /\ cache' = [cache EXCEPT ![a] = Absent] /\ UNCHANGED <<claimed, flight, proc>>
      /\ Deletions = TRUE
  BY CacheConstants DEF DropEntry
<1>2. /\ cache' \in [Auths -> Entries \cup {Absent}]
      /\ \A x \in Auths : cache'[x] \in {cache[x], Absent}
  BY <1>0, <1>1 DEF Typed
<1>3. ASSUME Kept PROVE Kept'
  <2>1. Confirmed'
    BY <1>1, <1>3 DEF Kept, Confirmed, Locks, Status
  <2>2. ~NothingDeleted
    BY <1>1 DEF NothingDeleted
  <2>3. \A x \in Procs : KnownRun(proc'[x])
    BY <1>1, <1>3 DEF Kept, Known
  <2> QED
    BY <1>0, <1>1, <1>3, <2>1, <2>2, <2>3, DropKeeps
<1> QED
  BY <1>0, <1>1, <1>2, <1>3, StillStep DEF Inv, Typed

-----------------------------------------------------------------------------
(* The detail calls: beginning, joining, reading, storing, leaving.        *)

\* A step of a detail call, its layers shown.
LEMMA CallerStep ==
    ASSUME Inv, NEW p \in Callers, NEW r \in Runs, Moves(p, r), Fits(p, r)',
           now' \in Instants, now' >= now, claimed' = claimed,
           flight' \in [Auths -> Callers \cup {None}],
           cache' \in [Auths -> Entries \cup {Absent}],
           \A a \in Auths : cache'[a] = cache[a] \/ Past(cache[a])',
           Flights', Joined',
           "credits" \notin Faults => Fresh', Invalidators = {} => Kept'
    PROVE  Inv'
<1>1. Typed'
  BY StepTyped DEF Inv, Base, Typed, Procs
<1> QED
  BY <1>1 DEF Inv, Base

\* Who waits still waits for a flight, or for one that has landed.
LEMMA JoinedStays ==
    ASSUME Base, NEW p \in Callers, NEW r \in Runs, Moves(p, r), proc[p].pc # "done",
           InFlight(proc[p]) => /\ InFlight(r) \/ r.pc = "done"
                                /\ r.auth = proc[p].auth /\ r.began = proc[p].began,
           r.pc = "wait" => /\ r.owner \in Callers \ {p} /\ InFlight(proc[r.owner])
                            /\ r.auth = proc[r.owner].auth /\ r.began = proc[r.owner].began
    PROVE  Joined'
<1>1. proc'[p] = r /\ \A x \in Callers \ {p} : proc'[x] = proc[x]
  BY OneMoves DEF Base, Procs
<1>2. ASSUME NEW w \in Callers, proc'[w].pc = "wait"
      PROVE  proc'[w].owner \in Callers /\ Awaits(w, proc[w].owner)'
  <2>1. CASE w = p
    <3>1. PICK o \in Callers \ {p} : o = r.owner /\ o = proc'[w].owner
      BY <1>1, <1>2, <2>1
    <3>2. proc'[o] = proc[o] /\ proc'[w] = r
      BY <1>1, <2>1
    <3>3. Awaits(w, o)'
      BY <1>2, <3>1, <3>2, <2>1 DEF Awaits, Fetching, InFlight
    <3> QED
      BY <3>1, <3>3
  <2>2. CASE w # p
    <3>1. PICK o \in Callers : o = proc[w].owner /\ o = proc'[w].owner /\ Awaits(w, o)
      BY <1>1, <1>2, <2>2 DEF Base, Joined
    <3>2. Awaits(w, o)'
      <4>1. CASE o = p
        BY <1>1, <2>2, <3>1, <4>1 DEF Awaits, Fetching, InFlight
      <4>2. CASE o # p
        BY <1>1, <2>2, <3>1, <4>2 DEF Awaits, Fetching
      <4> QED
        BY <4>1, <4>2
    <3> QED
      BY <3>1, <3>2
  <2> QED
    BY <2>1, <2>2
<1> QED
  BY <1>2 DEF Joined

LEMMA BeginKeeps ==
    ASSUME Inv, NEW p \in Callers, NEW a \in Auths, NEW force \in BOOLEAN, Begin(p, a, force)
    PROVE  Inv'
<1>0. p \in Procs /\ Typed /\ Base
  BY DEF Procs, Inv, Base
<1>1. PICK i \in Runs : i = Idle
  BY IdleTyped
<1>2. PICK e \in Entries \cup {Absent} : e = cache[a] /\ Past(e)
  BY <1>0 DEF Typed
<1>3. PICK b : b = [i EXCEPT !.auth = a, !.prev = e, !.pc = "join"]
  OBVIOUS
<1>4. /\ b \in Runs /\ b.auth = a /\ b.prev = e /\ b.pc = "join" /\ b.own = Empty
      /\ b.status = "todo" /\ b.billing = "todo" /\ b.began = 0 /\ b.closed = FALSE
  BY <1>1, <1>2, <1>3, IdleTyped DEF Runs
<1>5. e.credits \in Instants /\ e.credits \in Nat
  BY <1>2, EmptyTyped, CacheConstants DEF Entries, Instants
<1>6. PICK f : f = [b EXCEPT !.answer = e.credits]
  OBVIOUS
<1>7. /\ f \in Runs /\ f.auth = a /\ f.began = 0 /\ f.billing = "todo" /\ f.closed = FALSE
  BY <1>4, <1>5, <1>6 DEF Runs
<1>8. /\ proc[p].pc = "idle" /\ UNCHANGED <<now, claimed, cache, flight>>
      /\ \/ proc' = [proc EXCEPT ![p] = Done(f)]
         \/ proc' = [proc EXCEPT ![p] = b]
  <2>1. proc' = [proc EXCEPT ![p] = IF e # Absent /\ ~force /\ now - e.fetched < TTL
                                    THEN Done(f) ELSE b]
    BY <1>1, <1>2, <1>3, <1>6 DEF Begin
  <2> QED
    BY <2>1 DEF Begin
<1>9. PICK r \in Runs :
        /\ Moves(p, r) /\ r.auth = a /\ r.began = 0 /\ r.billing = "todo" /\ r.own = Empty
        /\ r.status = "todo" /\ r.closed = FALSE
        /\ \/ r.pc = "join" /\ r.prev = e
           \/ r.pc = "done" /\ r.prev = Absent
  <2>1. CASE proc' = [proc EXCEPT ![p] = Done(f)]
    BY <1>7, <2>1, DoneTyped DEF Moves
  <2>2. CASE proc' = [proc EXCEPT ![p] = b]
    BY <1>4, <2>2 DEF Moves
  <2> QED
    BY <1>8, <2>1, <2>2
<1>10. now' \in Instants /\ now' >= now /\ now \in Nat
  BY <1>0, <1>8, OneRun DEF Typed
<1>11. Fits(p, r)'
  BY <1>2, <1>8, <1>9, <1>10, EmptyTyped, CacheConstants DEF Fits, InPhase, Past
<1>12. CalmFlight(p, r)
  BY <1>8, <1>9 DEF CalmFlight, InFlight
<1>13. Flights' /\ Joined'
  BY <1>0, <1>8, <1>9, <1>12, FlightsStay
<1>14. proc'[p] = r /\ \A x \in Callers \ {p} : proc'[x] = proc[x]
  BY <1>0, <1>9, OneMoves DEF Procs
<1>15. \A n : Queried(n) => Queried(n)'
  BY <1>0, <1>9, QueriedStays, CacheConstants
<1>16. ASSUME Fresh PROVE Fresh'
  <2>1. ReadLater'
    <3> SUFFICES ASSUME NEW x \in Callers, NEW o \in Callers, proc'[x].pc = "fetch",
                        proc'[x].billing = "ok", proc'[o].auth = proc'[x].auth
                 PROVE  proc'[x].own.credits > proc'[o].began
      BY DEF ReadLater
    <3>1. x # p /\ proc'[x] = proc[x]
      BY <1>9, <1>14
    <3>2. CASE o = p
      <4>1. proc[x].own.credits > proc[x].began
        BY <1>16, <3>1 DEF Fresh, ReadLater
      <4>2. proc[x].began \in Nat /\ proc[x].own.credits \in Nat
        BY <1>0, OneRun, CacheConstants DEF Procs, Entries, Instants
      <4> QED
        BY <1>9, <1>14, <3>1, <3>2, <4>1, <4>2
    <3>3. CASE o # p
      BY <1>14, <1>16, <3>1, <3>3 DEF Fresh, ReadLater
    <3> QED
      BY <3>2, <3>3
  <2>2. CacheLater'
    <3> SUFFICES ASSUME NEW o \in Callers, Served(proc'[o]), proc'[o].auth \in Auths
                 PROVE  Later(cache[proc[o].auth].credits, o)'
      BY DEF CacheLater
    <3>1. CASE o = p
      BY <1>2, <1>5, <1>8, <1>9, <1>14, <3>1 DEF Later, NoCredits
    <3>2. CASE o # p
      BY <1>8, <1>14, <1>15, <1>16, <3>2 DEF Fresh, CacheLater, Later
    <3> QED
      BY <3>1, <3>2
  <2>3. ASSUME NEW o \in Callers PROVE AnswerLater(o)'
    <3>1. CASE o = p
      BY <1>9, <1>14, <3>1 DEF AnswerLater
    <3>2. CASE o # p
      BY <1>14, <1>15, <1>16, <3>2 DEF Fresh, AnswerLater
    <3> QED
      BY <3>1, <3>2
  <2> QED
    BY <2>1, <2>2, <2>3 DEF Fresh
<1>17. ASSUME Kept PROVE Kept'
  <2>1. KnownRun(r) /\ OlderRun(r) /\ p \notin Checkins
    BY <1>2, <1>9, <1>17, EmptyTyped, CacheConstants DEF Kept, Known, KnownRun, OlderRun
  <2>2. FallbackRun(r)
    BY <1>2, <1>9, EmptyTyped, CacheConstants DEF FallbackRun, Entries, Instants
  <2> QED
    BY <1>0, <1>8, <1>9, <1>17, <2>1, <2>2, KeptStays DEF CalmKept
<1>18. \A x \in Auths : cache'[x] = cache[x]
  BY <1>8
<1> QED
  BY <1>0, <1>8, <1>9, <1>10, <1>11, <1>13, <1>16, <1>17, <1>18, CallerStep DEF Inv, Typed

\* A call becomes the fetcher of its account.
LEMMA LeadKeeps ==
    ASSUME Inv, NEW p \in Callers, Join(p), flight[proc[p].auth] = None
    PROVE  Inv'
<1>0. p \in Procs /\ Typed /\ Base
  BY DEF Procs, Inv, Base
<1>1. PICK q \in Runs : q = proc[p]
  BY <1>0, OneRun
<1>2. /\ q.pc = "join" /\ Fits(p, q) /\ q.auth \in Auths
      /\ q.status = "todo" /\ q.billing = "todo" /\ q.own.checkinAt = 0
  BY <1>0, <1>1, OneRun DEF Join, Fits
<1>3. PICK a \in Auths : a = q.auth /\ flight[a] = None
  BY <1>1, <1>2
<1>4. PICK r : r = [q EXCEPT !.pc = "fetch", !.began = now]
  OBVIOUS
<1>5. /\ r \in Runs /\ r.pc = "fetch" /\ r.began = now /\ r.auth = a /\ r.prev = q.prev
      /\ r.own = q.own /\ r.status = "todo" /\ r.billing = "todo" /\ r.closed = q.closed
  BY <1>0, <1>2, <1>3, <1>4 DEF Runs, Typed
<1>6. /\ Moves(p, r) /\ flight' = [flight EXCEPT ![a] = p]
      /\ UNCHANGED <<now, claimed, cache>>
  <2>1. proc' = [proc EXCEPT ![p].pc = "fetch", ![p].began = now]
    BY <1>1, <1>3 DEF Join
  <2> QED
    BY <1>0, <1>1, <1>3, <1>4, <2>1 DEF Join, Moves, Typed
<1>7. now' \in Instants /\ now' >= now /\ now \in Nat
  BY <1>0, <1>6, OneRun DEF Typed
<1>8. Fits(p, r)'
  BY <1>2, <1>3, <1>5, <1>6, <1>7, CacheConstants DEF Fits, InPhase, Past
<1>9. /\ proc'[p] = r /\ \A x \in Callers \ {p} : proc'[x] = proc[x]
      /\ flight' \in [Auths -> Callers \cup {None}] /\ flight'[a] = p
      /\ \A b \in Auths \ {a} : flight'[b] = flight[b]
  BY <1>0, <1>5, <1>6, OneMoves DEF Procs, Typed
<1>10. \A x \in Callers \ {p} : Fetching(x) => proc[x].auth # a /\ proc[x].auth \in Auths
  <2>1. \A x \in Callers : x # None /\ x \in Procs
    BY CacheConstants DEF Procs
  <2>2. \A x \in Callers : Fetching(x) => flight[proc[x].auth] = x /\ proc[x].auth \in Auths
    BY <1>0, <2>1 DEF Base, Flights, Typed, Fits, Fetching
  <2> QED
    BY <1>3, <2>1, <2>2
<1>11. Flights'
  <2>1. \A x \in Callers \ {p} : Fetching(x)' <=> Fetching(x)
    BY <1>9 DEF Fetching
  <2>2. Fetching(p)' /\ ~Fetching(p)
    BY <1>1, <1>2, <1>5, <1>9 DEF Fetching
  <2>3. \A x \in Callers : Fetching(x)' => flight'[proc'[x].auth] = x
    <3> SUFFICES ASSUME NEW x \in Callers, Fetching(x)' PROVE flight'[proc'[x].auth] = x
      OBVIOUS
    <3>1. CASE x = p
      BY <1>5, <1>9, <3>1
    <3>2. CASE x # p
      BY <1>0, <1>9, <1>10, <2>1, <3>2 DEF Base, Flights
    <3> QED
      BY <3>1, <3>2
  <2>4. \A b \in Auths :
          flight'[b] # None => Fetching(flight[b])' /\ proc'[flight'[b]].auth = b
    <3> SUFFICES ASSUME NEW b \in Auths, flight'[b] # None
                 PROVE  Fetching(flight[b])' /\ proc'[flight'[b]].auth = b
      OBVIOUS
    <3>1. CASE b = a
      BY <1>5, <1>9, <2>2, <3>1 DEF Fetching
    <3>2. CASE b # a
      <4>1. PICK x \in Callers : x = flight[b] /\ x = flight'[b]
        BY <1>0, <1>9, <3>2 DEF Typed
      <4>2. Fetching(x) /\ proc[x].auth = b /\ x # p
        BY <1>0, <1>9, <2>2, <3>2, <4>1 DEF Base, Flights
      <4>3. Fetching(x)' /\ proc'[x].auth = b
        BY <1>9, <2>1, <4>2
      <4> QED
        BY <4>1, <4>3 DEF Fetching
    <3> QED
      BY <3>1, <3>2
  <2> QED
    BY <2>3, <2>4 DEF Flights
<1>12. Joined'
  BY <1>0, <1>1, <1>2, <1>5, <1>6, JoinedStays DEF InFlight
<1>13. \A n : Queried(n) => Queried(n)'
  BY <1>0, <1>5, <1>6, QueriedStays, CacheConstants
<1>14. ASSUME Fresh PROVE Fresh'
  <2>1. ReadLater'
    <3> SUFFICES ASSUME NEW x \in Callers, NEW o \in Callers, proc'[x].pc = "fetch",
                        proc'[x].billing = "ok", proc'[o].auth = proc'[x].auth
                 PROVE  proc'[x].own.credits > proc'[o].began
      BY DEF ReadLater
    <3>1. x # p
      BY <1>5, <1>9
    <3>2. proc'[x] = proc[x]
      BY <1>9, <3>1
    <3>3. o # p
      BY <1>5, <1>9, <1>10, <3>1, <3>2 DEF Fetching
    <3> QED
      BY <1>9, <1>14, <3>2, <3>3 DEF Fresh, ReadLater
  <2>2. CacheLater'
    <3> SUFFICES ASSUME NEW o \in Callers, Served(proc'[o]), proc'[o].auth \in Auths
                 PROVE  Later(cache[proc[o].auth].credits, o)'
      BY DEF CacheLater
    <3>1. o # p
      BY <1>5, <1>9 DEF Served
    <3> QED
      BY <1>6, <1>9, <1>13, <1>14, <3>1 DEF Fresh, CacheLater, Later
  <2>3. ASSUME NEW o \in Callers PROVE AnswerLater(o)'
    <3>1. CASE o = p
      BY <1>5, <1>9, <3>1 DEF AnswerLater
    <3>2. CASE o # p
      BY <1>9, <1>13, <1>14, <3>2 DEF Fresh, AnswerLater
    <3> QED
      BY <3>1, <3>2
  <2> QED
    BY <2>1, <2>2, <2>3 DEF Fresh
<1>15. ASSUME Kept PROVE Kept'
  <2>1. KnownRun(r) /\ p \notin Checkins
    BY <1>0, <1>1, <1>3, <1>5, <1>15, CacheConstants DEF Kept, Known, KnownRun
  <2>2. OlderRun(r)
    BY <1>2, <1>5 DEF OlderRun
  <2>3. NothingDeleted => FallbackRun(r)
    BY <1>1, <1>2, <1>3, <1>5, <1>15 DEF Kept, Lasting, FallbackRun
  <2> QED
    BY <1>0, <1>5, <1>6, <1>15, <2>1, <2>2, <2>3, KeptStays DEF CalmKept
<1>16. \A b \in Auths : cache'[b] = cache[b]
  BY <1>6
<1> QED
  BY <1>0, <1>5, <1>6, <1>7, <1>8, <1>9, <1>11, <1>12, <1>14, <1>15, <1>16, CallerStep
     DEF Inv, Typed

\* ... or waits for the one there is.
LEMMA FollowKeeps ==
    ASSUME Inv, NEW p \in Callers, Join(p), flight[proc[p].auth] # None
    PROVE  Inv'
<1>0. p \in Procs /\ Typed /\ Base
  BY DEF Procs, Inv, Base
<1>1. PICK q \in Runs : q = proc[p]
  BY <1>0, OneRun
<1>2. q.pc = "join" /\ Fits(p, q) /\ q.auth \in Auths /\ ~q.closed
  BY <1>0, <1>1, OneRun DEF Join, Fits
<1>3. PICK o \in Callers : /\ o = flight[q.auth] /\ Fetching(o) /\ proc[o].auth = q.auth
                           /\ o # p
  <2>1. PICK o \in Callers : o = flight[q.auth]
    BY <1>0, <1>1, <1>2 DEF Typed
  <2>2. Fetching(o) /\ proc[o].auth = q.auth
    BY <1>0, <1>1, <1>2, <2>1 DEF Base, Flights
  <2> QED
    BY <1>1, <1>2, <2>1, <2>2 DEF Fetching
<1>4. PICK g \in Instants : g = proc[o].began
  BY <1>0, OneRun DEF Procs
<1>5. PICK r : r = [q EXCEPT !.pc = "wait", !.owner = o, !.prev = Absent, !.began = g]
  OBVIOUS
<1>6. /\ r \in Runs /\ r.pc = "wait" /\ r.owner = o /\ r.prev = Absent /\ r.began = g
      /\ r.auth = q.auth /\ r.own = q.own /\ r.status = q.status /\ r.billing = q.billing
      /\ r.closed = q.closed
  BY <1>3, <1>5 DEF Runs
<1>7. Moves(p, r) /\ UNCHANGED <<now, claimed, cache, flight>>
  <2>1. proc' = [proc EXCEPT ![p].pc = "wait", ![p].owner = flight[proc[p].auth],
                             ![p].prev = Absent, ![p].began = proc[flight[proc[p].auth]].began]
    BY DEF Join
  <2> QED
    BY <1>0, <1>1, <1>3, <1>4, <1>5, <2>1 DEF Join, Moves, Typed
<1>8. now' \in Instants /\ now' >= now /\ now \in Nat
  BY <1>0, <1>7, OneRun DEF Typed
<1>9. Fits(p, r)'
  <2>1. g <= now
    BY <1>0, <1>4 DEF Typed, Fits, Procs
  <2> QED
    BY <1>2, <1>6, <1>7, <1>8, <2>1, EmptyTyped, CacheConstants DEF Fits, InPhase, Past
<1>10. proc'[p] = r /\ \A x \in Callers \ {p} : proc'[x] = proc[x]
  BY <1>0, <1>6, <1>7, OneMoves DEF Procs
<1>11. Flights'
  <2>1. \A x \in Callers : /\ Fetching(x)' <=> Fetching(x)
                           /\ Fetching(x) => proc'[x] = proc[x]
    BY <1>1, <1>2, <1>6, <1>10 DEF Fetching
  <2>2. \A b \in Auths : flight[b] \in Callers \cup {None}
    BY <1>0 DEF Typed
  <2> QED
    BY <1>0, <1>7, <2>1, <2>2 DEF Base, Flights
<1>12. Joined'
  BY <1>0, <1>1, <1>2, <1>3, <1>4, <1>6, <1>7, JoinedStays DEF InFlight, Fetching
<1>13. \A n : Queried(n) => Queried(n)'
  BY <1>0, <1>6, <1>7, QueriedStays, CacheConstants
<1>14. ASSUME Fresh PROVE Fresh'
  <2>1. ReadLater'
    <3> SUFFICES ASSUME NEW x \in Callers, NEW y \in Callers, proc'[x].pc = "fetch",
                        proc'[x].billing = "ok", proc'[y].auth = proc'[x].auth
                 PROVE  proc'[x].own.credits > proc'[y].began
      BY DEF ReadLater
    <3>1. x # p /\ proc'[x] = proc[x]
      BY <1>6, <1>10
    <3>2. CASE y = p
      <4>1. x = o
        BY <1>0, <1>3, <1>6, <1>10, <3>1, <3>2 DEF Base, Flights, Fetching
      <4>2. proc[x].own.credits > proc[x].began
        BY <1>14, <3>1 DEF Fresh, ReadLater
      <4> QED
        BY <1>4, <1>6, <1>10, <3>1, <3>2, <4>1, <4>2
    <3>3. CASE y # p
      BY <1>10, <1>14, <3>1, <3>3 DEF Fresh, ReadLater
    <3> QED
      BY <3>2, <3>3
  <2>2. CacheLater'
    <3> SUFFICES ASSUME NEW y \in Callers, Served(proc'[y]), proc'[y].auth \in Auths
                 PROVE  Later(cache[proc[y].auth].credits, y)'
      BY DEF CacheLater
    <3>1. y # p
      BY <1>6, <1>10 DEF Served
    <3> QED
      BY <1>7, <1>10, <1>13, <1>14, <3>1 DEF Fresh, CacheLater, Later
  <2>3. ASSUME NEW y \in Callers PROVE AnswerLater(y)'
    <3>1. CASE y = p
      BY <1>6, <1>10, <3>1 DEF AnswerLater, Served
    <3>2. CASE y # p
      BY <1>10, <1>13, <1>14, <3>2 DEF Fresh, AnswerLater
    <3> QED
      BY <3>1, <3>2
  <2> QED
    BY <2>1, <2>2, <2>3 DEF Fresh
<1>15. ASSUME Kept PROVE Kept'
  <2>1. KnownRun(r) /\ p \notin Checkins
    BY <1>0, <1>1, <1>6, <1>15, EmptyTyped, CacheConstants DEF Kept, Known, KnownRun
  <2>2. OlderRun(r) /\ FallbackRun(r)
    BY <1>6 DEF OlderRun, FallbackRun
  <2> QED
    BY <1>0, <1>6, <1>7, <1>15, <2>1, <2>2, KeptStays DEF CalmKept
<1>16. \A b \in Auths : cache'[b] = cache[b]
  BY <1>7
<1> QED
  BY <1>0, <1>6, <1>7, <1>8, <1>9, <1>11, <1>12, <1>14, <1>15, <1>16, CallerStep
     DEF Inv, Typed

LEMMA ReadCreditsKeeps == ASSUME Inv, NEW p \in Callers, ReadCredits(p) PROVE Inv'
<1>0. p \in Procs /\ Typed /\ Base
  BY DEF Procs, Inv, Base
<1>1. PICK q \in Runs : q = proc[p]
  BY <1>0, OneRun
<1>2. /\ q.pc = "fetch" /\ q.billing = "todo" /\ Fits(p, q) /\ q.own \in Entries
      /\ q.auth \in Auths
  BY <1>0, <1>1, OneRun DEF ReadCredits, Fits
<1>3. /\ p \notin Checkins /\ p \notin Queries /\ p \notin Invalidators
      /\ UNCHANGED <<claimed, cache, flight>>
  BY CacheConstants DEF ReadCredits
<1>4. CASE /\ ReadsClock
           /\ proc' = [proc EXCEPT ![p].billing = "ok", ![p].own.credits = Reading]
  <2>1. now \in Nat /\ Reading = now + 1 /\ now' = Reading /\ Reading \in Instants
    BY <1>0, <1>4, Clock
  <2>2. PICK e : e = [q.own EXCEPT !.credits = Reading]
    OBVIOUS
  <2>3. /\ e \in Entries /\ e.checkinAt = q.own.checkinAt /\ e.checkin = q.own.checkin
        /\ e.credits = Reading /\ e.fetched = q.own.fetched
    BY <1>2, <2>1, <2>2 DEF Entries
  <2>4. PICK r : r = [q EXCEPT !.billing = "ok", !.own = e]
    OBVIOUS
  <2>5. /\ r \in Runs /\ r.billing = "ok" /\ r.own = e /\ r.pc = "fetch" /\ r.auth = q.auth
        /\ r.prev = q.prev /\ r.status = q.status /\ r.began = q.began /\ r.owner = q.owner
        /\ r.closed = q.closed
    BY <1>2, <2>3, <2>4 DEF Runs
  <2>6. Moves(p, r)
    BY <1>0, <1>1, <1>4, <2>2, <2>4 DEF Moves, Typed
  <2>7. Fits(p, r)'
    <3>1. q.began <= now' /\ Past(q.prev)' /\ Past(q.own)'
      BY <1>0, <1>1, <2>1, RunLater
    <3>2. Past(e)'
      BY <2>1, <2>3, <3>1 DEF Past
    <3> QED
      BY <1>2, <1>3, <2>3, <2>5, <3>1, <3>2 DEF Fits, InPhase
  <2>8. CalmFlight(p, r)
    BY <1>1, <1>2, <2>5 DEF CalmFlight, InFlight
  <2>9. Flights' /\ Joined'
    BY <1>0, <1>3, <2>5, <2>6, <2>8, FlightsStay
  <2>10. proc'[p] = r /\ \A x \in Callers \ {p} : proc'[x] = proc[x]
    BY <1>0, <2>5, <2>6, OneMoves DEF Procs
  <2>11. \A n : Queried(n) => Queried(n)'
    BY <1>0, <1>3, <2>5, <2>6, QueriedStays
  <2>12. ASSUME Fresh PROVE Fresh'
    <3>1. \A o \in Callers : proc'[o].began = proc[o].began /\ proc'[o].auth = proc[o].auth
      BY <1>1, <2>5, <2>10
    <3>2. ReadLater'
      <4> SUFFICES ASSUME NEW x \in Callers, NEW o \in Callers, proc'[x].pc = "fetch",
                          proc'[x].billing = "ok", proc'[o].auth = proc'[x].auth
                   PROVE  proc'[x].own.credits > proc'[o].began
        BY DEF ReadLater
      <4>1. CASE x = p
        <5>1. proc[o].began <= now /\ proc[o].began \in Nat
          BY <1>0, OneRun, CacheConstants DEF Fits, Procs, Instants
        <5> QED
          BY <2>1, <2>3, <2>5, <2>10, <3>1, <4>1, <5>1
      <4>2. CASE x # p
        BY <2>10, <2>12, <3>1, <4>2 DEF Fresh, ReadLater
      <4> QED
        BY <4>1, <4>2
    <3>3. \A o \in Callers : Served(proc'[o]) => o # p
      BY <2>5, <2>10 DEF Served
    <3>4. CacheLater'
      BY <1>3, <2>10, <2>11, <2>12, <3>3 DEF Fresh, CacheLater, Later
    <3>5. \A o \in Callers : AnswerLater(o)'
      BY <2>10, <2>11, <2>12, <3>3 DEF Fresh, AnswerLater
    <3> QED
      BY <3>2, <3>4, <3>5 DEF Fresh
  <2>13. ASSUME Kept PROVE Kept'
    <3>1. KnownRun(r)
      BY <1>0, <1>1, <2>3, <2>5, <2>13 DEF Kept, Known, KnownRun
    <3>2. OlderRun(r) /\ (NothingDeleted => FallbackRun(r))
      BY <1>1, <1>2, <2>3, <2>5, <2>13 DEF Kept, Lasting, FallbackRun, OlderRun
    <3> QED
      BY <1>0, <1>3, <2>5, <2>6, <2>13, <3>1, <3>2, KeptStays DEF CalmKept
  <2>14. \A x \in Auths : cache'[x] = cache[x]
    BY <1>3
  <2> QED
    BY <1>0, <1>3, <2>1, <2>5, <2>6, <2>7, <2>9, <2>12, <2>13, <2>14, CallerStep DEF Inv, Typed
<1>5. CASE /\ "credits" \in Faults
           /\ proc' = [proc EXCEPT ![p].billing = "failed"] /\ UNCHANGED now
  <2>1. PICK r : r = [q EXCEPT !.billing = "failed"]
    OBVIOUS
  <2>2. /\ r \in Runs /\ r.billing = "failed" /\ r.own = q.own /\ r.pc = "fetch"
        /\ r.auth = q.auth /\ r.prev = q.prev /\ r.status = q.status /\ r.began = q.began
        /\ r.owner = q.owner /\ r.closed = q.closed
    BY <1>2, <2>1 DEF Runs
  <2>3. Moves(p, r)
    BY <1>0, <1>1, <1>5, <2>1 DEF Moves, Typed
  <2>4. now' \in Instants /\ now' >= now /\ now \in Nat
    BY <1>0, <1>5, OneRun DEF Typed
  <2>5. Fits(p, r)'
    BY <1>2, <1>3, <1>5, <2>2, <2>4 DEF Fits, InPhase, Past
  <2>6. CalmFlight(p, r) /\ CalmRead(p, r)
    BY <1>1, <1>2, <1>3, <2>2 DEF CalmFlight, CalmRead, InFlight, Served
  <2>7. ASSUME Invalidators = {} PROVE CalmKept(p, r)
    <3>1. Kept
      BY <2>7 DEF Inv
    <3>2. KnownRun(r) /\ OlderRun(r) /\ (NothingDeleted => FallbackRun(r))
      BY <1>0, <1>1, <1>2, <2>2, <3>1
         DEF Kept, Known, KnownRun, Lasting, FallbackRun, OlderRun
    <3> QED
      BY <1>3, <2>2, <3>2 DEF CalmKept
  <2> QED
    BY <1>0, <1>3, <2>2, <2>3, <2>4, <2>5, <2>6, <2>7, QuietStep
<1> QED
  BY <1>4, <1>5 DEF ReadCredits

LEMMA ReleaseKeeps == ASSUME Inv, NEW p \in Callers, Release(p) PROVE Inv'
<1>0. p \in Procs /\ Typed /\ Base
  BY DEF Procs, Inv, Base
<1>1. PICK q \in Runs : q = proc[p]
  BY <1>0, OneRun
<1>2. q.pc = "release" /\ Fits(p, q) /\ q.auth \in Auths
  BY <1>0, <1>1, OneRun DEF Release, Fits
<1>3. PICK a \in Auths : a = q.auth
  BY <1>2
<1>4. PICK r \in Runs : r = Done(q)
  BY DoneTyped
<1>5. /\ r.pc = "done" /\ r.auth = a /\ r.own = Empty /\ r.prev = Absent /\ r.status = "todo"
      /\ r.began = q.began /\ r.billing = q.billing /\ r.answer = q.answer
      /\ r.owner = q.owner
  BY <1>3, <1>4, DoneTyped
<1>6. /\ Moves(p, r) /\ flight' = [flight EXCEPT ![a] = None]
      /\ UNCHANGED <<now, claimed, cache>>
  BY <1>0, <1>1, <1>3, <1>4 DEF Release, Moves, Typed
<1>7. now' \in Instants /\ now' >= now /\ now \in Nat
  BY <1>0, <1>6, OneRun DEF Typed
<1>8. p \notin Queries /\ p \notin Checkins /\ p \notin Invalidators /\ p \notin Panels
  BY CacheConstants
<1>9. Fits(p, r)'
  BY <1>2, <1>5, <1>6, <1>7, <1>8, EmptyTyped DEF Fits, InPhase, Past
<1>10. /\ proc'[p] = r /\ \A x \in Callers \ {p} : proc'[x] = proc[x]
       /\ flight' \in [Auths -> Callers \cup {None}] /\ flight'[a] = None
       /\ \A b \in Auths \ {a} : flight'[b] = flight[b]
  BY <1>0, <1>6, OneMoves DEF Procs, Typed
<1>11. flight[a] = p
  BY <1>0, <1>1, <1>2, <1>3 DEF Base, Flights, Fetching
<1>12. Flights'
  <2>1. \A x \in Callers : Fetching(x)' => x # p /\ Fetching(x) /\ proc[x].auth \in Auths \ {a}
    <3> SUFFICES ASSUME NEW x \in Callers, Fetching(x)'
                 PROVE  x # p /\ Fetching(x) /\ proc[x].auth \in Auths \ {a}
      OBVIOUS
    <3>1. x # p
      BY <1>5, <1>10 DEF Fetching
    <3>2. Fetching(x)
      BY <1>10, <3>1 DEF Fetching
    <3>3. proc[x].auth \in Auths
      BY <1>0, <3>2 DEF Fetching, Typed, Fits, Procs
    <3> QED
      BY <1>0, <1>11, <3>1, <3>2, <3>3 DEF Base, Flights
  <2>2. \A x \in Callers : Fetching(x)' => flight'[proc'[x].auth] = x
    BY <1>0, <1>10, <2>1 DEF Base, Flights
  <2>3. ASSUME NEW b \in Auths, flight'[b] # None
        PROVE  Fetching(flight[b])' /\ proc'[flight'[b]].auth = b
    <3>1. b # a /\ flight'[b] = flight[b]
      BY <1>10, <2>3
    <3>2. PICK x \in Callers : x = flight[b] /\ x = flight'[b]
      BY <1>0, <2>3, <3>1 DEF Typed
    <3>3. Fetching(x) /\ proc[x].auth = b /\ x # p
      BY <1>0, <1>1, <1>3, <2>3, <3>1, <3>2 DEF Base, Flights
    <3>4. Fetching(x)' /\ proc'[x].auth = b
      BY <1>10, <3>3 DEF Fetching
    <3> QED
      BY <3>2, <3>4 DEF Fetching
  <2> QED
    BY <2>2, <2>3 DEF Flights
<1>13. Joined'
  BY <1>0, <1>1, <1>2, <1>3, <1>5, <1>6, JoinedStays DEF InFlight
<1>14. ASSUME Fresh PROVE Fresh'
  <2>1. CalmRead(p, r)
    BY <1>1, <1>2, <1>3, <1>5, <1>8 DEF CalmRead, Served
  <2>2. \A b \in Auths : cache'[b].credits \in {NoCredits, cache[b].credits}
    BY <1>6
  <2> QED
    BY <1>0, <1>6, <1>14, <2>1, <2>2, FreshStays
<1>15. ASSUME Kept PROVE Kept'
  <2>1. KnownRun(r) /\ OlderRun(r) /\ FallbackRun(r)
    BY <1>5, EmptyTyped DEF KnownRun, OlderRun, FallbackRun
  <2> QED
    BY <1>0, <1>5, <1>6, <1>8, <1>15, <2>1, KeptStays DEF CalmKept
<1>16. \A b \in Auths : cache'[b] = cache[b]
  BY <1>6
<1> QED
  BY <1>0, <1>6, <1>7, <1>9, <1>10, <1>12, <1>13, <1>14, <1>15, <1>16, CallerStep DEF Inv, Typed

\* A joiner is given what the cache shows, or the flight's own result.
LEMMA WokenKeeps == ASSUME Inv, NEW p \in Callers, Woken(p) PROVE Inv'
<1>0. p \in Procs /\ Typed /\ Base
  BY DEF Procs, Inv, Base
<1>1. PICK q \in Runs : q = proc[p]
  BY <1>0, OneRun
<1>2. q.pc = "wait" /\ Fits(p, q) /\ q.auth \in Auths
  BY <1>0, <1>1, OneRun DEF Woken, Fits
<1>3. PICK o \in Callers : o = q.owner /\ Awaits(p, o)
  BY <1>0, <1>1, <1>2 DEF Base, Joined
<1>4. PICK l \in Runs : l = proc[o] /\ Fits(o, l)
  BY <1>0, OneRun DEF Procs
<1>5. /\ l.closed /\ Served(l) /\ l.auth = q.auth /\ l.began = q.began
  BY <1>1, <1>3, <1>4 DEF Woken, Fits, Served, Awaits
<1>6. PICK a \in Auths, e \in Entries \cup {Absent} : a = q.auth /\ e = cache[a]
  BY <1>0, <1>2 DEF Typed
<1>7. PICK n \in Instants : n = IF e # Absent THEN e.credits ELSE l.answer
  BY <1>0, EmptyTyped DEF Entries, Runs
<1>8. PICK s : s = [q EXCEPT !.billing = l.billing, !.answer = n]
  OBVIOUS
<1>9. /\ s \in Runs /\ s.billing = l.billing /\ s.answer = n /\ s.auth = a
      /\ s.began = q.began /\ s.owner = o /\ s.closed = q.closed
  BY <1>3, <1>6, <1>8 DEF Runs
<1>10. PICK r \in Runs : r = Done(s)
  BY <1>9, DoneTyped
<1>11. /\ r.pc = "done" /\ r.auth = a /\ r.own = Empty /\ r.prev = Absent /\ r.status = "todo"
       /\ r.began = q.began /\ r.billing = l.billing /\ r.answer = n /\ r.owner = o
  BY <1>9, <1>10, DoneTyped
<1>12. Moves(p, r) /\ UNCHANGED <<now, claimed, cache, flight>>
  <2>1. proc' = [proc EXCEPT ![p] =
                   Done([q EXCEPT !.billing = l.billing,
                                  !.answer = IF e # Absent THEN e.credits ELSE l.answer])]
    BY <1>1, <1>3, <1>4, <1>6 DEF Woken
  <2> QED
    BY <1>7, <1>8, <1>10, <2>1 DEF Moves, Woken
<1>13. now' \in Instants /\ now' >= now /\ now \in Nat
  BY <1>0, <1>12, OneRun DEF Typed
<1>14. p \notin Queries /\ p \notin Checkins /\ p \notin Invalidators /\ p \notin Panels
  BY CacheConstants
<1>15. Fits(p, r)'
  BY <1>2, <1>4, <1>11, <1>12, <1>13, <1>14, EmptyTyped DEF Fits, InPhase, Past
<1>16. CalmFlight(p, r)
  BY <1>1, <1>2, <1>6, <1>11 DEF CalmFlight, InFlight
<1>17. Flights' /\ Joined'
  BY <1>0, <1>12, <1>16, FlightsStay
<1>18. proc'[p] = r /\ \A x \in Callers \ {p} : proc'[x] = proc[x]
  BY <1>0, <1>12, OneMoves DEF Procs
<1>19. \A m : Queried(m) => Queried(m)'
  BY <1>0, <1>12, <1>14, QueriedStays
<1>20. ASSUME Fresh PROVE Fresh'
  <2>1. \A x \in Callers : proc'[x].began = proc[x].began /\ proc'[x].auth = proc[x].auth
    BY <1>1, <1>6, <1>11, <1>18
  <2>2. ReadLater'
    <3>1. \A x \in Callers : proc'[x].pc = "fetch" => proc'[x] = proc[x]
      BY <1>11, <1>18
    <3> QED
      BY <1>20, <2>1, <3>1 DEF Fresh, ReadLater
  <2>3. Later(e.credits, o)
    BY <1>4, <1>5, <1>6, <1>20 DEF Fresh, CacheLater
  <2>4. CacheLater'
    <3> SUFFICES ASSUME NEW x \in Callers, Served(proc'[x]), proc'[x].auth \in Auths
                 PROVE  Later(cache[proc[x].auth].credits, x)'
      BY DEF CacheLater
    <3>1. CASE x = p
      BY <1>4, <1>5, <1>6, <1>11, <1>12, <1>18, <1>19, <2>3, <3>1 DEF Later
    <3>2. CASE x # p
      BY <1>12, <1>18, <1>19, <1>20, <3>2 DEF Fresh, CacheLater, Later
    <3> QED
      BY <3>1, <3>2
  <2>5. ASSUME NEW x \in Callers PROVE AnswerLater(x)'
    <3>1. CASE x = p
      <4>1. o # None
        BY CacheConstants DEF Procs
      <4>2. AnswerLater(o)
        BY <1>20 DEF Fresh
      <4>3. l.billing = "ok" /\ n # NoCredits => n > q.began \/ Queried(n)
        <5>1. CASE e # Absent
          BY <1>4, <1>5, <1>7, <2>3, <5>1 DEF Later
        <5>2. CASE e = Absent
          BY <1>4, <1>5, <1>7, <4>2, <5>2 DEF AnswerLater
        <5> QED
          BY <5>1, <5>2
      <4> QED
        BY <1>11, <1>18, <1>19, <3>1, <4>1, <4>3 DEF AnswerLater
    <3>2. CASE x # p
      BY <1>18, <1>19, <1>20, <3>2 DEF Fresh, AnswerLater
    <3> QED
      BY <3>1, <3>2
  <2> QED
    BY <2>2, <2>4, <2>5 DEF Fresh
<1>21. ASSUME Kept PROVE Kept'
  <2>1. KnownRun(r) /\ OlderRun(r) /\ FallbackRun(r)
    BY <1>11, EmptyTyped DEF KnownRun, OlderRun, FallbackRun
  <2> QED
    BY <1>0, <1>11, <1>12, <1>14, <1>21, <2>1, KeptStays DEF CalmKept
<1>22. \A b \in Auths : cache'[b] = cache[b]
  BY <1>12
<1> QED
  BY <1>0, <1>12, <1>13, <1>15, <1>17, <1>20, <1>21, <1>22, CallerStep DEF Inv, Typed

LEMMA PruneDropKeeps == ASSUME Inv, NEW p \in Callers, PruneDrop(p) PROVE Inv'
<1>0. p \in Procs /\ Typed /\ Base
  BY DEF Procs, Inv, Base
<1>1. PICK q \in Runs : q = proc[p]
  BY <1>0, OneRun
<1>2. q.pc = "drop" /\ Fits(p, q) /\ q.auth \in Auths /\ q.victims \subseteq Auths
  BY <1>0, <1>1, OneRun DEF PruneDrop, Fits, Runs
<1>3. PICK a \in q.victims :
        /\ cache' = [cache EXCEPT ![a] = Absent]
        /\ proc' = [proc EXCEPT ![p].victims = q.victims \ {a},
                                ![p].pc = IF q.victims \ {a} = {} THEN "close" ELSE "drop"]
  BY <1>1 DEF PruneDrop
<1>4. PICK ph : ph = IF q.victims \ {a} = {} THEN "close" ELSE "drop"
  OBVIOUS
<1>5. PICK r : r = [q EXCEPT !.victims = q.victims \ {a}, !.pc = ph]
  OBVIOUS
<1>6. /\ r \in Runs /\ r.pc = ph /\ ph \in {"close", "drop"} /\ r.auth = q.auth
      /\ r.prev = q.prev /\ r.own = q.own /\ r.status = q.status /\ r.billing = q.billing
      /\ r.began = q.began /\ r.owner = q.owner /\ r.answer = q.answer /\ r.closed = q.closed
  BY <1>2, <1>4, <1>5 DEF Runs
<1>7. Moves(p, r) /\ UNCHANGED <<now, claimed, flight>>
  BY <1>0, <1>1, <1>3, <1>4, <1>5 DEF PruneDrop, Moves, Typed
<1>8. now' \in Instants /\ now' >= now /\ now \in Nat
  BY <1>0, <1>7, OneRun DEF Typed
<1>9. p \notin Queries /\ p \notin Checkins /\ p \notin Invalidators /\ p \notin Panels
  BY CacheConstants
<1>10. Fits(p, r)' /\ Past(Absent)'
  BY <1>2, <1>6, <1>7, <1>8, <1>9, EmptyTyped DEF Fits, InPhase, Past
<1>11. /\ cache' \in [Auths -> Entries \cup {Absent}]
       /\ \A b \in Auths : cache'[b] \in {cache[b], Absent} /\ (b = a => cache'[b] = Absent)
  BY <1>0, <1>2, <1>3 DEF Typed
<1>12. CalmFlight(p, r) /\ CalmRead(p, r)
  BY <1>1, <1>2, <1>6, <1>9 DEF CalmFlight, CalmRead, InFlight, Served
<1>13. Flights' /\ Joined'
  BY <1>0, <1>6, <1>7, <1>12, FlightsStay
<1>14. ASSUME Fresh PROVE Fresh'
  <2>1. \A b \in Auths : cache'[b].credits \in {NoCredits, cache[b].credits}
    BY <1>11, EmptyTyped DEF NoCredits
  <2> QED
    BY <1>0, <1>6, <1>7, <1>12, <1>14, <2>1, FreshStays
<1>15. ASSUME Kept PROVE Kept'
  <2>1. proc'[p] = r /\ \A x \in Procs \ {p} : proc'[x] = proc[x]
    BY <1>0, <1>6, <1>7, OneMoves
  <2>2. ~NothingDeleted
    BY <1>1, <1>2, <1>15 DEF Kept, Lasting
  <2>3. Confirmed'
    BY <1>0, <1>6, <1>7, <1>9, <1>15, ConfirmedStays DEF Kept
  <2>4. \A x \in Procs : KnownRun(proc'[x])
    BY <1>1, <1>6, <1>15, <2>1 DEF Kept, Known, KnownRun
  <2>5. \A x \in Callers : proc'[x].pc = "fetch" => proc'[x] = proc[x]
    BY <1>6, <2>1 DEF Procs
  <2>6. a \in Auths
    BY <1>2
  <2> QED
    BY <1>0, <1>3, <1>7, <1>15, <2>2, <2>3, <2>4, <2>5, <2>6, DropKeeps
<1>16. \A b \in Auths : cache'[b] = cache[b] \/ Past(cache[b])'
  <2> SUFFICES ASSUME NEW b \in Auths, cache'[b] # cache[b] PROVE Past(cache[b])'
    OBVIOUS
  <2>1. cache'[b] = Absent
    BY <1>11
  <2> QED
    BY <1>10, <2>1 DEF Past
<1> QED
  BY <1>0, <1>6, <1>7, <1>8, <1>10, <1>11, <1>13, <1>14, <1>15, <1>16, CallerStep DEF Inv, Typed

\* What a fetcher would store: what it read, or what it saw when a read failed.
LEMMA CarriedTyped ==
    ASSUME NEW q \in Runs
    PROVE  /\ carried(q) \in Entries
           /\ carried(q).credits \in {q.own.credits, q.prev.credits}
           /\ q.billing # "failed" => carried(q).credits = q.own.credits
           /\ carried(q).fetched = q.own.fetched
           /\ \/ /\ q.status # "failed" \/ q.prev = Absent
                 /\ carried(q).checkin = q.own.checkin
                 /\ carried(q).checkinAt = q.own.checkinAt
              \/ /\ q.status = "failed" /\ q.prev # Absent
                 /\ carried(q).checkin = q.prev.checkin
                 /\ carried(q).checkinAt = q.prev.checkinAt
<1>1. /\ q.own \in Entries /\ q.prev \in Entries \cup {Absent}
      /\ q.prev # Absent => q.prev \in Entries
  BY DEF Runs
<1>2. PICK o \in Entries :
        /\ o = IF q.status = "failed" /\ q.prev # Absent
               THEN [q.own EXCEPT !.checkin = q.prev.checkin, !.checkinAt = q.prev.checkinAt]
               ELSE q.own
        /\ o.credits = q.own.credits /\ o.fetched = q.own.fetched
        /\ \/ /\ q.status # "failed" \/ q.prev = Absent
              /\ o.checkin = q.own.checkin /\ o.checkinAt = q.own.checkinAt
           \/ /\ q.status = "failed" /\ q.prev # Absent
              /\ o.checkin = q.prev.checkin /\ o.checkinAt = q.prev.checkinAt
  <2>1. CASE q.status = "failed" /\ q.prev # Absent
    <3>1. PICK f : f = [q.own EXCEPT !.checkin = q.prev.checkin, !.checkinAt = q.prev.checkinAt]
      OBVIOUS
    <3>2. /\ f \in Entries /\ f.checkin = q.prev.checkin /\ f.checkinAt = q.prev.checkinAt
          /\ f.credits = q.own.credits /\ f.fetched = q.own.fetched
      BY <1>1, <2>1, <3>1 DEF Entries
    <3> QED
      BY <2>1, <3>1, <3>2
  <2>2. CASE ~(q.status = "failed" /\ q.prev # Absent)
    BY <1>1, <2>2
  <2> QED
    BY <2>1, <2>2
<1>3. carried(q) = IF q.billing = "failed" /\ q.prev # Absent
                   THEN [o EXCEPT !.credits = q.prev.credits] ELSE o
  BY <1>2 DEF carried
<1>4. CASE q.billing = "failed" /\ q.prev # Absent
  <2>1. PICK f : f = [o EXCEPT !.credits = q.prev.credits]
    OBVIOUS
  <2>2. /\ f \in Entries /\ f.checkin = o.checkin /\ f.checkinAt = o.checkinAt
        /\ f.credits = q.prev.credits /\ f.fetched = o.fetched
    BY <1>1, <1>4, <2>1 DEF Entries
  <2>3. carried(q) = f
    BY <1>3, <1>4, <2>1
  <2> QED
    BY <1>2, <1>4, <2>2, <2>3
<1>5. CASE ~(q.billing = "failed" /\ q.prev # Absent)
  <2>1. carried(q) = o
    BY <1>3, <1>5
  <2> QED
    BY <1>2, <1>5, <2>1
<1> QED
  BY <1>4, <1>5

\* The status a fetch leaves: the cached one, its own, or the one it began with.
Shows(e, q, c) ==
    \/ c # Absent /\ e.checkin = c.checkin /\ e.checkinAt = c.checkinAt
    \/ /\ c.checkinAt <= e.checkinAt /\ q.status = "ok"
       /\ e.checkin = q.own.checkin /\ e.checkinAt = q.own.checkinAt
    \/ c.checkinAt <= e.checkinAt /\ e.checkin = q.own.checkin /\ e.checkinAt = 0
    \/ /\ c.checkinAt <= e.checkinAt /\ q.status = "failed" /\ q.prev # Absent
       /\ e.checkin = q.prev.checkin /\ e.checkinAt = q.prev.checkinAt

\* What Store does, field by field.
Lands(p, q, r, a, e) ==
    /\ q = proc[p] /\ q.pc = "fetch" /\ Fits(p, q) /\ a = q.auth
    /\ q.billing # "todo"
    /\ Moves(p, r) /\ cache' = [cache EXCEPT ![a] = e]
    /\ r.pc = "prune" /\ r.auth = a /\ r.own = Empty /\ r.prev = Absent
    /\ r.answer = e.credits /\ r.began = q.began /\ r.billing = q.billing
    /\ r.owner = q.owner /\ r.closed = q.closed /\ r.status = q.status
    /\ q.billing # "failed" => e.credits = q.own.credits
    /\ Shows(e, q, cache[a]) /\ Past(e)' /\ Fits(p, r)'
    /\ now' \in Instants /\ now' = now + 1 /\ claimed' = claimed /\ flight' = flight

LEMMA StoreLands ==
    ASSUME Typed, NEW p \in Callers, Store(p)
    PROVE  \E q \in Runs, r \in Runs, a \in Auths, e \in Entries : Lands(p, q, r, a, e)
<1>0. p \in Procs
  BY DEF Procs
<1>1. PICK q \in Runs : q = proc[p]
  BY <1>0, OneRun
<1>2. /\ q.pc = "fetch" /\ q.status \in {"ok", "failed"} /\ q.billing # "todo"
      /\ Fits(p, q) /\ q.own \in Entries /\ q.prev \in Entries \cup {Absent}
  BY <1>0, <1>1, OneRun DEF Store
<1>3. PICK a \in Auths : a = q.auth
  BY <1>2 DEF Fits
<1>4. now \in Nat /\ Reading = now + 1 /\ now' = Reading /\ Reading \in Instants
  BY Clock DEF Store
<1>5. PICK k : k = [carried(q) EXCEPT !.fetched = Reading]
  OBVIOUS
<1>6. /\ k \in Entries /\ k.checkin = carried(q).checkin /\ k.checkinAt = carried(q).checkinAt
      /\ k.credits = carried(q).credits /\ k.fetched = Reading
  BY <1>4, <1>5, CarriedTyped DEF Entries
<1>7. PICK e \in Entries : e = merged(a, k)
  BY <1>6, MergedTyped
<1>8. /\ e.credits = k.credits /\ e.fetched = k.fetched
      /\ \/ /\ cache[a] # Absent /\ cache[a].checkinAt > k.checkinAt
            /\ e.checkin = cache[a].checkin /\ e.checkinAt = cache[a].checkinAt
         \/ cache[a].checkinAt <= k.checkinAt /\ e = k
  BY <1>6, <1>7, MergedTyped
<1>9. PICK r : r = [q EXCEPT !.pc = "prune", !.answer = e.credits, !.prev = Absent, !.own = Empty]
  OBVIOUS
<1>10. /\ r \in Runs /\ r.pc = "prune" /\ r.auth = a /\ r.own = Empty /\ r.prev = Absent
       /\ r.answer = e.credits /\ r.began = q.began /\ r.billing = q.billing
       /\ r.owner = q.owner /\ r.closed = q.closed /\ r.status = q.status
  <2>1. e.credits \in Instants
    BY DEF Entries
  <2> QED
    BY <1>3, <1>9, <2>1, EmptyTyped DEF Runs
<1>11. Moves(p, r) /\ cache' = [cache EXCEPT ![a] = e]
  <2>1. /\ cache' = [cache EXCEPT ![a] = e]
        /\ proc' = [proc EXCEPT ![p].pc = "prune", ![p].answer = e.credits,
                                ![p].prev = Absent, ![p].own = Empty]
    BY <1>1, <1>3, <1>5, <1>7 DEF Store
  <2> QED
    BY <1>0, <1>1, <1>9, <2>1 DEF Moves, Typed
<1>12. Shows(e, q, cache[a])
  <2>1. q.status = "failed" => q.own.checkinAt = 0
    BY <1>2 DEF Fits
  <2>2. CASE e # k
    BY <1>8, <2>2 DEF Shows
  <2>3. CASE e = k
    <3>1. \/ cache[a].checkinAt <= k.checkinAt
          \/ /\ cache[a] # Absent
             /\ e.checkin = cache[a].checkin /\ e.checkinAt = cache[a].checkinAt
      BY <1>8
    <3> QED
      BY <1>2, <1>6, <2>1, <2>3, <3>1, CarriedTyped DEF Shows
  <2> QED
    BY <2>2, <2>3
<1>13. Past(e)'
  <2>1. Past(q.own) /\ Past(q.prev) /\ Past(cache[a])
    BY <1>2 DEF Fits, Typed
  <2>2. e.checkinAt <= now /\ e.credits <= now
    BY <1>6, <1>8, <2>1, CarriedTyped DEF Past
  <2>3. e.checkinAt \in Int /\ e.credits \in Int /\ e.fetched = Reading
    BY <1>6, <1>8, CacheConstants DEF Entries, Instants
  <2> QED
    BY <1>4, <2>2, <2>3 DEF Past
<1>14. Fits(p, r)'
  <2>0. now' \in Instants /\ now' >= now
    BY <1>4
  <2>1. q.began <= now'
    BY <1>0, <1>1, <2>0, RunLater
  <2> QED
    BY <1>2, <1>3, <1>4, <1>10, <2>1, EmptyTyped, CacheConstants DEF Fits, InPhase, Past
<1>15. q.billing # "failed" => e.credits = q.own.credits
  BY <1>6, <1>8, CarriedTyped
<1>16. claimed' = claimed /\ flight' = flight
  BY DEF Store
<1>17. Lands(p, q, r, a, e)
  BY <1>1, <1>2, <1>3, <1>4, <1>10, <1>11, <1>12, <1>13, <1>14, <1>15, <1>16 DEF Lands
<1> QED
  BY <1>10, <1>17

\* A status read that is stored never takes a confirmed one away.
LEMMA StoreShowsYes ==
    ASSUME Base, Kept, NEW p \in Callers, NEW q \in Runs, NEW r \in Runs, NEW a \in Auths,
           NEW e \in Entries, Lands(p, q, r, a, e),
           "status" \notin Faults \/ NothingDeleted,
           cache[a].checkin = "yes", cache[a].checkinAt > 0
    PROVE  e.checkin = "yes"
<1>1. q = proc[p] /\ q.pc = "fetch" /\ q.auth = a /\ Fits(p, q) /\ Shows(e, q, cache[a])
  BY DEF Lands
<1>2. OlderRun(q) /\ (NothingDeleted => FallbackRun(q))
  BY <1>1 DEF Kept, Lasting
<1>3. q.status = "failed" => NothingDeleted
  BY <1>1 DEF Fits
<1>4. /\ cache[a].checkinAt \in Int /\ e.checkinAt \in Int /\ q.own.checkinAt \in Int
      /\ q.prev.checkinAt \in Int
  <2>1. /\ cache[a] \in Entries \cup {Absent} /\ q.own \in Entries
        /\ q.prev \in Entries \cup {Absent}
    BY DEF Base, Typed, Runs
  <2> QED
    BY <2>1, EmptyTyped, CacheConstants DEF Entries, Instants
<1>5. CASE cache[a] # Absent /\ e.checkin = cache[a].checkin
  BY <1>5
<1>6. CASE /\ cache[a].checkinAt <= e.checkinAt /\ q.status = "ok"
           /\ e.checkin = q.own.checkin /\ e.checkinAt = q.own.checkinAt
  BY <1>1, <1>2, <1>4, <1>6 DEF OlderRun
<1>7. CASE cache[a].checkinAt <= e.checkinAt /\ e.checkinAt = 0
  BY <1>4, <1>7
<1>8. CASE /\ cache[a].checkinAt <= e.checkinAt /\ q.status = "failed" /\ q.prev # Absent
           /\ e.checkin = q.prev.checkin /\ e.checkinAt = q.prev.checkinAt
  BY <1>1, <1>2, <1>3, <1>4, <1>8 DEF FallbackRun
<1> QED
  BY <1>1, <1>5, <1>6, <1>7, <1>8 DEF Shows

LEMMA StoreKeepsKept ==
    ASSUME Base, Kept, NEW p \in Callers, NEW q \in Runs, NEW r \in Runs, NEW a \in Auths,
           NEW e \in Entries, Lands(p, q, r, a, e)
    PROVE  Kept'
<1>1. /\ q = proc[p] /\ q.pc = "fetch" /\ q.auth = a /\ Shows(e, q, cache[a])
      /\ Moves(p, r) /\ claimed' = claimed /\ Typed
  BY DEF Lands, Base
<1>2. /\ proc'[p] = r /\ \A x \in Procs \ {p} : proc'[x] = proc[x]
      /\ cache'[a] = e /\ \A b \in Auths \ {a} : cache'[b] = cache[b]
  BY <1>1, OneMoves DEF Lands, Procs, Typed
<1>3. r.pc = "prune" /\ r.own = Empty /\ r.prev = Absent
  BY DEF Lands
<1>4. Confirmed'
  BY <1>1, ConfirmedStays, CacheConstants DEF Kept, Procs
<1>5. Known'
  <2>1. KnownRun(q)
    BY <1>1 DEF Kept, Known, Procs
  <2>2. e.checkin = "yes" => claimed[a]
    BY <1>1, <2>1 DEF Kept, Known, KnownRun, Shows
  <2>3. ASSUME NEW x \in Procs PROVE KnownRun(proc[x])'
    <3>1. CASE x = p
      BY <1>2, <1>3, <3>1, EmptyTyped DEF KnownRun
    <3>2. CASE x # p
      BY <1>1, <1>2, <3>2 DEF Kept, Known, KnownRun
    <3> QED
      BY <3>1, <3>2
  <2> QED
    BY <1>1, <1>2, <2>2, <2>3 DEF Kept, Known
<1>6. ASSUME NEW x \in Callers PROVE OlderRun(proc[x])'
  <2>1. CASE x = p
    BY <1>2, <1>3, <2>1 DEF OlderRun
  <2>2. CASE x # p
    <3>1. proc'[x] = proc[x]
      BY <1>2, <2>2 DEF Procs
    <3>2. SUFFICES ASSUME proc[x].pc = "fetch" PROVE OlderRun(proc[x])'
      BY <3>1 DEF OlderRun
    <3>3. proc[x].auth \in Auths \ {a}
      <4>1. proc[x].auth \in Auths
        BY <1>1, <3>2 DEF Typed, Fits, Procs
      <4>2. flight[proc[x].auth] = x /\ flight[a] = p
        BY <1>1, <3>2 DEF Base, Flights, Fetching
      <4> QED
        BY <2>2, <4>1, <4>2
    <3> QED
      BY <1>2, <3>1, <3>3 DEF Kept, OlderRun
  <2> QED
    BY <2>1, <2>2
<1>7. ASSUME NothingDeleted, NEW x \in Callers
      PROVE  FallbackRun(proc[x])' /\ proc'[x].pc # "drop"
  <2>1. CASE x = p
    BY <1>2, <1>3, <2>1 DEF FallbackRun
  <2>2. CASE x # p
    <3>1. proc'[x] = proc[x]
      BY <1>2, <2>2 DEF Procs
    <3>2. FallbackRun(proc[x]) /\ proc[x].pc # "drop" /\ FallbackRun(q) /\ OlderRun(q)
      BY <1>1, <1>7 DEF Kept, Lasting
    <3>3. SUFFICES ASSUME proc[x].pc \in {"join", "fetch"}, proc[x].prev # Absent
                   PROVE  FallbackRun(proc[x])'
      BY <3>1, <3>2 DEF FallbackRun
    <3>4. proc[x].auth \in Auths
      BY <1>1, <3>3 DEF Typed, Fits, Procs
    <3>5. CASE proc[x].auth # a
      BY <1>2, <3>1, <3>2, <3>4, <3>5 DEF FallbackRun
    <3>6. CASE proc[x].auth = a
      <4>1. PICK c \in Entries, f \in Entries : c = cache[a] /\ f = proc[x].prev
        BY <1>1, <3>2, <3>3, <3>6 DEF Typed, Runs, Procs, FallbackRun
      <4>2. /\ c.checkinAt \in Nat /\ f.checkinAt \in Nat /\ e.checkinAt \in Nat
            /\ q.own.checkinAt \in Nat /\ e # Absent
        BY EmptyTyped, CacheConstants DEF Entries, Instants, Runs
      <4>3. /\ f.checkinAt <= c.checkinAt
            /\ f.checkinAt = c.checkinAt /\ f.checkinAt > 0 => f.checkin = c.checkin
        BY <3>2, <3>3, <3>6, <4>1 DEF FallbackRun
      <4>4. f.checkinAt <= e.checkinAt
        BY <1>1, <4>1, <4>2, <4>3 DEF Shows
      <4>5. e.checkinAt = c.checkinAt /\ e.checkinAt > 0 => e.checkin = c.checkin
        BY <1>1, <3>2, <4>1, <4>2 DEF Shows, FallbackRun, OlderRun
      <4>6. f.checkinAt = e.checkinAt /\ f.checkinAt > 0 => f.checkin = e.checkin
        <5>1. c.checkinAt <= e.checkinAt
          BY <1>1, <4>1, <4>2 DEF Shows
        <5> QED
          BY <4>2, <4>3, <4>5, <5>1
      <4> QED
        BY <1>2, <3>1, <3>6, <4>1, <4>2, <4>4, <4>6 DEF FallbackRun
    <3> QED
      BY <3>5, <3>6
  <2> QED
    BY <2>1, <2>2
<1> QED
  BY <1>4, <1>5, <1>6, <1>7 DEF Kept, Lasting, NothingDeleted

LEMMA StoreKeepsFresh ==
    ASSUME Base, Fresh, "credits" \notin Faults, NEW p \in Callers, NEW q \in Runs,
           NEW r \in Runs, NEW a \in Auths, NEW e \in Entries, Lands(p, q, r, a, e)
    PROVE  Fresh'
<1>1. /\ q = proc[p] /\ q.pc = "fetch" /\ q.auth = a /\ Fits(p, q) /\ q.billing # "todo"
      /\ Moves(p, r) /\ Typed
  BY DEF Lands, Base
<1>2. /\ proc'[p] = r /\ \A x \in Callers \ {p} : proc'[x] = proc[x]
      /\ cache'[a] = e /\ \A b \in Auths \ {a} : cache'[b] = cache[b]
  BY <1>1, OneMoves DEF Lands, Procs, Typed
<1>3. /\ r.pc = "prune" /\ r.auth = a /\ r.began = q.began /\ r.answer = e.credits
      /\ r.billing = q.billing
  BY DEF Lands
<1>4. q.billing = "ok" /\ e.credits = q.own.credits
  BY <1>1 DEF Fits, Runs, Lands
<1>5. \A o \in Callers : proc'[o].began = proc[o].began /\ proc'[o].auth = proc[o].auth
  BY <1>1, <1>2, <1>3
<1>6. \A n : Queried(n) => Queried(n)'
  BY <1>1, QueriedStays, CacheConstants DEF Procs
<1>7. \A o \in Callers : proc[o].auth = a => e.credits > proc[o].began
  BY <1>1, <1>4 DEF Fresh, ReadLater
<1>8. ReadLater'
  <2>1. \A x \in Callers : proc'[x].pc = "fetch" => proc'[x] = proc[x]
    BY <1>2, <1>3
  <2> QED
    BY <1>5, <2>1 DEF Fresh, ReadLater
<1>9. CacheLater'
  <2> SUFFICES ASSUME NEW o \in Callers, Served(proc'[o]), proc'[o].auth \in Auths
               PROVE  Later(cache[proc[o].auth].credits, o)'
    BY DEF CacheLater
  <2>1. CASE proc[o].auth = a
    BY <1>2, <1>5, <1>7, <2>1 DEF Later
  <2>2. CASE proc[o].auth # a
    <3>1. o # p /\ proc'[o] = proc[o] /\ cache'[proc[o].auth] = cache[proc[o].auth]
      BY <1>1, <1>2, <1>5, <2>2
    <3> QED
      BY <1>6, <3>1 DEF Fresh, CacheLater, Later
  <2> QED
    BY <2>1, <2>2
<1>10. ASSUME NEW o \in Callers PROVE AnswerLater(o)'
  <2>1. CASE o = p
    BY <1>1, <1>2, <1>3, <1>7, <2>1 DEF AnswerLater
  <2>2. CASE o # p
    BY <1>2, <1>6, <2>2 DEF Fresh, AnswerLater
  <2> QED
    BY <2>1, <2>2
<1> QED
  BY <1>8, <1>9, <1>10 DEF Fresh

LEMMA StoreKeeps == ASSUME Inv, NEW p \in Callers, Store(p) PROVE Inv'
<1>0. p \in Procs /\ Typed /\ Base
  BY DEF Procs, Inv, Base
<1>1. PICK q \in Runs, r \in Runs, a \in Auths, e \in Entries : Lands(p, q, r, a, e)
  BY <1>0, StoreLands
<1>2. /\ Moves(p, r) /\ Fits(p, r)' /\ cache' = [cache EXCEPT ![a] = e] /\ Past(e)'
      /\ claimed' = claimed /\ flight' = flight
  BY <1>1 DEF Lands
<1>3. now' \in Instants /\ now' >= now
  BY <1>0, <1>1, OneRun DEF Lands
<1>4. /\ cache' \in [Auths -> Entries \cup {Absent}] /\ cache'[a] = e
      /\ \A b \in Auths \ {a} : cache'[b] = cache[b]
  BY <1>0, <1>2 DEF Typed
<1>5. CalmFlight(p, r)
  BY <1>1 DEF Lands, CalmFlight, InFlight
<1>6. Flights' /\ Joined'
  BY <1>0, <1>2, <1>5, FlightsStay
<1>7. "credits" \notin Faults => Fresh'
  BY <1>0, <1>1, StoreKeepsFresh DEF Inv
<1>8. Invalidators = {} => Kept'
  BY <1>0, <1>1, StoreKeepsKept DEF Inv
<1>9. \A b \in Auths : cache'[b] = cache[b] \/ Past(cache[b])'
  <2> SUFFICES ASSUME NEW b \in Auths, cache'[b] # cache[b] PROVE Past(cache[b])'
    OBVIOUS
  <2>1. cache'[b] = e
    BY <1>4
  <2> QED
    BY <1>2, <2>1 DEF Past
<1> QED
  BY <1>0, <1>2, <1>3, <1>4, <1>6, <1>7, <1>8, <1>9, CallerStep DEF Typed

-----------------------------------------------------------------------------
(* The theorems.                                                           *)

LEMMA CacheStarts == ASSUME Init PROVE Inv
<1>1. /\ claimed \in [Auths -> {FALSE}]
      /\ \A a \in Auths : claimed[a] = FALSE /\ cache[a] = Absent /\ flight[a] = None
      /\ \A p \in Procs : proc[p] = Idle
  BY DEF Init
<1>2. Callers \subseteq Procs /\ Checkins \subseteq Procs
  BY DEF Procs
<1>3. Typed
  <2>1. now \in Instants /\ now = 1
    BY CacheConstants DEF Init, Instants
  <2>2. Past(Empty) /\ Past(Absent)
    BY <2>1, EmptyTyped DEF Past
  <2>3. \A p \in Procs : Fits(p, proc[p])
    BY <1>1, <2>1, <2>2, IdleTyped, EmptyTyped DEF Fits, InPhase, NoCredits
  <2>4. proc \in [Procs -> Runs] /\ \A a \in Auths : Past(cache[a])
    BY <1>1, <2>2, IdleTyped DEF Init
  <2>5. /\ claimed \in [Auths -> BOOLEAN]
        /\ cache \in [Auths -> Entries \cup {Absent}]
        /\ flight \in [Auths -> Callers \cup {None}]
    BY DEF Init
  <2> QED
    BY <2>1, <2>3, <2>4, <2>5 DEF Typed
<1>4. Flights /\ Joined
  BY <1>1, <1>2, IdleTyped DEF Flights, Joined, Fetching
<1>5. Fresh
  BY <1>1, <1>2, IdleTyped DEF Fresh, ReadLater, CacheLater, AnswerLater, Served
<1>6. Kept
  <2>1. Known
    BY <1>1, IdleTyped, EmptyTyped, CacheConstants DEF Known, KnownRun
  <2>2. Confirmed
    BY <1>1, <1>2, IdleTyped DEF Confirmed, Locks
  <2>3. \A p \in Callers : OlderRun(proc[p]) /\ FallbackRun(proc[p]) /\ proc[p].pc # "drop"
    BY <1>1, <1>2, IdleTyped DEF OlderRun, FallbackRun
  <2> QED
    BY <2>1, <2>2, <2>3 DEF Kept, Lasting
<1> QED
  BY <1>3, <1>4, <1>5, <1>6 DEF Inv, Base

LEMMA CacheStutters == ASSUME Inv, UNCHANGED vars PROVE Inv'
<1>1. now' = now /\ claimed' = claimed /\ cache' = cache /\ flight' = flight /\ proc' = proc
  BY DEF vars
<1>2. Base'
  BY <1>1 DEF Inv, Base, Typed, Flights, Joined, Fits, InPhase, Past, Fetching, Awaits
<1>3. "credits" \notin Faults => Fresh'
  BY <1>1 DEF Inv, Fresh, ReadLater, CacheLater, AnswerLater, Later, Queried, Served
<1>4. Invalidators = {} => Kept'
  BY <1>1 DEF Inv, Kept, Known, KnownRun, Confirmed, Status, Locks, OlderRun, FallbackRun,
              Lasting, NothingDeleted
<1> QED
  BY <1>2, <1>3, <1>4 DEF Inv

LEMMA FetchStepKeeps == ASSUME Inv, NEW p \in Callers, Step(p) PROVE Inv'
  BY LeadKeeps, FollowKeeps, StartStatusKeeps, ReadStatusKeeps, ReadCreditsKeeps, StoreKeeps,
     PruneLookKeeps, PruneDropKeeps, CloseKeeps, ReleaseKeeps, WokenKeeps DEF Step

LEMMA CacheSteps == ASSUME Inv, [Next]_vars PROVE Inv'
<1>1. CASE Tick
  BY <1>1, TickKeeps
<1>2. ASSUME NEW p \in Callers, NEW a \in Auths, NEW force \in BOOLEAN, Begin(p, a, force)
      PROVE  Inv'
  BY <1>2, BeginKeeps
<1>3. ASSUME NEW p \in Callers, Step(p) PROVE Inv'
  BY <1>3, FetchStepKeeps
<1>4. ASSUME NEW q \in Queries, NEW a \in Auths, QueryCredits(q, a) PROVE Inv'
  BY <1>4, QueryCreditsKeeps
<1>5. ASSUME NEW q \in Queries, QueryLoad(q) \/ QueryStore(q) PROVE Inv'
  BY <1>5, QueryLoadKeeps, QueryStoreKeeps
<1>6. ASSUME NEW k \in Checkins, NEW a \in Auths, Claim(k, a) PROVE Inv'
  BY <1>6, ClaimKeeps
<1>7. ASSUME NEW k \in Checkins, ConfirmStatus(k) \/ mergeCheckinCache(k) PROVE Inv'
  BY <1>7, ConfirmStatusKeeps, MergeKeeps
<1>8. ASSUME NEW v \in Invalidators, NEW a \in Auths, InvalidateLoad(v, a) PROVE Inv'
  BY <1>8, InvalidateLoadKeeps
<1>9. ASSUME NEW v \in Invalidators, InvalidateStore(v) PROVE Inv'
  BY <1>9, InvalidateStoreKeeps
<1>10. ASSUME NEW a \in Auths, DropEntry(a) PROVE Inv'
  BY <1>10, DropEntryKeeps
<1>11. ASSUME NEW b \in Panels, NEW a \in Auths, ExpireLook(b, a) PROVE Inv'
  BY <1>11, ExpireLookKeeps
<1>12. ASSUME NEW b \in Panels, ExpireDrop(b) PROVE Inv'
  BY <1>12, ExpireDropKeeps
<1>13. CASE UNCHANGED vars
  BY <1>13, CacheStutters
<1> QED
  BY <1>1, <1>2, <1>3, <1>4, <1>5, <1>6, <1>7, <1>8, <1>9, <1>10, <1>11, <1>12, <1>13 DEF Next

\* Types, flights, and where the environment allows them freshness and lasting
\* statuses: the invariant of every step on the account cache (cache.go).
THEOREM CacheInductive == Spec => []Inv
<1>1. Init => Inv
  BY CacheStarts
<1>2. Inv /\ [Next]_vars => Inv'
  BY CacheSteps
<1> QED
  BY <1>1, <1>2, PTL DEF Spec

LEMMA OneFetcherFollows == ASSUME Inv PROVE OneFetcher
<1>1. Typed /\ Flights /\ Callers \subseteq Procs
  BY DEF Inv, Base, Procs
<1>2. TypeOK
  <2>1. ASSUME NEW p \in Procs
        PROVE  /\ proc[p].auth \in Auths \cup {None} /\ proc[p].owner \in Callers \cup {None}
               /\ proc[p].prev \in Entries \cup {Absent} /\ proc[p].own \in Entries
               /\ proc[p].victims \subseteq Auths /\ proc[p].answer \in Instants
               /\ proc[p].closed \in BOOLEAN
    <3>1. proc[p] \in Runs
      BY <1>1 DEF Typed
    <3> QED
      BY <3>1 DEF Runs
  <2> QED
    BY <1>1, <2>1 DEF Typed, TypeOK
<1>3. ASSUME NEW p \in Callers, NEW q \in Callers, Fetching(p), Fetching(q),
             proc[p].auth = proc[q].auth
      PROVE  p = q
  BY <1>1, <1>3 DEF Flights
<1> QED
  BY <1>2, <1>3 DEF OneFetcher

\* cachedAccountDetailsWithCallback: accountDetailFlight lets one caller fetch the
\* details of an account at a time, for any callers, faults and writers.
THEOREM OneFetcherTheorem == Spec => []OneFetcher
<1>1. Inv => OneFetcher
  BY OneFetcherFollows
<1> QED
  BY <1>1, CacheInductive, PTL

\* When no balance read fails, what a detail call returns was read after its flight
\* began, or by a credit query that a joiner found in the cache.  A failed read falls
\* back on the entry that its fetcher saw before the flight (cache.go), which is why
\* the assumption is there.
THEOREM FreshTheorem == ASSUME "credits" \notin Faults PROVE Spec => []ForcedAnswerFresh
<1>1. ASSUME Inv PROVE ForcedAnswerFresh
  <2> SUFFICES ASSUME NEW p \in Callers, proc[p].pc = "done", proc[p].billing = "ok",
                      proc[p].answer # NoCredits
               PROVE  \/ proc[p].answer > proc[p].began
                      \/ /\ proc[p].owner # None
                         /\ \E q \in Queries : /\ proc[q].pc = "done"
                                               /\ proc[q].answer = proc[p].answer
    BY DEF ForcedAnswerFresh
  <2>1. AnswerLater(p)
    BY <1>1 DEF Inv, Fresh
  <2> QED
    BY <2>1 DEF AnswerLater, Served, Queried
<1>2. Inv => ForcedAnswerFresh
  BY <1>1
<1> QED
  BY <1>2, CacheInductive, PTL

-----------------------------------------------------------------------------
(* A confirmed check-in stays: per writer of the cache.                    *)

\* The cache still shows the account as checked in, or nothing.
Shown(a) ==
    cache[a].checkin = "yes" /\ cache[a].checkinAt > 0 /\ cache'[a] # Absent =>
        cache'[a].checkin = "yes"

LEMMA StoreShows ==
    ASSUME Base, Kept, NEW p \in Callers, Store(p), NEW b \in Auths,
           "status" \notin Faults \/ NothingDeleted
    PROVE  Shown(b)
<1>1. PICK q \in Runs, r \in Runs, a \in Auths, e \in Entries : Lands(p, q, r, a, e)
  BY StoreLands DEF Base
<1>2. cache'[a] = e /\ \A x \in Auths \ {a} : cache'[x] = cache[x]
  BY <1>1 DEF Lands, Base, Typed
<1>3. CASE b = a
  <2>1. cache[a].checkin = "yes" /\ cache[a].checkinAt > 0 => e.checkin = "yes"
    BY <1>1, StoreShowsYes
  <2> QED
    BY <1>2, <1>3, <2>1 DEF Shown
<1>4. CASE b # a
  BY <1>2, <1>4 DEF Shown
<1> QED
  BY <1>3, <1>4

LEMMA QueryShows ==
    ASSUME Base, NEW p \in Queries, QueryStore(p), NEW b \in Auths
    PROVE  Shown(b)
<1>0. p \in Procs /\ Typed
  BY DEF Base, Procs
<1>1. PICK q \in Runs : q = proc[p]
  BY <1>0, OneRun
<1>2. /\ q.pc = "merge" /\ q.own \in Entries /\ q.auth \in Auths /\ q.own.checkinAt = 0
  BY <1>0, <1>1, OneRun DEF QueryStore, Fits
<1>3. PICK a \in Auths, e \in Entries : a = q.auth /\ e = merged(a, q.own)
  BY <1>0, <1>2, MergedTyped
<1>4. cache' = [cache EXCEPT ![a] = e]
  BY <1>1, <1>3 DEF QueryStore
<1>5. cache'[a] = e /\ \A x \in Auths \ {a} : cache'[x] = cache[x]
  BY <1>0, <1>4 DEF Typed
<1>6. CASE b = a
  <2>1. SUFFICES ASSUME cache[a].checkin = "yes", cache[a].checkinAt > 0
                 PROVE  e.checkin = "yes"
    BY <1>5, <1>6 DEF Shown
  <2>2. cache[a].checkinAt \in Int
    BY <1>0, EmptyTyped, CacheConstants DEF Typed, Entries, Instants
  <2> QED
    BY <1>0, <1>2, <1>3, <2>1, <2>2, MergedTyped
<1>7. CASE b # a
  BY <1>5, <1>7 DEF Shown
<1> QED
  BY <1>6, <1>7

LEMMA MergeShows ==
    ASSUME Base, Kept, NEW p \in Checkins, mergeCheckinCache(p), NEW b \in Auths
    PROVE  Shown(b)
<1>0. p \in Procs /\ Typed
  BY DEF Base, Procs
<1>1. PICK q \in Runs : q = proc[p]
  BY <1>0, OneRun
<1>2. q.pc = "merge" /\ q.own \in Entries /\ q.auth \in Auths
  BY <1>0, <1>1, OneRun DEF mergeCheckinCache, Fits
<1>3. PICK a \in Auths : a = q.auth
  BY <1>2
<1>4. PICK d \in Entries : d = IF cache[a] = Absent THEN Empty ELSE cache[a]
  BY <1>0, EmptyTyped DEF Typed
<1>5. PICK e : e = [d EXCEPT !.checkin = q.own.checkin, !.checkinAt = Reading]
  OBVIOUS
<1>6. e.checkin = q.own.checkin
  BY <1>5 DEF Entries
<1>7. cache'[a] = e /\ \A x \in Auths \ {a} : cache'[x] = cache[x]
  BY <1>0, <1>1, <1>3, <1>4, <1>5 DEF mergeCheckinCache, Typed
<1>8. q.own.checkin = Status(a)
  BY <1>1, <1>2, <1>3 DEF Kept, Confirmed
<1>9. cache[a].checkin = "yes" => q.own.checkin = "yes"
  BY <1>8 DEF Kept, Known, Status
<1> QED
  BY <1>6, <1>7, <1>9 DEF Shown

\* Entries are dropped or stay as they are.
LEMMA DropShows ==
    ASSUME Base, NEW b \in Auths,
           \/ UNCHANGED cache
           \/ \E p \in Callers : PruneDrop(p)
           \/ \E a \in Auths : DropEntry(a)
           \/ \E p \in Panels : ExpireDrop(p)
    PROVE  Shown(b)
<1>1. cache'[b] \in {cache[b], Absent}
  <2>0. cache \in [Auths -> Entries \cup {Absent}]
    BY DEF Base, Typed
  <2>1. CASE UNCHANGED cache
    BY <2>1
  <2>2. ASSUME NEW a, cache' = [cache EXCEPT ![a] = Absent] PROVE cache'[b] \in {cache[b], Absent}
    BY <2>0, <2>2
  <2> QED
    BY <2>1, <2>2 DEF PruneDrop, DropEntry, ExpireDrop
<1> QED
  BY <1>1 DEF Shown

LEMMA StepShows ==
    ASSUME Base, Kept, Invalidators = {}, "status" \notin Faults \/ NothingDeleted,
           [Next]_vars, NEW b \in Auths
    PROVE  Shown(b)
<1>1. CASE Tick
  BY <1>1, DropShows DEF Tick
<1>2. ASSUME NEW p \in Callers, NEW a \in Auths, NEW force \in BOOLEAN, Begin(p, a, force)
      PROVE  Shown(b)
  BY <1>2, DropShows DEF Begin
<1>3. ASSUME NEW p \in Callers, Step(p) PROVE Shown(b)
  <2>1. CASE Store(p)
    BY <2>1, StoreShows
  <2>2. CASE PruneDrop(p)
    BY <2>2, DropShows
  <2>3. CASE \/ Join(p) \/ StartStatus(p) \/ ReadStatus(p) \/ ReadCredits(p)
             \/ PruneLook(p) \/ Close(p) \/ Release(p) \/ Woken(p)
    <3>1. UNCHANGED cache
      BY <2>3 DEF Join, StartStatus, ReadStatus, ReadCredits, PruneLook, Close, Release, Woken
    <3> QED
      BY <3>1, DropShows
  <2> QED
    BY <1>3, <2>1, <2>2, <2>3 DEF Step
<1>4. ASSUME NEW q \in Queries, NEW a \in Auths, QueryCredits(q, a) PROVE Shown(b)
  BY <1>4, DropShows DEF QueryCredits
<1>5. ASSUME NEW q \in Queries, QueryLoad(q) \/ QueryStore(q) PROVE Shown(b)
  <2>1. CASE QueryLoad(q)
    BY <2>1, DropShows DEF QueryLoad
  <2> QED
    BY <1>5, <2>1, QueryShows
<1>6. ASSUME NEW k \in Checkins, NEW a \in Auths, Claim(k, a) PROVE Shown(b)
  BY <1>6, DropShows DEF Claim
<1>7. ASSUME NEW k \in Checkins, ConfirmStatus(k) \/ mergeCheckinCache(k) PROVE Shown(b)
  <2>1. CASE ConfirmStatus(k)
    BY <2>1, DropShows DEF ConfirmStatus
  <2> QED
    BY <1>7, <2>1, MergeShows
<1>8. ASSUME NEW a \in Auths, DropEntry(a) PROVE Shown(b)
  BY <1>8, DropShows
<1>9. ASSUME NEW p \in Panels, NEW a \in Auths, ExpireLook(p, a) PROVE Shown(b)
  BY <1>9, DropShows DEF ExpireLook
<1>10. ASSUME NEW p \in Panels, ExpireDrop(p) PROVE Shown(b)
  BY <1>10, DropShows
<1>11. CASE UNCHANGED vars
  BY <1>11, DropShows DEF vars
<1> QED
  BY <1>1, <1>2, <1>3, <1>4, <1>5, <1>6, <1>7, <1>8, <1>9, <1>10, <1>11 DEF Next

\* storeAccountSnapshot: a check-in the cache shows as done is never shown as not done
\* again, provided that no invalidation stores its copy over a newer entry and that no
\* failed status read falls back on an entry that has been deleted meanwhile: either
\* status reads do not fail or nothing is deleted.
THEOREM ConfirmedTheorem ==
    ASSUME Invalidators = {}, "status" \notin Faults \/ NothingDeleted
    PROVE  Spec => ConfirmedKept
<1>1. ASSUME Inv, [Next]_vars
      PROVE  [\A a \in Auths :
                 cache[a].checkin = "yes" /\ cache[a].checkinAt > 0 /\ cache'[a] # Absent =>
                     cache'[a].checkin = "yes"]_vars
  <2>1. Base /\ Kept
    BY <1>1 DEF Inv
  <2> QED
    BY <1>1, <2>1, StepShows DEF Shown
<1>2. Inv /\ [Next]_vars =>
        [\A a \in Auths :
            cache[a].checkin = "yes" /\ cache[a].checkinAt > 0 /\ cache'[a] # Absent =>
                cache'[a].checkin = "yes"]_vars
  BY <1>1
<1> QED
  BY <1>2, CacheInductive, PTL DEF Spec, ConfirmedKept
-----------------------------------------------------------------------------
(* PromoWindow: the day on the campaign's wall and in the browser.         *)

\* What parseClockMinute returns is a clock time, 24:00 included.
LEMMA ClockMinutes ==
    ASSUME NEW c \in ClockTexts PROVE parseClockMinute(c[1], c[2]) \in Clocks
  <1>1. c[1] \in 0 .. 24 /\ c[2] \in 0 .. 59 /\ (c[1] = 24 => c[2] = 0)
    BY DEF ClockTexts
  <1> QED
    BY <1>1, SMT DEF parseClockMinute, Clocks, Day

\* Division by the day, once for all the steps below.
LEMMA DayDivision ==
    ASSUME NEW a \in Int
    PROVE \E k \in Int : a = (1440 * k) + (a % 1440) /\ a % 1440 \in 0 .. 1439
  BY SMT

\* How far a minute is into a window is the same in UTC and on the wall.
LEMMA SamePhase ==
    ASSUME NEW s \in Clocks, NEW offset \in Int, NEW minute \in Minutes
    PROVE ((minute - ((s - offset) % 1440)) + 1440) % 1440
            = (((minute + offset) % 1440) - s) % 1440
  <1>1. PICK j \in Int : /\ s - offset = (1440 * j) + ((s - offset) % 1440)
                         /\ (s - offset) % 1440 \in 0 .. 1439
    BY DayDivision DEF Clocks, Day
  <1>2. PICK k \in Int : /\ minute + offset = (1440 * k) + ((minute + offset) % 1440)
                         /\ (minute + offset) % 1440 \in 0 .. 1439
    BY DayDivision DEF Minutes, Day
  <1> QED
    BY <1>1, <1>2, SMTT(60) DEF Clocks, Minutes, Day

\* At every minute of the day the browser shows a window as running exactly when
\* the campaign's own wall clock is inside it: across midnight, with 24:00, and
\* for every offset of the zone (normalizePromoWindow, promotions.go).
THEOREM WindowFollowsWall ==
    ASSUME NEW start \in Clocks, NEW end \in Clocks,
           NEW offset \in Int, NEW minute \in Minutes
    PROVE promoActive(normalizePromoWindow(start, end, offset), minute)
            <=> RunsAt(start, end, LocalMinute(minute, offset))
  <1> DEFINE w == normalizePromoWindow(start, end, offset)
  <1>1. PICK l \in 0 .. 1439 : l = (minute + offset) % 1440
    BY DEF Minutes, Day
  <1>2. PICK d \in 0 .. 1439 : d = (end - start) % 1440
    BY DEF Clocks, Day
  <1>3. PICK p \in 0 .. 1439 : p = (l - start) % 1440
    <2> DEFINE a == l - start
    <2>1. a \in Int
      BY DEF Clocks, Day
    <2> HIDE DEF a
    <2>2. PICK b \in 0 .. 1439 : b = a % 1440
      BY <2>1, SMT
    <2>3. b = (l - start) % 1440
      BY <2>2 DEF a
    <2> QED
      BY <2>2, <2>3
  <1>4. /\ w.startMin = (start - offset) % 1440
        /\ w.durationMin = IF d = 0 THEN 1440 ELSE d
    BY <1>2 DEF normalizePromoWindow, Day
  <1>5. ((minute - w.startMin) + 1440) % 1440 = p
    BY <1>1, <1>3, <1>4, SamePhase
  <1>6. promoActive(w, minute) <=> (d = 0 \/ p < d)
    BY <1>4, <1>5 DEF promoActive, Day
  <1>7. (d = 0 \/ p < d) <=> RunsAt(start, end, l)
    <2>1. (((end - start) % 1440 = 0) \/ ((l - start) % 1440 < (end - start) % 1440))
            <=> RunsAt(start, end, l)
      BY SMTT(60) DEF RunsAt, Day, Clocks
    <2> QED
      BY <1>2, <1>3, <2>1
  <1>8. LocalMinute(minute, offset) = l
    BY <1>1 DEF LocalMinute, Day
  <1> QED
    BY <1>6, <1>7, <1>8

\* Carried on in the browser from whole minutes, the clock is never ahead of the
\* true one and at most one minute behind (panel.html, promoNow): sent is when the
\* server answered, in seconds, and elapsed what has passed since.
THEOREM ClockLagsAMinute ==
    ASSUME NEW sent \in Nat, NEW elapsed \in Nat
    PROVE \E lag \in {0, 1} :
            promoNow((sent \div 60) % Day, elapsed) = (((sent + elapsed) \div 60) - lag) % Day
  <1> DEFINE m == sent \div 60
             p == elapsed \div 60
             t == (sent + elapsed) \div 60
  <1>1. m \in Nat /\ p \in Nat /\ t \in Nat
    BY SMT
  <1>2. m + p = t \/ m + p = t - 1
    BY SMT
  <1>3. ((m % 1440) + p) % 1440 = (m + p) % 1440
    BY <1>1, SMT
  <1>4. PICK lag \in {0, 1} : m + p = t - lag
    BY <1>1, <1>2
  <1> QED
    BY <1>3, <1>4 DEF promoNow, Day

-----------------------------------------------------------------------------
(* RateLimit: what was granted and what is left have grown from one        *)
(* bucket; what is left is at least what has grown since the last grant.   *)

USE DEF mgmtRateLimitCapacity, mgmtRateLimitRefill, mgmtRateLimitTTL, Full

LEMMA RefilledRange ==
    ASSUME RateTypeOK, NEW c \in Clients PROVE Refilled(bucket[c]) \in 0 .. Full
<1>1. /\ bucket[c].tokens \in Int /\ bucket[c].lastSeen \in Int /\ clock \in Int
      /\ bucket[c] # NoBucket => bucket[c].tokens >= 0 /\ bucket[c].lastSeen <= clock
  BY DEF RateTypeOK
<1> QED
  BY <1>1 DEF Refilled, Capped

\* What the invariant says of one client.
Counted(c) ==
    /\ granted[c] * mgmtRateLimitRefill + Refilled(bucket[c]) <= Full + (clock - from)
    /\ bucket[c] # NoBucket =>
         last[c] >= 0 /\ Refilled(bucket[c]) >= Capped(clock - last[c])

RateInv == RateTypeOK /\ \A c \in Clients : Counted(c)

LEMMA RateStarts == RateInit => RateInv
<1> SUFFICES ASSUME RateInit PROVE RateInv
  OBVIOUS
<1>1. NoBucket \in [tokens : -1 .. Full, lastSeen : Nat]
  BY DEF NoBucket
<1> QED
  BY <1>1 DEF RateInit, RateInv, Counted, RateTypeOK, Refilled

LEMMA GrantKeeps == ASSUME RateInv, NEW c \in Clients, Grant(c) PROVE RateInv'
<1> DEFINE left == Refilled(bucket[c])
           mine == [tokens |-> left - 6, lastSeen |-> clock]
<1>1. RateTypeOK /\ left \in 6 .. Full
  BY RefilledRange DEF RateInv, Grant
<1>2. clock' = clock /\ from' = from
  BY DEF Grant
<1>3. mine \in [tokens : -1 .. Full, lastSeen : Nat] /\ mine # NoBucket
  BY <1>1 DEF RateTypeOK, NoBucket
<1>4. /\ \A d \in Clients : bucket'[d] \in {mine, bucket[d], NoBucket}
      /\ bucket'[c] = mine
      /\ \A d \in Clients \ {c} :
           \/ bucket'[d] = bucket[d]
           \/ bucket'[d] = NoBucket /\ Stale(d)
  <2> DEFINE full == Cardinality({d \in Clients : bucket[d] # NoBucket} \cup {c}) > Many
  <2>1. bucket' = [d \in Clients |-> IF d = c THEN mine
                                    ELSE IF full /\ Stale(d) THEN NoBucket ELSE bucket[d]]
    BY DEF Grant
  <2> HIDE DEF full, mine
  <2> QED
    BY <2>1
<1>5. bucket' \in [Clients -> [tokens : -1 .. Full, lastSeen : Nat]]
  <2>1. NoBucket \in [tokens : -1 .. Full, lastSeen : Nat]
    BY DEF NoBucket
  <2>2. \A d \in Clients : bucket'[d] \in [tokens : -1 .. Full, lastSeen : Nat]
    BY <1>1, <1>3, <1>4, <2>1 DEF RateTypeOK
  <2>3. bucket' = [d \in Clients |-> bucket'[d]]
    BY DEF Grant
  <2> QED
    BY <2>2, <2>3
<1>6. /\ granted' \in [Clients -> Nat] /\ last' \in [Clients -> Int]
      /\ granted'[c] = granted[c] + 1 /\ last'[c] = clock
      /\ \A d \in Clients \ {c} : granted'[d] = granted[d] /\ last'[d] = last[d]
  BY <1>1 DEF Grant, RateTypeOK
<1>7. RateTypeOK'
  BY <1>1, <1>2, <1>3, <1>4, <1>5, <1>6, SMTT(30) DEF RateTypeOK
<1>8. Refilled(bucket[c])' = left - 6
  BY <1>1, <1>2, <1>3, <1>4 DEF Refilled, Capped, RateTypeOK
<1>9. \A d \in Clients \ {c} : Refilled(bucket[d])' = Refilled(bucket[d])
  BY <1>1, <1>2, <1>4 DEF Refilled, Capped, RateTypeOK, Stale
<1>10. ASSUME NEW d \in Clients PROVE Counted(d)'
  <2>1. CASE d = c
    <3>1. Capped(clock' - last'[c]) = 0
      BY <1>1, <1>2, <1>6 DEF Capped, RateTypeOK
    <3> QED
      BY <1>1, <1>2, <1>6, <1>8, <2>1, <3>1 DEF RateInv, Counted, RateTypeOK, Capped
  <2>2. CASE d # c
    <3>1. bucket'[d] # NoBucket => bucket[d] # NoBucket
      BY <1>4, <2>2
    <3> QED
      BY <1>2, <1>6, <1>9, <2>2, <3>1 DEF RateInv, Counted, Capped
  <2> QED
    BY <2>1, <2>2
<1> QED
  BY <1>7, <1>10 DEF RateInv

LEMMA RefuseKeeps == ASSUME RateInv, NEW c \in Clients, Refuse(c) PROVE RateInv'
<1> DEFINE mine == [tokens |-> Refilled(bucket[c]), lastSeen |-> clock]
<1>1. RateTypeOK /\ Refilled(bucket[c]) \in 0 .. Full
  BY RefilledRange DEF RateInv
<1>2. clock' = clock /\ from' = from /\ granted' = granted /\ last' = last
  BY DEF Refuse
<1>3. mine \in [tokens : -1 .. Full, lastSeen : Nat] /\ mine # NoBucket
  BY <1>1 DEF RateTypeOK, NoBucket
<1>4. bucket' = [bucket EXCEPT ![c] = mine] /\ bucket[c] # NoBucket
  BY DEF Refuse, Refilled
<1>5. bucket'[c] = mine /\ \A d \in Clients \ {c} : bucket'[d] = bucket[d]
  BY <1>1, <1>4 DEF RateTypeOK
<1>6. RateTypeOK'
  BY <1>1, <1>2, <1>3, <1>4, <1>5 DEF RateTypeOK
<1>7. \A d \in Clients : Refilled(bucket[d])' = Refilled(bucket[d])
  BY <1>1, <1>2, <1>3, <1>5 DEF Refilled, Capped, RateTypeOK
<1>8. \A d \in Clients : bucket'[d] # NoBucket => bucket[d] # NoBucket
  BY <1>4, <1>5
<1> QED
  BY <1>2, <1>6, <1>7, <1>8 DEF RateInv, Counted, Capped

LEMMA SecondKeeps == ASSUME RateInv, Second PROVE RateInv'
<1>1. RateTypeOK /\ RateTypeOK'
  BY DEF RateInv, Second, RateTypeOK
<1>2. ASSUME NEW c \in Clients PROVE Counted(c)'
  <2> DEFINE r == Refilled(bucket[c])
             t == bucket[c].tokens
             s == bucket[c].lastSeen
  <2>1. /\ granted[c] \in Nat /\ last[c] \in Int /\ clock \in Nat /\ from \in Nat
        /\ t \in Int /\ s \in Int /\ last[c] <= clock
        /\ bucket[c] # NoBucket => t >= 0 /\ s <= clock
    BY <1>1 DEF RateTypeOK
  <2>2. /\ clock' = clock + 1 /\ from' = from /\ bucket'[c] = bucket[c]
        /\ granted'[c] = granted[c] /\ last'[c] = last[c]
    BY DEF Second
  <2>3. r \in 0 .. Full
    BY <1>1, RefilledRange
  <2>4. Counted(c)
    BY DEF RateInv
  <2>5. CASE bucket[c] = NoBucket
    BY <2>1, <2>2, <2>4, <2>5 DEF Counted, Refilled
  <2>6. CASE bucket[c] # NoBucket
    <3>1. r = Capped(t + (clock - s)) /\ Refilled(bucket[c])' = Capped(t + ((clock + 1) - s))
      BY <2>2, <2>6 DEF Refilled
    <3>2. Refilled(bucket[c])' = Capped(r + 1)
      BY <2>1, <3>1 DEF Capped
    <3> HIDE DEF r
    <3>3. /\ granted[c] * 6 + r <= Full + (clock - from)
          /\ last[c] >= 0 /\ r >= Capped(clock - last[c])
      BY <2>4, <2>6 DEF Counted, r
    <3>4. granted'[c] * 6 + Capped(r + 1) <= Full + (clock' - from')
      BY <2>1, <2>2, <2>3, <3>3 DEF Capped
    <3>5. Capped(r + 1) >= Capped(clock' - last'[c])
      BY <2>1, <2>2, <2>3, <3>3 DEF Capped
    <3> QED
      BY <2>2, <3>2, <3>3, <3>4, <3>5 DEF Counted, Capped
  <2> QED
    BY <2>5, <2>6
<1> QED
  BY <1>1, <1>2 DEF RateInv

LEMMA ObserveKeeps == ASSUME RateInv, Observe PROVE RateInv'
<1>1. RateTypeOK /\ RateTypeOK'
  BY DEF RateInv, Observe, RateTypeOK
<1>2. ASSUME NEW c \in Clients PROVE Counted(c)'
  <2>1. /\ clock' = clock /\ from' = clock /\ bucket' = bucket /\ last' = last
        /\ granted'[c] = 0 /\ clock \in Nat
    BY <1>1 DEF Observe, RateTypeOK
  <2>2. Refilled(bucket[c])' = Refilled(bucket[c]) /\ Refilled(bucket[c]) \in 0 .. Full
    BY <1>1, <2>1, RefilledRange DEF Refilled
  <2>3. Counted(c)
    BY DEF RateInv
  <2> QED
    BY <2>1, <2>2, <2>3 DEF Counted, Capped
<1> QED
  BY <1>1, <1>2 DEF RateInv

LEMMA RateInductive == RateSpec => []RateInv
<1>1. RateInv /\ [RateNext]_rateVars => RateInv'
  <2> SUFFICES ASSUME RateInv, [RateNext]_rateVars PROVE RateInv'
    OBVIOUS
  <2>1. CASE UNCHANGED rateVars
    BY <2>1 DEF rateVars, RateInv, Counted, RateTypeOK, Refilled, Capped
  <2> QED
    BY <2>1, GrantKeeps, RefuseKeeps, SecondKeeps, ObserveKeeps DEF RateNext
<1> QED
  BY <1>1, RateStarts, PTL DEF RateSpec

\* For any number of clients, in any span of time: no more than a burst of the
\* capacity and one request per refill interval (allowManagementRequest).
THEOREM RateTheorem == RateSpec => []RateHolds
<1>1. ASSUME RateInv, NEW c \in Clients
      PROVE  granted[c] * mgmtRateLimitRefill <= Full + (clock - from)
  <2>1. granted[c] \in Nat /\ clock \in Nat /\ from \in Nat /\ Refilled(bucket[c]) \in 0 .. Full
    BY <1>1, RefilledRange DEF RateInv, RateTypeOK
  <2> QED
    BY <1>1, <2>1 DEF RateInv, Counted
<1>2. RateInv => RateHolds
  BY <1>1 DEF RateHolds
<1> QED
  BY <1>2, RateInductive, PTL

\* Whoever waits a refill interval after a granted request is granted the next.
THEOREM RefusedTheorem == RateSpec => []RefusedEarly
<1>1. ASSUME RateInv, NEW c \in Clients, Refilled(bucket[c]) < mgmtRateLimitRefill
      PROVE  last[c] >= 0 /\ clock - last[c] < mgmtRateLimitRefill
  <2>1. last[c] \in Int /\ clock \in Nat /\ Refilled(bucket[c]) \in 0 .. Full
    BY <1>1, RefilledRange DEF RateInv, RateTypeOK
  <2>2. bucket[c] # NoBucket
    BY <1>1 DEF Refilled
  <2> QED
    BY <1>1, <2>1, <2>2 DEF RateInv, Counted, Capped
<1>2. RateInv => RefusedEarly
  BY <1>1 DEF RefusedEarly
<1> QED
  BY <1>2, RateInductive, PTL
=============================================================================
