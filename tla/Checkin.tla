------------------------------- MODULE Checkin -------------------------------
(***************************************************************************)
(* The daily check-in: manual runs, scheduled runs and background retries  *)
(* of one process share the store of run records (checkinRuns) and, per    *)
(* account, one mutex (checkinLocks).                                      *)
(*                                                                         *)
(* A run reads the check-in status, claims at most once, reads the status  *)
(* again and records what it knows.  A claim whose outcome it does not     *)
(* know makes the rest of that day confirm-only.  Time is counted in       *)
(* instants, DayLen of them to a calendar day, and passes between any two  *)
(* steps, midnight included.                                               *)
(*                                                                         *)
(* Left out: texts, the diagnostic history (a bounded log of the records), *)
(* the limit of four concurrent goroutines, and the panel cache, which     *)
(* AccountCache models with the merge a check-in does there.               *)
(***************************************************************************)
EXTENDS Integers, FiniteSets, Sequences

CONSTANTS
    Accounts,       \* auth indices; each also names its background run
    Globals,        \* the accounts of the global realm, which has no check-in
    Manuals,        \* check-in requests of the panel
    Cap,            \* checkinLatestLimit
    DayLen,         \* instants in a day
    RetryDelays,    \* checkinRetryDelays
    CheckinHours,   \* instants of the day with a scheduled check-in
    OtherHours,     \* instants of the day with another scheduled action
    Start,          \* the instant the process starts
    MaxNow,         \* bound on the clock
    MaxMutex,       \* bound on the mutexes one account goes through
    MaxActs         \* bound on the panel's requests and the operator's and host's changes

ASSUME CheckinConstants ==
    /\ Globals \subseteq Accounts /\ Accounts # {} /\ Accounts \cap Manuals = {}
    /\ Cap \in Nat \ {0} /\ DayLen \in Nat \ {0}
    /\ RetryDelays \in Seq(Nat \ {0})
    /\ CheckinHours \cup OtherHours \subseteq 0..(DayLen - 1)
    /\ CheckinHours # {}
    /\ MaxNow \in Nat /\ Start \in 0..MaxNow /\ MaxMutex \in Nat /\ MaxActs \in Nat

VARIABLES
    now,        \* the clock
    listed,     \* accounts the host lists
    paused,     \* accounts whose document is disabled
    auto,       \* checkinAuto
    acts,       \* requests and changes made so far
    upstream,   \* per account: is today's check-in "none", "granted" or "shown"
    late,       \* accounts with a claim still on its way to the upstream
    claimed,    \* accounts with a claim sent today that nothing refused
    tried,      \* per account: retries begun today
    latest,     \* checkinRunStore.latest
    inFlight,   \* checkinRunStore.inFlight
    mutex,      \* per account: the entry of checkinLocks, numbered
    held,       \* the mutexes held, as <<account, number>>
    run,        \* the runs
    loop        \* checkinLoop

world == <<listed, paused, auto, acts, late, mutex>>
vars == <<now, listed, paused, auto, acts, upstream, late, claimed, tried, latest,
          inFlight, mutex, held, run, loop>>

Runs == Accounts \cup Manuals
Sources == {"manual", "scheduled", "retry"}
Absent == [absent |-> TRUE]

Today == now \div DayLen
DayOf(t) == t \div DayLen

-----------------------------------------------------------------------------
(***************************************************************************)
(* The schedule.                                                           *)
(***************************************************************************)
scheduledInCurrentHour(t, hours) == t % DayLen \in hours

\* The first scheduled hour after t.
nextCheckinTime(t) ==
    CHOOSE u \in (t + 1)..(t + DayLen) :
        /\ u % DayLen \in CheckinHours \cup OtherHours
        /\ \A w \in (t + 1)..(u - 1) : w % DayLen \notin CheckinHours \cup OtherHours

-----------------------------------------------------------------------------
(***************************************************************************)
(* Results of calls and runs.  What a failed call says: may it be repeated,*)
(* may it have reached the upstream, does it say "already checked in".     *)
(***************************************************************************)
CallErrors ==
    {[retryable |-> FALSE, uncertain |-> FALSE, already |-> FALSE],  \* auth, 404, business
     [retryable |-> TRUE,  uncertain |-> FALSE, already |-> FALSE],  \* 429
     [retryable |-> TRUE,  uncertain |-> TRUE,  already |-> FALSE],  \* timeout, 5xx
     [retryable |-> FALSE, uncertain |-> TRUE,  already |-> FALSE],  \* TLS, cancelled, protocol
     [retryable |-> FALSE, uncertain |-> FALSE, already |-> TRUE]}
NoError == [retryable |-> FALSE, uncertain |-> FALSE, already |-> FALSE, success |-> TRUE]
Refusal == [retryable |-> FALSE, uncertain |-> FALSE, already |-> FALSE, success |-> FALSE]

Answers == CallErrors \cup {NoError, Refusal}
Definite(e) == e \in CallErrors /\ ~e.retryable /\ ~e.already /\ ~e.uncertain

\* checkinAttemptResult
Result(confirmed, retryable, only) ==
    [confirmed |-> confirmed, retryable |-> retryable, only |-> only]
Results == [confirmed: BOOLEAN, retryable: BOOLEAN, only: BOOLEAN]
Failed == Result(FALSE, FALSE, FALSE)

\* What a status read may answer: a failure, or a summary.
StatusAnswers(a) == CallErrors \cup [checked: {upstream[a] = "shown"}, active: BOOLEAN]

\* The result of a run whose claim was answered with e and whose second status
\* read with s.
verified(e, s) ==
    IF s \notin CallErrors /\ s.checked THEN Result(TRUE, FALSE, FALSE)
    ELSE IF s \in CallErrors /\ ~s.retryable THEN Result(FALSE, FALSE, TRUE)
    ELSE IF e \in CallErrors /\ e.retryable THEN Result(FALSE, TRUE, e.uncertain)
    ELSE IF e = Refusal THEN Failed
    ELSE Result(FALSE, TRUE, TRUE)

-----------------------------------------------------------------------------
(***************************************************************************)
(* The store of run records.                                               *)
(***************************************************************************)
Records == [day: Nat, at: Nat, count: 0..Len(RetryDelays), next: Nat, only: BOOLEAN,
            confirmed: BOOLEAN, allowed: BOOLEAN, manual: BOOLEAN]
Known(tab) == {a \in Accounts : tab[a] # Absent}

Running(t) == [day |-> DayOf(t), at |-> t, count |-> 0, next |-> 0, only |-> FALSE,
               confirmed |-> FALSE, allowed |-> FALSE, manual |-> FALSE]

\* Seeded fault: only the record's content protects it.
ProtectedByContent(a, t) ==
    /\ latest[a].day = DayOf(t)
    /\ (latest[a].only /\ ~latest[a].confirmed) \/ latest[a].allowed \/ latest[a].count > 0

\* Records that may not make room for others at t.
Protected(a, t) ==
    \/ a \in inFlight
    \/ /\ latest[a].day = DayOf(t)
       /\ \/ latest[a].only /\ ~latest[a].confirmed
          \/ latest[a].allowed
          \/ latest[a].count > 0

\* The tables with room for one more record: the oldest record is dropped when
\* the table is full, and there is none when every record is protected.
makeRoom(t) ==
    IF Cardinality(Known(latest)) < Cap THEN {latest}
    ELSE LET free == {a \in Known(latest) : ~Protected(a, t)}
         IN  {[latest EXCEPT ![o] = Absent] :
                 o \in {a \in free : \A b \in free : latest[a].at <= latest[b].at}}

\* Seeded fault: a reservation does not look for another run of the account.
reserveTwice(a) ==
    IF latest[a] # Absent THEN {latest}
    ELSE {[tab EXCEPT ![a] = Running(now)] : tab \in makeRoom(now)}

\* The tables after a reservation of a; none when it is refused.
reserve(a) ==
    IF a \in inFlight THEN {}
    ELSE IF latest[a] # Absent THEN {latest}
    ELSE {[tab EXCEPT ![a] = Running(now)] : tab \in makeRoom(now)}

\* A record written now; a retry is planned while the budget and the day last.
recordOf(count, manual, only, res) ==
    LET again == /\ res.retryable /\ count < Len(RetryDelays)
                 /\ DayOf(now + RetryDelays[count + 1]) = Today
    IN  [day |-> Today, at |-> now, count |-> count,
         next |-> IF again THEN now + RetryDelays[count + 1] ELSE 0, only |-> only,
         confirmed |-> res.confirmed, allowed |-> again, manual |-> manual]

SameDay(prev) == prev # Absent /\ prev.day = Today

\* Retries of the day so far, the manual start of a series of retries, and the
\* memory of a claim nobody has confirmed.
countAfter(prev, src) ==
    IF ~SameDay(prev) THEN 0 ELSE IF src = "retry" THEN prev.count + 1 ELSE prev.count
manualAfter(prev, src) ==
    IF SameDay(prev) /\ src = "retry" THEN prev.manual ELSE src = "manual"
onlyAfter(prev, res) ==
    res.only \/ (SameDay(prev) /\ prev.only /\ ~res.confirmed)

\* Seeded faults: a run that is no retry starts the count again; a failure that
\* knows nothing erases the memory of the claim.
recordFreshBudget(prev, src, res) ==
    recordOf(IF src = "retry" THEN countAfter(prev, src) ELSE 0,
             manualAfter(prev, src), onlyAfter(prev, res), res)
recordForgetsClaim(prev, src, res) ==
    recordOf(countAfter(prev, src), manualAfter(prev, src), res.only, res)

\* The record a run from src leaves over the previous one.
record(prev, src, res) ==
    recordOf(countAfter(prev, src), manualAfter(prev, src), onlyAfter(prev, res), res)

\* The tables after record r of a is stored; a full store takes no new account.
stored(a, r) ==
    IF latest[a] # Absent THEN {[latest EXCEPT ![a] = r]}
    ELSE IF makeRoom(now) = {} THEN {latest}
    ELSE {[tab EXCEPT ![a] = r] : tab \in makeRoom(now)}

needsConfirmation(a) ==
    /\ latest[a] # Absent /\ latest[a].day = Today
    /\ latest[a].only /\ ~latest[a].confirmed

\* Is a retry of a due, as seen by the run that wants to do it?
retryMode(a) ==
    /\ latest[a] # Absent /\ latest[a].allowed
    /\ latest[a].day = Today /\ latest[a].next <= now

Dropped(r) == [r EXCEPT !.next = 0, !.allowed = FALSE]
\* Seeded fault: a retry of an earlier day stays planned.
StaleByToggle(a) == ~auto /\ ~latest[a].manual

\* A retry that is not to happen: of an earlier day, or of a series the schedule
\* began while check-in is switched off.
Stale(a) == latest[a].day # Today \/ (~auto /\ ~latest[a].manual)

\* The accounts whose retry is due, and the table without retries that are not
\* to happen any more.
due == {a \in Known(latest) :
           ~Stale(a) /\ latest[a].allowed /\ latest[a].next <= now}
withoutStale ==
    [a \in Accounts |-> IF a \in Known(latest) /\ Stale(a) THEN Dropped(latest[a])
                                                           ELSE latest[a]]

-----------------------------------------------------------------------------
(***************************************************************************)
(* The runs (checkinOneAccountFrom).  pc: "start", "wait" for the mutex,   *)
(* reserved ("mode"), "bundle", "status", "claim", "verify", "record".     *)
(***************************************************************************)
Pcs == {"idle", "start", "wait", "mode", "bundle", "status", "claim", "verify", "record"}
Idle == [pc |-> "idle", acc |-> CHOOSE a \in Accounts : TRUE, src |-> "manual", mu |-> 0,
         fdis |-> FALSE, only |-> FALSE, answer |-> NoError, res |-> Failed]
Started(a, src) == [Idle EXCEPT !.pc = "start", !.acc = a, !.src = src,
                                !.fdis = a \in paused]
RunRecords == [pc: Pcs, acc: Accounts, src: Sources, mu: 0..MaxMutex, fdis: BOOLEAN,
               only: BOOLEAN, answer: Answers, res: Results]
Active(x) == run[x].pc # "idle"

Goes(x, pc) == run' = [run EXCEPT ![x].pc = pc]
Ends(x, res) == run' = [run EXCEPT ![x].pc = "record", ![x].res = res]

\* The run returns and unlocks.
Leaves(x) ==
    /\ run' = [run EXCEPT ![x] = Idle]
    /\ held' = held \ {<<run[x].acc, run[x].mu>>}

\* A request of the panel starts a run of an account the host lists.
Manual(m) ==
    /\ m \in Manuals /\ ~Active(m)
    /\ acts < MaxActs /\ acts' = acts + 1
    /\ \E a \in listed : run' = [run EXCEPT ![m] = Started(a, "manual")]
    /\ UNCHANGED <<now, listed, paused, auto, upstream, late, claimed, tried, latest,
                   inFlight, mutex, held, loop>>

\* checkinLockFor
Lookup(x) ==
    /\ run[x].pc = "start"
    /\ run' = [run EXCEPT ![x].pc = "wait", ![x].mu = mutex[run[x].acc]]
    /\ UNCHANGED <<now, world, upstream, claimed, tried, latest, inFlight, held, loop>>

\* The run takes the mutex and reserves the account; refused, it returns.
Enter(x) ==
    LET a == run[x].acc IN
    /\ run[x].pc = "wait" /\ <<a, run[x].mu>> \notin held
    /\ \/ /\ reserve(a) # {}
          /\ latest' \in reserve(a)
          /\ inFlight' = inFlight \cup {a}
          /\ held' = held \cup {<<a, run[x].mu>>}
          /\ Goes(x, "mode")
       \/ /\ reserve(a) = {}
          /\ run' = [run EXCEPT ![x] = Idle]
          /\ UNCHANGED <<latest, inFlight, held>>
    /\ UNCHANGED <<now, world, upstream, claimed, tried, loop>>

\* Is the run to verify an earlier claim only?  A retry that is not due any more
\* returns.
Mode(x) ==
    LET a == run[x].acc IN
    /\ run[x].pc = "mode"
    /\ \/ /\ run[x].src # "retry"
          /\ run' = [run EXCEPT ![x].pc = "bundle", ![x].only = needsConfirmation(a)]
          /\ UNCHANGED <<tried, inFlight, held>>
       \/ /\ run[x].src = "retry" /\ retryMode(a)
          /\ run' = [run EXCEPT ![x].pc = "bundle", ![x].only = latest[a].only]
          /\ tried' = [tried EXCEPT ![a] = @ + 1]
          /\ UNCHANGED <<inFlight, held>>
       \/ /\ run[x].src = "retry" /\ ~retryMode(a)
          /\ Leaves(x)
          /\ inFlight' = inFlight \ {a}
          /\ UNCHANGED tried
    /\ UNCHANGED <<now, world, upstream, claimed, latest, loop>>

\* hostAuthGetBundle, which may fail; the realm and the pause end the run early.
Bundle(x) ==
    LET a == run[x].acc IN
    /\ run[x].pc = "bundle"
    /\ \/ Ends(x, Failed)
       \/ /\ a \in listed
          /\ a \in Globals \/ (run[x].src # "manual" /\ (run[x].fdis \/ a \in paused))
          /\ Ends(x, Failed)
       \/ /\ a \in listed \ Globals
          /\ run[x].src # "manual" => ~run[x].fdis /\ a \notin paused
          /\ Goes(x, "status")
    /\ UNCHANGED <<now, world, upstream, claimed, tried, latest, inFlight, held, loop>>

\* The first status read of confirmedCheckinAttempt.
Status(x) ==
    /\ run[x].pc = "status"
    /\ \E s \in StatusAnswers(run[x].acc) :
          \/ s \in CallErrors /\ Ends(x, Result(FALSE, s.retryable, run[x].only))
          \/ /\ s \notin CallErrors
             /\ \/ s.checked /\ Ends(x, Result(TRUE, FALSE, FALSE))
                \/ ~s.checked /\ run[x].only /\ Ends(x, Result(FALSE, TRUE, TRUE))
                \/ ~s.checked /\ ~run[x].only /\ ~s.active /\ Ends(x, Failed)
                \/ ~s.checked /\ ~run[x].only /\ s.active /\ Goes(x, "claim")
    /\ UNCHANGED <<now, world, upstream, claimed, tried, latest, inFlight, held, loop>>

\* One POST (performCheckinCallWithCallback).  What is acknowledged or uncertain
\* may have been granted, may be granted later, or never.
Claim(x) ==
    LET a == run[x].acc IN
    /\ run[x].pc = "claim"
    /\ \E e \in Answers :
        /\ e \in CallErrors /\ e.already => upstream[a] # "none"
        /\ IF Definite(e)
           THEN Ends(x, Failed)
           ELSE run' = [run EXCEPT ![x].pc = "verify", ![x].answer = e]
        /\ IF e = NoError \/ e.uncertain
           THEN \/ UNCHANGED <<upstream, late>>
                \/ upstream[a] = "none" /\ upstream' = [upstream EXCEPT ![a] = "granted"]
                   /\ UNCHANGED late
                \/ late' = late \cup {a} /\ UNCHANGED upstream
           ELSE UNCHANGED <<upstream, late>>
        /\ claimed' = IF e = NoError \/ e.uncertain \/ e.already THEN claimed \cup {a}
                                                               ELSE claimed
    /\ UNCHANGED <<now, listed, paused, auto, acts, mutex, tried, latest, inFlight, held,
                   loop>>

\* The second status read.
Verify(x) ==
    /\ run[x].pc = "verify"
    /\ \E s \in StatusAnswers(run[x].acc) : Ends(x, verified(run[x].answer, s))
    /\ UNCHANGED <<now, world, upstream, claimed, tried, latest, inFlight, held, loop>>

\* rememberResult, then the deferred release and unlock.
Record(x) ==
    LET a == run[x].acc
        r == record(latest[a], run[x].src, run[x].res)
    IN
    /\ run[x].pc = "record"
    /\ latest' \in stored(a, r)
    /\ inFlight' = inFlight \ {a}
    /\ Leaves(x)
    /\ UNCHANGED <<now, world, upstream, claimed, tried, loop>>

Run(x) == Lookup(x) \/ Enter(x) \/ Mode(x) \/ Bundle(x) \/ Status(x) \/ Claim(x)
          \/ Verify(x) \/ Record(x)

-----------------------------------------------------------------------------
(***************************************************************************)
(* The timer (checkinLoop): at the scheduled hours a run for every account *)
(* listed, and after every wake the retries that are due.                  *)
(***************************************************************************)
Loops == [pc: {"sleep", "scheduled", "list", "retries"}, next: Nat, due: SUBSET Accounts]
Quiet == \A a \in Accounts : ~Active(a)
Starts(as, src) ==
    run' = [x \in Runs |-> IF x \in as THEN Started(x, src) ELSE run[x]]

\* runDueCheckinRetries up to the host's list.
SweepDue(nxt) ==
    /\ latest' = withoutStale
    /\ loop' = [pc |-> IF due = {} THEN "sleep" ELSE "list", next |-> nxt, due |-> due]

\* A wake before the next scheduled hour.
WakeEarly ==
    /\ loop.pc = "sleep" /\ now < loop.next
    /\ SweepDue(loop.next)
    /\ UNCHANGED <<now, world, upstream, claimed, tried, inFlight, held, run>>

\* A wake for a scheduled hour (runAutoCheckin); a late wake finds the hour over.
WakeScheduled ==
    /\ loop.pc = "sleep" /\ now >= loop.next
    /\ \/ /\ auto /\ scheduledInCurrentHour(now, CheckinHours)
          /\ Starts(listed, "scheduled")
       \/ UNCHANGED run         \* another action, check-in off, or no list
    /\ loop' = [loop EXCEPT !.pc = "scheduled"]
    /\ UNCHANGED <<now, world, upstream, claimed, tried, latest, inFlight, held>>

\* All scheduled runs have returned.
ScheduledDone ==
    /\ loop.pc = "scheduled" /\ Quiet
    /\ SweepDue(nextCheckinTime(now))
    /\ UNCHANGED <<now, world, upstream, claimed, tried, inFlight, held, run>>

\* The host's list: retries of listed accounts start, others are cancelled.
StartRetries ==
    /\ loop.pc = "list"
    /\ Starts(loop.due \cap listed, "retry")
    /\ latest' = [a \in Accounts |->
                     IF a \in loop.due \ listed /\ latest[a] # Absent
                     THEN Dropped(latest[a]) ELSE latest[a]]
    /\ loop' = [loop EXCEPT !.pc = "retries", !.due = {}]
    /\ UNCHANGED <<now, world, upstream, claimed, tried, inFlight, held>>

ListFails ==
    /\ loop.pc = "list"
    /\ loop' = [loop EXCEPT !.pc = "sleep", !.due = {}]
    /\ UNCHANGED <<now, world, upstream, claimed, tried, latest, inFlight, held, run>>

RetriesDone ==
    /\ loop.pc = "retries" /\ Quiet
    /\ loop' = [loop EXCEPT !.pc = "sleep"]
    /\ UNCHANGED <<now, world, upstream, claimed, tried, latest, inFlight, held, run>>

Loop == WakeEarly \/ WakeScheduled \/ ScheduledDone \/ StartRetries \/ ListFails \/ RetriesDone

-----------------------------------------------------------------------------
(***************************************************************************)
(* The clock, the upstream, the operator and the host.                     *)
(***************************************************************************)
\* Time passes; at midnight nobody is checked in for the new day.
Tick ==
    /\ now < MaxNow /\ now' = now + 1
    /\ IF DayOf(now + 1) = Today
       THEN UNCHANGED <<upstream, claimed, tried>>
       ELSE /\ upstream' = [a \in Accounts |-> "none"]
            /\ claimed' = {}
            /\ tried' = [a \in Accounts |-> 0]
    /\ UNCHANGED <<world, latest, inFlight, held, run, loop>>

\* A delayed claim arrives; it counts for the day it arrives on.
Arrive(a) ==
    /\ a \in late /\ late' = late \ {a}
    /\ upstream' = [upstream EXCEPT ![a] = IF @ = "none" THEN "granted" ELSE @]
    /\ UNCHANGED <<now, listed, paused, auto, acts, claimed, tried, latest, inFlight, mutex,
                   held, run, loop>>

\* The status endpoint catches up with a grant.
Show(a) ==
    /\ upstream[a] = "granted"
    /\ upstream' = [upstream EXCEPT ![a] = "shown"]
    /\ UNCHANGED <<now, world, claimed, tried, latest, inFlight, held, run, loop>>

\* The operator switches check-in on or off, pauses or resumes an account; the
\* host removes one.
Edit ==
    /\ acts < MaxActs /\ acts' = acts + 1
    /\ \/ auto' = ~auto /\ UNCHANGED <<listed, paused>>
       \/ \E a \in listed \ Globals :
             \/ /\ paused' = IF a \in paused THEN paused \ {a} ELSE paused \cup {a}
                /\ UNCHANGED <<auto, listed>>
             \/ listed' = listed \ {a} /\ UNCHANGED <<auto, paused>>
    /\ UNCHANGED <<now, upstream, late, claimed, tried, latest, inFlight, mutex, held, run,
                   loop>>

\* A login brings a removed account back under its index.
Login(a) ==
    /\ a \notin listed /\ listed' = listed \cup {a}
    /\ UNCHANGED <<now, paused, auto, acts, late, mutex, upstream, claimed, tried, latest,
                   inFlight, held, run, loop>>

\* pruneCheckinLocks: the next run of the account meets a new mutex.
pruneCheckinLocks(a) ==
    /\ a \notin listed /\ mutex[a] < MaxMutex
    /\ mutex' = [mutex EXCEPT ![a] = @ + 1]
    /\ UNCHANGED <<now, listed, paused, auto, acts, upstream, late, claimed, tried, latest,
                   inFlight, held, run, loop>>

-----------------------------------------------------------------------------
Init ==
    /\ now = Start /\ acts = 0
    /\ listed = Accounts /\ paused = {} /\ auto = TRUE
    /\ upstream = [a \in Accounts |-> "none"]
    /\ late = {} /\ claimed = {}
    /\ tried = [a \in Accounts |-> 0]
    /\ latest = [a \in Accounts |-> Absent]
    /\ inFlight = {} /\ held = {}
    /\ mutex = [a \in Accounts |-> 0]
    /\ run = [x \in Runs |-> Idle]
    /\ loop = [pc |-> "sleep", next |-> nextCheckinTime(Start), due |-> {}]

Next ==
    \/ \E x \in Runs : Run(x)
    \/ \E m \in Manuals : Manual(m)
    \/ Loop
    \/ Tick \/ Edit
    \/ \E a \in Accounts : Arrive(a) \/ Show(a) \/ Login(a) \/ pruneCheckinLocks(a)

Spec == Init /\ [][Next]_vars

\* Every call of a run is answered (checkinBillingCall has a deadline of eight
\* seconds), the timer fires, and the host's list works now and then.
Fairness ==
    /\ \A x \in Runs : WF_vars(Run(x))
    /\ WF_vars(Loop) /\ SF_vars(StartRetries) /\ WF_vars(Tick)

FairSpec == Spec /\ Fairness

-----------------------------------------------------------------------------
(***************************************************************************)
(* Properties.                                                             *)
(***************************************************************************)
\* The values of the store, the runs and the timer (checkinRunStore).
TypeOK ==
    /\ now \in Start..MaxNow /\ acts \in 0..MaxActs
    /\ listed \subseteq Accounts /\ paused \subseteq Accounts /\ auto \in BOOLEAN
    /\ upstream \in [Accounts -> {"none", "granted", "shown"}]
    /\ late \subseteq Accounts /\ claimed \subseteq Accounts
    /\ tried \in [Accounts -> Nat]
    /\ latest \in [Accounts -> Records \cup {Absent}]
    /\ inFlight \subseteq Accounts
    /\ mutex \in [Accounts -> 0..MaxMutex]
    /\ held \subseteq Accounts \X (0..MaxMutex)
    /\ run \in [Runs -> RunRecords]
    /\ loop \in Loops

\* No claim is sent for an account on a day on which one was already sent that the
\* upstream did not refuse: whatever failed, expired, was evicted or ran at the
\* same time since (confirmedCheckinAttempt, record, reserve, makeRoomLocked).
NoReplay ==
    [][\A x \in Runs : Claim(x) => run[x].acc \notin claimed]_vars

\* Whoever triggers runs and however often, no account gets more background
\* retries in a day than there are delays (record, retryMode, makeRoomLocked).
RetryBudget == \A a \in Accounts : tried[a] <= Len(RetryDelays)

\* A run that was admitted leaves its record: the room it reserved is not given
\* away meanwhile, and the store does not grow beyond its limit (reserve,
\* makeRoomLocked, record).
RecordKept ==
    /\ TypeOK
    /\ Cardinality(Known(latest)) <= Cap
    /\ inFlight \subseteq Known(latest)

\* A retry that is planned happens, or is given up, and is not planned for ever
\* (due, runDueCheckinRetries, retryMode).
RetriesEnd ==
    \A a \in Accounts : latest[a] # Absent /\ latest[a].allowed
                          ~> latest[a] = Absent \/ ~latest[a].allowed
=============================================================================
