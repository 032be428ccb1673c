--------------------------- MODULE Checkin_proofs ---------------------------
(***************************************************************************)
(* Machine-checked facts about Checkin, for every set of accounts and      *)
(* requests, every limit of the store, every schedule and every list of    *)
(* retry delays.                                                           *)
(***************************************************************************)
EXTENDS Checkin, FiniteSetTheorems, WellFoundedInduction, TLAPS

(***************************************************************************)
(* The inductive invariant.                                                *)
(***************************************************************************)
Reserved == {"mode", "bundle", "status", "claim", "verify", "record"}

\* The in-flight mark admits one run of an account at a time; the mutex adds
\* nothing to it, and may be exchanged for another meanwhile.
Admitted(x) == run[x].pc \in Reserved => run[x].acc \in inFlight
Exclusive ==
    \A x, y \in Runs :
        run[x].pc \in Reserved /\ run[y].pc \in Reserved /\ run[x].acc = run[y].acc => x = y

\* The timer starts background runs only when those before have returned.
TimerWaits == loop.pc \in {"sleep", "list"} => Quiet

\* Room for records.
StoreFits ==
    /\ IsFiniteSet(Known(latest)) /\ Cardinality(Known(latest)) <= Cap
    /\ inFlight \subseteq Known(latest)

\* A retry is planned, and under way, only while the budget lasts.
Affordable(a) == latest[a] # Absent /\ latest[a].allowed => latest[a].count < Len(RetryDelays)
Retries(x, a) == run[x].acc = a /\ run[x].src = "retry" /\ run[x].pc \in Reserved \ {"mode"}
RetryFits(x) ==
    \A a \in Accounts : Retries(x, a) => latest[a] # Absent /\ latest[a].count < Len(RetryDelays)

\* The retries of a day are those the day's record counts and the one under way.
Counted(a) ==
    tried[a] <= IF latest[a] # Absent /\ latest[a].day = Today
                  THEN latest[a].count + (IF \E x \in Runs : Retries(x, a) THEN 1 ELSE 0)
                  ELSE 0

\* A claim that the upstream may have had, and whose effect it does not show.
Sent(e) == e = NoError \/ e.uncertain \/ e.already
Open(a) == a \in claimed /\ upstream[a] # "shown"

\* It is remembered by the day's record, or by the run that will write it.
Remembered(a) ==
    latest[a] # Absent /\ latest[a].day = Today /\ latest[a].only /\ ~latest[a].confirmed
Carries(x) ==
    \/ run[x].pc = "verify" /\ Sent(run[x].answer)
    \/ run[x].pc = "record" /\ run[x].res.only /\ ~run[x].res.confirmed
Guarded(a) == Open(a) => Remembered(a) \/ \E x \in Runs : run[x].acc = a /\ Carries(x)

\* Meanwhile runs only verify, and none of them confirms what is not shown.
Careful(x) ==
    /\ run[x].pc = "claim" => run[x].acc \notin claimed
    /\ Open(run[x].acc) =>
         /\ run[x].pc \in {"bundle", "status"} => run[x].only
         /\ run[x].pc = "record" => ~run[x].res.confirmed

AccountFits(a) == Affordable(a) /\ Counted(a) /\ Guarded(a)
RunFits(x) == Admitted(x) /\ RetryFits(x) /\ Careful(x)

IInv ==
    /\ TypeOK /\ StoreFits /\ Exclusive /\ TimerWaits
    /\ \A a \in Accounts : AccountFits(a)
    /\ \A x \in Runs : RunFits(x)

(***************************************************************************)
(* The calendar.                                                           *)
(***************************************************************************)

LEMMA Division ==
    ASSUME NEW D \in Nat \ {0}, NEW a \in Nat
    PROVE  /\ a \div D \in Nat /\ a % D \in 0..(D - 1)
           /\ a = D * (a \div D) + (a % D)
  BY SMT

LEMMA SmallMultiple ==
    ASSUME NEW D \in Nat \ {0}, NEW k \in Int, -D < D * k, D * k < D
    PROVE  k = 0
<1>1. CASE k >= 1
  <2>1. D * k >= D * 1
    BY <1>1, SMT
  <2> QED
    BY <2>1
<1>2. CASE k <= -1
  <2>1. D * k <= D * (-1)
    BY <1>2, SMT
  <2> QED
    BY <2>1
<1> QED
  BY <1>1, <1>2

LEMMA Remainder ==
    ASSUME NEW D \in Nat \ {0}, NEW q \in Nat, NEW r \in 0..(D - 1)
    PROVE  (D * q + r) % D = r
<1> DEFINE a == D * q + r
<1>1. a \in Nat
  BY SMT
<1>2. /\ a \div D \in Nat /\ a % D \in 0..(D - 1)
      /\ a = D * (a \div D) + (a % D)
  BY <1>1, Division
<1>3. PICK p \in Nat, s \in 0..(D - 1) : p = a \div D /\ s = a % D
  BY <1>2
<1>4. D * q + r = D * p + s
  BY <1>2, <1>3
<1>5. D * (q - p) = s - r
  BY <1>4, SMT
<1>6. q - p = 0
  BY <1>5, SmallMultiple
<1>7. q = p
  BY <1>6
<1> QED
  BY <1>3, <1>4, <1>7

LEMMA LeastOf ==
    ASSUME NEW T \in SUBSET Nat, T # {}
    PROVE  \E n \in T : \A m \in T : n <= m
<1> DEFINE R == OpToRel(<, Nat)
<1>1. \A a, b \in Nat : a < b => <<a, b>> \in R
  BY DEF OpToRel
<1>2. IsWellFoundedOn(R, Nat)
  BY NatLessThanWellFounded
<1> HIDE DEF R
<1>3. PICK n \in T : \A m \in T : ~(<<m, n>> \in R)
  BY <1>2, WFMin
<1>4. \A m \in T : ~(m < n)
  BY <1>1, <1>3
<1> QED
  BY <1>3, <1>4

\* A day of every instant.
LEMMA DayTyped ==
    ASSUME NEW t \in Nat PROVE DayOf(t) \in Nat
  BY Division, CheckinConstants DEF DayOf

\* The schedule always has a next hour: every hour comes once in a day.
LEMMA NextTimeTyped ==
    ASSUME NEW t \in Nat PROVE nextCheckinTime(t) \in Nat
<1> DEFINE D == DayLen
           hours == CheckinHours \cup OtherHours
           C == {u \in (t + 1)..(t + D) : u % D \in hours}
<1>1. D \in Nat \ {0} /\ CheckinHours # {} /\ hours \subseteq 0..(D - 1)
  BY CheckinConstants
<1>2. PICK h \in CheckinHours : h \in 0..(D - 1)
  BY <1>1
<1>3. PICK q \in Nat, r \in 0..(D - 1) : t = D * q + r
  BY <1>1, Division
<1> HIDE DEF D
<1>4. \E u \in (t + 1)..(t + D) : u % D = h
  <2>1. CASE h > r
    <3>1. (D * q + h) % D = h
      BY <1>1, <1>2, Remainder
    <3>2. D * q + h \in (t + 1)..(t + D)
      BY <1>1, <1>2, <1>3, <2>1, SMT
    <3> QED
      BY <3>1, <3>2
  <2>2. CASE ~(h > r)
    <3>1. (D * (q + 1) + h) % D = h
      BY <1>1, <1>2, Remainder
    <3>2. D * (q + 1) + h \in (t + 1)..(t + D)
      BY <1>1, <1>2, <1>3, <2>2, SMT
    <3> QED
      BY <3>1, <3>2
  <2> QED
    BY <2>1, <2>2
<1>5. C # {} /\ C \in SUBSET Nat
  <2>1. PICK u \in (t + 1)..(t + D) : u % D = h
    BY <1>4
  <2>2. u \in C
    BY <1>2, <2>1
  <2>3. (t + 1)..(t + D) \subseteq Nat
    BY <1>1
  <2> QED
    BY <2>2, <2>3
<1>6. PICK n \in C : \A m \in C : n <= m
  BY <1>5, LeastOf
<1>7. /\ n \in (t + 1)..(t + D) /\ n % D \in hours /\ n \in Nat
      /\ \A w \in (t + 1)..(n - 1) : w % D \notin hours
  <2>1. n \in (t + 1)..(t + D) /\ n % D \in hours /\ n \in Nat
    BY <1>1, <1>6
  <2>2. ASSUME NEW w \in (t + 1)..(n - 1), w % D \in hours
        PROVE  FALSE
    <3>1. w \in (t + 1)..(t + D) /\ w < n /\ w \in Int
      BY <1>1, <2>1
    <3>2. w \in C
      BY <2>2, <3>1
    <3>3. n <= w
      BY <1>6, <3>2
    <3> QED
      BY <2>1, <3>1, <3>3
  <2> QED
    BY <2>1, <2>2
<1>8. nextCheckinTime(t) \in (t + 1)..(t + D)
  BY <1>7 DEF nextCheckinTime, D
<1> QED
  BY <1>1, <1>8

(***************************************************************************)
(* The store of records.                                                   *)
(***************************************************************************)

\* A record is none of the absent ones; what the sweep cancels keeps the rest.
LEMMA RecordsTyped ==
    ASSUME TypeOK, NEW a \in Accounts
    PROVE  /\ latest[a] # Absent => latest[a] \in Records
           /\ Absent \notin Records
           /\ \A t \in Nat : Running(t) \in Records
           /\ now \in Nat /\ Today \in Nat
<1>1. Absent \notin Records
  BY DEF Absent, Records
<1>2. now \in Nat /\ Today \in Nat
  <2>1. now \in Nat
    BY CheckinConstants DEF TypeOK
  <2>2. DayOf(now) = Today
    BY DEF DayOf, Today
  <2> QED
    BY <2>1, <2>2, DayTyped
<1>3. Len(RetryDelays) \in Nat
  BY CheckinConstants
<1>4. \A t \in Nat : Running(t) \in Records
  BY <1>3, DayTyped DEF Running, Records
<1> QED
  BY <1>1, <1>2, <1>4 DEF TypeOK

LEMMA DroppedTyped ==
    ASSUME NEW r \in Records
    PROVE  /\ Dropped(r) \in Records /\ ~Dropped(r).allowed
           /\ Dropped(r).day = r.day /\ Dropped(r).count = r.count
           /\ Dropped(r).only = r.only /\ Dropped(r).confirmed = r.confirmed
<1> DEFINE b == [r EXCEPT !.next = 0]
           c == [b EXCEPT !.allowed = FALSE]
<1>1. /\ b \in Records /\ b.day = r.day /\ b.count = r.count /\ b.only = r.only /\ b.confirmed = r.confirmed
  BY DEF Records
<1>2. Dropped(r) = c
  BY DEF Dropped, Records
<1> HIDE DEF b
<1>3. /\ c \in Records /\ ~c.allowed
      /\ c.day = r.day /\ c.count = r.count /\ c.only = r.only /\ c.confirmed = r.confirmed
  BY <1>1 DEF Records
<1> QED
  BY <1>2, <1>3

\* What a step may do to the record of an account it has nothing to do with: cancel
\* its retry, or give its room away if nothing protects it.
Kept(tab, b) ==
    \/ tab[b] = latest[b]
    \/ latest[b] # Absent /\ tab[b] = Dropped(latest[b])
    \/ latest[b] # Absent /\ tab[b] = Absent /\ ~Protected(b, now)

\* Room for one more: nothing but an unprotected record has gone.
LEMMA MakeRoomEffect ==
    ASSUME TypeOK, StoreFits, NEW tab \in makeRoom(now)
    PROVE  /\ tab \in [Accounts -> Records \cup {Absent}]
           /\ \A b \in Accounts : tab[b] = latest[b] \/ (latest[b] # Absent /\ tab[b] = Absent /\ ~Protected(b, now))
           /\ IsFiniteSet(Known(tab)) /\ Cardinality(Known(tab)) < Cap
<1>1. /\ latest \in [Accounts -> Records \cup {Absent}] /\ Cap \in Nat \ {0}
      /\ IsFiniteSet(Known(latest)) /\ Cardinality(Known(latest)) \in Nat
      /\ Cardinality(Known(latest)) <= Cap
  BY CheckinConstants, FS_CardinalityType DEF TypeOK, StoreFits
<1>2. CASE Cardinality(Known(latest)) < Cap
  BY <1>1, <1>2 DEF makeRoom
<1>3. CASE ~(Cardinality(Known(latest)) < Cap)
  <2>1. PICK o \in Known(latest) : ~Protected(o, now) /\ tab = [latest EXCEPT ![o] = Absent]
    BY <1>3 DEF makeRoom
  <2>2. o \in Accounts /\ latest[o] # Absent
    BY <2>1 DEF Known
  <2>3. /\ tab \in [Accounts -> Records \cup {Absent}] /\ tab[o] = Absent
        /\ \A b \in Accounts \ {o} : tab[b] = latest[b]
    BY <1>1, <2>1, <2>2
  <2>4. Known(tab) = Known(latest) \ {o}
    BY <2>2, <2>3 DEF Known
  <2>5. IsFiniteSet(Known(tab)) /\ Cardinality(Known(tab)) = Cardinality(Known(latest)) - 1
    BY <1>1, <2>1, <2>4, FS_RemoveElement
  <2> QED
    BY <1>1, <2>1, <2>2, <2>3, <2>5
<1> QED
  BY <1>2, <1>3

\* The table after a new record has taken the room made for it.
LEMMA TakeRoom ==
    ASSUME NEW tab \in [Accounts -> Records \cup {Absent}], NEW a \in Accounts, NEW r \in Records,
           r # Absent, IsFiniteSet(Known(tab)), Cardinality(Known(tab)) < Cap
    PROVE  LET new == [tab EXCEPT ![a] = r]
           IN  /\ new \in [Accounts -> Records \cup {Absent}]
               /\ new[a] = r /\ \A b \in Accounts \ {a} : new[b] = tab[b]
               /\ IsFiniteSet(Known(new)) /\ Cardinality(Known(new)) <= Cap
<1> DEFINE new == [tab EXCEPT ![a] = r]
<1>1. /\ new \in [Accounts -> Records \cup {Absent}]
      /\ new[a] = r /\ \A b \in Accounts \ {a} : new[b] = tab[b]
  OBVIOUS
<1>2. Known(new) = Known(tab) \cup {a}
  BY <1>1 DEF Known
<1>3. /\ IsFiniteSet(Known(new)) /\ Cardinality(Known(tab)) \in Nat
      /\ Cardinality(Known(new)) \in {Cardinality(Known(tab)), Cardinality(Known(tab)) + 1}
  <2>1. Cardinality(Known(tab)) \in Nat
    BY FS_CardinalityType
  <2>2. /\ IsFiniteSet(Known(tab) \cup {a})
        /\ Cardinality(Known(tab) \cup {a})
              = IF a \in Known(tab) THEN Cardinality(Known(tab)) ELSE Cardinality(Known(tab)) + 1
    BY FS_AddElement
  <2> HIDE DEF new
  <2> QED
    BY <1>2, <2>1, <2>2
<1> QED
  BY <1>1, <1>3, CheckinConstants

\* A reservation leaves a record, and takes room only from unprotected ones.
LEMMA ReserveEffect ==
    ASSUME TypeOK, StoreFits, NEW a \in Accounts, NEW tab \in reserve(a)
    PROVE  /\ a \notin inFlight
           /\ tab \in [Accounts -> Records \cup {Absent}]
           /\ tab[a] # Absent /\ (latest[a] # Absent => tab[a] = latest[a])
           /\ latest[a] = Absent => tab[a] = Running(now)
           /\ \A b \in Accounts \ {a} : Kept(tab, b)
           /\ IsFiniteSet(Known(tab)) /\ Cardinality(Known(tab)) <= Cap
<1>1. a \notin inFlight
  BY DEF reserve
<1>2. CASE latest[a] # Absent
  <2>1. tab = latest
    BY <1>1, <1>2 DEF reserve
  <2> QED
    BY <1>1, <1>2, <2>1 DEF TypeOK, StoreFits, Kept
<1>3. CASE latest[a] = Absent
  <2>1. PICK old \in makeRoom(now) : tab = [old EXCEPT ![a] = Running(now)]
    BY <1>1, <1>3 DEF reserve
  <2>2. Running(now) \in Records /\ Running(now) # Absent
    BY RecordsTyped
  <2>3. /\ old \in [Accounts -> Records \cup {Absent}]
        /\ \A b \in Accounts : old[b] = latest[b] \/ (latest[b] # Absent /\ old[b] = Absent /\ ~Protected(b, now))
        /\ IsFiniteSet(Known(old)) /\ Cardinality(Known(old)) < Cap
    BY MakeRoomEffect
  <2>4. /\ tab \in [Accounts -> Records \cup {Absent}]
        /\ tab[a] = Running(now) /\ \A b \in Accounts \ {a} : tab[b] = old[b]
        /\ IsFiniteSet(Known(tab)) /\ Cardinality(Known(tab)) <= Cap
    BY <2>1, <2>2, <2>3, TakeRoom
  <2>5. \A b \in Accounts \ {a} : Kept(tab, b)
    BY <2>3, <2>4 DEF Kept
  <2> QED
    BY <1>1, <1>3, <2>2, <2>4, <2>5
<1> QED
  BY <1>2, <1>3

\* The record a run leaves.
LEMMA RecordOfEffect ==
    ASSUME TypeOK, NEW count \in 0..Len(RetryDelays), NEW manual \in BOOLEAN, NEW only \in BOOLEAN,
           NEW res \in Results
    PROVE  LET r == recordOf(count, manual, only, res)
           IN  /\ r \in Records /\ r.day = Today /\ r.count = count /\ r.only = only
               /\ r.confirmed = res.confirmed /\ (r.allowed => count < Len(RetryDelays))
<1> DEFINE again == /\ res.retryable /\ count < Len(RetryDelays)
                    /\ DayOf(now + RetryDelays[count + 1]) = Today
           next == IF again THEN now + RetryDelays[count + 1] ELSE 0
           r == recordOf(count, manual, only, res)
<1>1. /\ r.day = Today /\ r.at = now /\ r.count = count /\ r.next = next /\ r.only = only
      /\ r.confirmed = res.confirmed /\ r.allowed = again /\ r.manual = manual
      /\ r = [day |-> Today, at |-> now, count |-> count, next |-> next, only |-> only,
              confirmed |-> res.confirmed, allowed |-> again, manual |-> manual]
  BY DEF recordOf
<1>2. now \in Nat /\ Today \in Nat /\ res.confirmed \in BOOLEAN
  BY RecordsTyped, CheckinConstants DEF Results
<1>3. next \in Nat
  <2>1. CASE again
    <3>1. count + 1 \in 1..Len(RetryDelays)
      BY <2>1, CheckinConstants
    <3>2. RetryDelays[count + 1] \in Nat
      BY <3>1, CheckinConstants
    <3> QED
      BY <1>2, <2>1, <3>2
  <2>2. CASE ~again
    BY <2>2
  <2> QED
    BY <2>1, <2>2
<1>4. again \in BOOLEAN /\ (again => count < Len(RetryDelays))
  OBVIOUS
<1> HIDE DEF again, next, r
<1>5. r \in Records
  BY <1>1, <1>2, <1>3, <1>4 DEF Records
<1> QED
  BY <1>1, <1>4, <1>5 DEF r

LEMMA RecordEffect ==
    ASSUME TypeOK, NEW a \in Accounts, latest[a] # Absent, NEW src \in Sources, NEW res \in Results,
           src = "retry" => latest[a].count < Len(RetryDelays)
    PROVE  LET r == record(latest[a], src, res)
           IN  /\ r \in Records /\ r.day = Today
               /\ r.allowed => r.count < Len(RetryDelays)
               /\ r.count = IF latest[a].day # Today THEN 0
                            ELSE IF src = "retry" THEN latest[a].count + 1 ELSE latest[a].count
               /\ r.only <=> (res.only \/ (latest[a].day = Today /\ latest[a].only /\ ~res.confirmed))
               /\ r.confirmed = res.confirmed
<1> DEFINE p == latest[a]
           count == countAfter(p, src)
           manual == manualAfter(p, src)
           only == onlyAfter(p, res)
<1>1. /\ p \in Records /\ p.count \in 0..Len(RetryDelays) /\ p.manual \in BOOLEAN /\ p.only \in BOOLEAN
      /\ Len(RetryDelays) \in Nat /\ res.only \in BOOLEAN /\ res.confirmed \in BOOLEAN
  <2>1. p \in Records
    BY RecordsTyped
  <2>2. Len(RetryDelays) \in Nat
    BY CheckinConstants
  <2>3. res.only \in BOOLEAN /\ res.confirmed \in BOOLEAN
    BY DEF Results
  <2> QED
    BY <2>1, <2>2, <2>3 DEF Records
<1>2. /\ count \in 0..Len(RetryDelays)
      /\ count = IF p.day # Today THEN 0 ELSE IF src = "retry" THEN p.count + 1 ELSE p.count
  BY <1>1 DEF countAfter, SameDay
<1>3. manual \in BOOLEAN
  BY <1>1 DEF manualAfter, SameDay
<1>4. /\ only \in BOOLEAN
      /\ only <=> (res.only \/ (p.day = Today /\ p.only /\ ~res.confirmed))
  BY <1>1 DEF onlyAfter, SameDay
<1>5. record(p, src, res) = recordOf(count, manual, only, res)
  BY DEF record
<1> HIDE DEF count, manual, only
<1> QED
  BY <1>2, <1>3, <1>4, <1>5, RecordOfEffect

\* What a call may bring.
LEMMA AnswersTyped ==
    ASSUME NEW e \in Answers
    PROVE  /\ e.retryable \in BOOLEAN /\ e.uncertain \in BOOLEAN /\ e.already \in BOOLEAN
           /\ e.already => ~e.retryable /\ ~e.uncertain
           /\ e = NoError => ~e.retryable
           /\ e = Refusal => ~Sent(e)
<1>1. NoError # Refusal
  <2>1. NoError.success = TRUE /\ Refusal.success = FALSE
    BY DEF NoError, Refusal
  <2> QED
    BY <2>1
<1>2. CASE e \in CallErrors
  <2>1. /\ e.retryable \in BOOLEAN /\ e.uncertain \in BOOLEAN /\ e.already \in BOOLEAN
        /\ e.already => ~e.retryable /\ ~e.uncertain
    <3>1. CASE e = [retryable |-> FALSE, uncertain |-> FALSE, already |-> FALSE]
      BY <3>1
    <3>2. CASE e = [retryable |-> TRUE,  uncertain |-> FALSE, already |-> FALSE]
      BY <3>2
    <3>3. CASE e = [retryable |-> TRUE,  uncertain |-> TRUE,  already |-> FALSE]
      BY <3>3
    <3>4. CASE e = [retryable |-> FALSE, uncertain |-> TRUE,  already |-> FALSE]
      BY <3>4
    <3>5. CASE e = [retryable |-> FALSE, uncertain |-> FALSE, already |-> TRUE]
      BY <3>5
    <3> QED
      BY <1>2, <3>1, <3>2, <3>3, <3>4, <3>5, Zenon DEF CallErrors
  <2>2. e = NoError => ~e.retryable
    BY DEF NoError
  <2>3. e = Refusal => ~e.uncertain /\ ~e.already
    BY DEF Refusal
  <2> QED
    BY <1>1, <2>1, <2>2, <2>3 DEF Sent
<1>3. CASE e = NoError
  <2>1. /\ e.retryable = FALSE /\ e.uncertain = FALSE /\ e.already = FALSE
    BY <1>3 DEF NoError
  <2> QED
    BY <1>1, <1>3, <2>1
<1>4. CASE e = Refusal
  <2>1. /\ e.retryable = FALSE /\ e.uncertain = FALSE /\ e.already = FALSE
    BY <1>4 DEF Refusal
  <2> QED
    BY <1>1, <1>4, <2>1 DEF Sent
<1> QED
  BY <1>2, <1>3, <1>4 DEF Answers

\* A status says "checked in" when the upstream shows it, or nothing.
LEMMA StatusTyped ==
    ASSUME NEW a \in Accounts, NEW s \in StatusAnswers(a)
    PROVE  /\ s \in CallErrors => s \in Answers
           /\ s \notin CallErrors => s.checked = (upstream[a] = "shown") /\ s.active \in BOOLEAN
  BY DEF StatusAnswers, Answers

\* After a claim that may have been granted a run knows that it was, or keeps in mind
\* that it does not know.
LEMMA VerifiedEffect ==
    ASSUME NEW e \in Answers, NEW a \in Accounts, NEW s \in StatusAnswers(a)
    PROVE  LET r == verified(e, s)
           IN  /\ r \in Results
               /\ r.confirmed => upstream[a] = "shown"
               /\ Sent(e) /\ upstream[a] # "shown" => r.only /\ ~r.confirmed
<1> DEFINE r == verified(e, s)
<1>1. /\ e.retryable \in BOOLEAN /\ e.uncertain \in BOOLEAN /\ e.already \in BOOLEAN
      /\ e.already => ~e.retryable /\ ~e.uncertain
      /\ e = NoError => ~e.retryable
      /\ e = Refusal => ~Sent(e)
  BY AnswersTyped
<1>2. CASE s \notin CallErrors /\ s.checked
  <2>1. upstream[a] = "shown" /\ r = Result(TRUE, FALSE, FALSE)
    BY <1>2, StatusTyped DEF verified
  <2> QED
    BY <2>1 DEF Result, Results
<1>3. CASE ~(s \notin CallErrors /\ s.checked) /\ s \in CallErrors /\ ~s.retryable
  <2>1. r = Result(FALSE, FALSE, TRUE)
    BY <1>3 DEF verified
  <2> QED
    BY <2>1 DEF Result, Results
<1>4. CASE ~(s \notin CallErrors /\ s.checked) /\ ~(s \in CallErrors /\ ~s.retryable)
           /\ e \in CallErrors /\ e.retryable
  <2>1. r = Result(FALSE, TRUE, e.uncertain)
    BY <1>4 DEF verified
  <2>2. Sent(e) => e.uncertain
    BY <1>1, <1>4 DEF Sent
  <2> QED
    BY <1>1, <2>1, <2>2 DEF Result, Results
<1>5. CASE ~(s \notin CallErrors /\ s.checked) /\ ~(s \in CallErrors /\ ~s.retryable)
           /\ ~(e \in CallErrors /\ e.retryable)
  <2>1. r = IF e = Refusal THEN Failed ELSE Result(FALSE, TRUE, TRUE)
    BY <1>5 DEF verified
  <2> QED
    BY <1>1, <2>1 DEF Result, Results, Failed
<1> QED
  BY <1>2, <1>3, <1>4, <1>5

(***************************************************************************)
(* The runs.                                                               *)
(***************************************************************************)

LEMMA IdleTyped == Idle \in RunRecords /\ Idle.pc = "idle"
<1>1. (CHOOSE a \in Accounts : TRUE) \in Accounts
  BY CheckinConstants
<1>2. 0 \in 0..MaxMutex /\ NoError \in Answers /\ Failed \in Results /\ "idle" \in Pcs /\ "manual" \in Sources
  BY CheckinConstants DEF Answers, Results, Failed, Result, Pcs, Sources
<1> QED
  BY <1>1, <1>2 DEF Idle, RunRecords

LEMMA StartedTyped ==
    ASSUME NEW a \in Accounts, NEW src \in Sources
    PROVE  Started(a, src) \in RunRecords /\ Started(a, src).pc = "start" /\ Started(a, src).acc = a
<1>6. PICK f \in BOOLEAN : f = (a \in paused)
  <2>1. CASE a \in paused
    BY <2>1, Zenon
  <2>2. CASE a \notin paused
    <3>1. FALSE \in BOOLEAN /\ FALSE = (a \in paused)
      BY <2>2
    <3> QED
      BY <3>1, Zenon
  <2> QED
    BY <2>1, <2>2
<1> DEFINE b == [Idle EXCEPT !.pc = "start"]
           c == [b EXCEPT !.acc = a]
           d == [c EXCEPT !.src = src]
           e == [d EXCEPT !.fdis = f]
<1>1. b \in RunRecords /\ b.pc = "start"
  BY IdleTyped DEF RunRecords, Pcs
<1>2. Started(a, src) = e
  BY <1>6, IdleTyped DEF Started, RunRecords
<1> HIDE DEF b
<1>3. c \in RunRecords /\ c.pc = "start" /\ c.acc = a
  BY <1>1 DEF RunRecords
<1> HIDE DEF c
<1>4. d \in RunRecords /\ d.pc = "start" /\ d.acc = a
  BY <1>3 DEF RunRecords
<1> HIDE DEF d
<1>5. e \in RunRecords /\ e.pc = "start" /\ e.acc = a
  BY <1>4 DEF RunRecords
<1> QED
  BY <1>2, <1>5

\* One run moves.
Moves(x, q) ==
    /\ run' \in [Runs -> RunRecords] /\ run'[x] = q
    /\ \A y \in Runs \ {x} : run'[y] = run[y]

LEMMA GoesEffect ==
    ASSUME TypeOK, NEW x \in Runs, NEW pc \in Pcs, Goes(x, pc)
    PROVE  \E q \in RunRecords : /\ Moves(x, q) /\ q.pc = pc /\ q.acc = run[x].acc /\ q.src = run[x].src
                                 /\ q.only = run[x].only /\ q.answer = run[x].answer
<1>1. run \in [Runs -> RunRecords] /\ run[x] \in RunRecords
  BY DEF TypeOK
<1>2. PICK q \in RunRecords : q = [run[x] EXCEPT !.pc = pc]
  BY <1>1 DEF RunRecords
<1>3. run' = [run EXCEPT ![x] = q]
  BY <1>1, <1>2 DEF Goes
<1>4. q.pc = pc /\ q.acc = run[x].acc /\ q.src = run[x].src /\ q.only = run[x].only /\ q.answer = run[x].answer
  BY <1>1, <1>2 DEF RunRecords
<1> QED
  BY <1>1, <1>3, <1>4 DEF Moves

LEMMA EndsEffect ==
    ASSUME TypeOK, NEW x \in Runs, NEW res \in Results, Ends(x, res)
    PROVE  \E q \in RunRecords : /\ Moves(x, q) /\ q.pc = "record" /\ q.acc = run[x].acc /\ q.src = run[x].src
                                 /\ q.res = res
<1>1. run \in [Runs -> RunRecords] /\ run[x] \in RunRecords
  BY DEF TypeOK
<1>2. PICK b \in RunRecords : b = [run[x] EXCEPT !.pc = "record"]
  BY <1>1 DEF RunRecords, Pcs
<1>3. PICK q \in RunRecords : q = [b EXCEPT !.res = res]
  BY <1>2 DEF RunRecords
<1>4. run' = [run EXCEPT ![x] = q]
  BY <1>1, <1>2, <1>3 DEF Ends
<1>5. q.pc = "record" /\ q.acc = run[x].acc /\ q.src = run[x].src /\ q.res = res
  BY <1>1, <1>2, <1>3 DEF RunRecords
<1> QED
  BY <1>1, <1>4, <1>5 DEF Moves

LEMMA LeavesEffect ==
    ASSUME TypeOK, NEW x \in Runs, run' = [run EXCEPT ![x] = Idle]
    PROVE  Moves(x, Idle) /\ Idle.pc = "idle"
  BY IdleTyped DEF TypeOK, Moves

(***************************************************************************)
(* What a step has to leave alone.                                         *)
(***************************************************************************)

\* No run holding b's reservation changes.
SameRuns(b) ==
    \A y \in Runs :
        \/ run[y].acc = b /\ run[y].pc \in Reserved
        \/ run'[y].acc = b /\ run'[y].pc \in Reserved
        => run'[y] = run[y]

\* The step has nothing to do with b.
Steady(b) ==
    /\ Kept(latest', b) /\ SameRuns(b)
    /\ tried'[b] = tried[b] /\ (b \in claimed' <=> b \in claimed)
    /\ upstream[b] = "shown" => upstream'[b] = "shown"
    /\ b \in inFlight => b \in inFlight'

\* Runs of an account that nobody has admitted know and hold nothing.
LEMMA OutsideFits ==
    ASSUME NEW y \in Runs, run'[y].pc \notin Reserved
    PROVE  RunFits(y)'
  BY DEF RunFits, Admitted, RetryFits, Retries, Careful, Reserved

\* An account without reservation has neither a retry nor a claim under way.
LEMMA Unreserved ==
    ASSUME IInv, NEW a \in Accounts, a \notin inFlight, NEW y \in Runs, run[y].acc = a
    PROVE  run[y].pc \notin Reserved /\ ~Retries(y, a) /\ ~Carries(y)
  BY DEF IInv, RunFits, Admitted, Retries, Carries, Reserved

\* A record that nothing protects holds no retry and no claim of today.
LEMMA UnprotectedFree ==
    ASSUME IInv, NEW a \in Accounts, latest[a] # Absent, ~Protected(a, now)
    PROVE  a \notin inFlight /\ tried[a] <= 0 /\ ~Open(a)
<1>1. a \notin inFlight
  BY DEF Protected
<1>2. ~(\E y \in Runs : Retries(y, a)) /\ ~(\E y \in Runs : run[y].acc = a /\ Carries(y))
  <2>1. \A y \in Runs : Retries(y, a) => run[y].acc = a
    BY DEF Retries
  <2> QED
    BY <1>1, <2>1, Unreserved
<1>3. latest[a].day = Today => latest[a].count <= 0 /\ ~(latest[a].only /\ ~latest[a].confirmed)
  <2>1. latest[a].count \in Nat
    <3>1. latest[a] \in Records /\ Len(RetryDelays) \in Nat
      BY RecordsTyped, CheckinConstants DEF IInv
    <3> QED
      BY <3>1 DEF Records
  <2>2. DayOf(now) = Today
    BY DEF DayOf, Today
  <2> QED
    BY <2>1, <2>2 DEF Protected
<1>4. Counted(a) /\ Guarded(a)
  BY DEF IInv, AccountFits
<1>5. tried[a] <= 0
  <2>1. tried[a] \in Nat /\ (latest[a].day = Today => latest[a].count \in Nat)
    <3>1. latest[a] \in Records /\ Len(RetryDelays) \in Nat
      BY RecordsTyped, CheckinConstants DEF IInv
    <3> QED
      BY <3>1 DEF IInv, TypeOK, Records
  <2>2. tried[a] <= IF latest[a].day = Today THEN latest[a].count + 0 ELSE 0
    BY <1>2, <1>4 DEF Counted
  <2> QED
    BY <1>3, <2>1, <2>2
<1>6. ~Open(a)
  BY <1>2, <1>3, <1>4 DEF Guarded, Remembered
<1> QED
  BY <1>1, <1>5, <1>6

\* An account the step has nothing to do with keeps what it promises.
LEMMA SteadyAccount ==
    ASSUME IInv, TypeOK', Today' = Today, NEW b \in Accounts, Steady(b)
    PROVE  AccountFits(b)'
<1>1. \A y \in Runs : Retries(y, b)' <=> Retries(y, b)
  BY DEF Steady, SameRuns, Retries
<1>2. \A y \in Runs : run[y].acc = b /\ Carries(y) => run'[y].acc = b /\ Carries(y)'
  <2>1. \A y \in Runs : Carries(y) => run[y].pc \in Reserved
    BY DEF Carries, Reserved
  <2>2. \A y \in Runs : run[y].acc = b /\ run[y].pc \in Reserved => run'[y] = run[y]
    BY DEF Steady, SameRuns
  <2>3. \A y \in Runs : run'[y] = run[y] /\ Carries(y) => Carries(y)'
    BY DEF Carries
  <2> QED
    BY <2>1, <2>2, <2>3
<1>3. Open(b)' => Open(b)
  BY DEF Steady, Open
<1>4. Affordable(b) /\ Counted(b) /\ Guarded(b) /\ TypeOK
  BY DEF IInv, AccountFits
<1>5. CASE latest'[b] = latest[b]
  <2>1. Affordable(b)'
    BY <1>4, <1>5 DEF Affordable
  <2>2. Counted(b)'
    BY <1>1, <1>4, <1>5 DEF Counted, Steady
  <2>3. Guarded(b)'
    BY <1>2, <1>3, <1>4, <1>5 DEF Guarded, Remembered
  <2> QED
    BY <2>1, <2>2, <2>3 DEF AccountFits
<1>6. CASE latest[b] # Absent /\ latest'[b] = Dropped(latest[b])
  <2>1. latest[b] \in Records
    BY <1>4, <1>6, RecordsTyped
  <2>2. /\ latest'[b] \in Records /\ ~latest'[b].allowed
        /\ latest'[b].day = latest[b].day /\ latest'[b].count = latest[b].count
        /\ latest'[b].only = latest[b].only /\ latest'[b].confirmed = latest[b].confirmed
    BY <1>6, <2>1, DroppedTyped
  <2>3. latest'[b] # Absent
    BY <1>4, <2>2, RecordsTyped
  <2>4. Affordable(b)'
    BY <2>2 DEF Affordable
  <2>5. Counted(b)'
    BY <1>1, <1>4, <1>6, <2>2, <2>3 DEF Counted, Steady
  <2>6. Guarded(b)'
    BY <1>2, <1>3, <1>4, <1>6, <2>2, <2>3 DEF Guarded, Remembered
  <2> QED
    BY <2>4, <2>5, <2>6 DEF AccountFits
<1>7. CASE latest[b] # Absent /\ latest'[b] = Absent /\ ~Protected(b, now)
  <2>1. tried[b] <= 0 /\ ~Open(b)
    BY <1>7, UnprotectedFree
  <2>2. Affordable(b)' /\ Counted(b)' /\ Guarded(b)'
    BY <1>3, <1>7, <2>1 DEF Affordable, Counted, Guarded, Steady
  <2> QED
    BY <2>2 DEF AccountFits
<1> QED
  BY <1>5, <1>6, <1>7 DEF Steady, Kept

LEMMA SteadyRuns ==
    ASSUME IInv, TypeOK', NEW b \in Accounts, Steady(b), NEW y \in Runs, run'[y].acc = b
    PROVE  RunFits(y)'
<1>1. CASE run'[y].pc \notin Reserved
  BY <1>1, OutsideFits
<1>2. CASE run'[y].pc \in Reserved
  <2>1. run'[y] = run[y]
    BY <1>2 DEF Steady, SameRuns
  <2>2. Admitted(y) /\ RetryFits(y) /\ Careful(y) /\ b \in inFlight
    BY <1>2, <2>1 DEF IInv, RunFits, Admitted
  <2>3. Admitted(y)'
    BY <2>2 DEF Admitted, Steady
  <2>4. RetryFits(y)'
    <3>1. CASE Retries(y, b)
      <4>1. latest[b] # Absent /\ latest[b].count < Len(RetryDelays) /\ latest[b] \in Records
        BY <2>2, <3>1, RecordsTyped DEF RetryFits, IInv
      <4>2. Protected(b, now)
        BY <2>2 DEF Protected
      <4>3. latest'[b] # Absent /\ latest'[b].count < Len(RetryDelays)
        BY <4>1, <4>2, DroppedTyped, RecordsTyped DEF Steady, Kept, IInv
      <4> QED
        BY <4>3 DEF RetryFits, Retries
    <3>2. CASE ~Retries(y, b)
      BY <2>1, <3>2 DEF RetryFits, Retries
    <3> QED
      BY <3>1, <3>2
  <2>5. Careful(y)'
    BY <2>1, <2>2 DEF Careful, Open, Steady
  <2> QED
    BY <2>3, <2>4, <2>5 DEF RunFits
<1> QED
  BY <1>1, <1>2

\* A step that has to do with the accounts of A only.
LEMMA TouchesOnly ==
    ASSUME IInv, TypeOK', StoreFits', Exclusive', TimerWaits', Today' = Today,
           NEW A \in SUBSET Accounts,
           \A b \in Accounts \ A : Steady(b),
           \A a \in A : AccountFits(a)',
           \A y \in Runs : run'[y].acc \in A => RunFits(y)'
    PROVE  IInv'
<1>1. \A b \in Accounts : AccountFits(b)'
  BY SteadyAccount
<1>2. \A y \in Runs : RunFits(y)'
  <2>1. \A y \in Runs : run'[y].acc \in Accounts
    BY DEF TypeOK, RunRecords
  <2> QED
    BY <2>1, SteadyRuns
<1> QED
  BY <1>1, <1>2 DEF IInv

\* No run that holds a reservation changes, and no reservation comes or goes.
SameReserved ==
    \A y \in Runs :
        run[y].pc \in Reserved \/ run'[y].pc \in Reserved => run'[y] = run[y]

LEMMA CalmStep ==
    ASSUME IInv, TypeOK', TimerWaits', Today' = Today, SameReserved,
           \A b \in Accounts : Kept(latest', b), Known(latest') = Known(latest),
           \A b \in Accounts : upstream[b] = "shown" => upstream'[b] = "shown",
           UNCHANGED <<claimed, tried, inFlight>>
    PROVE  IInv'
<1>1. \A b \in Accounts : Steady(b)
  BY DEF Steady, SameRuns, SameReserved
<1>2. StoreFits'
  BY DEF IInv, StoreFits
<1>3. Exclusive'
  BY DEF IInv, Exclusive, SameReserved
<1> DEFINE A == {}
<1>4. /\ A \in SUBSET Accounts /\ \A b \in Accounts \ A : Steady(b)
      /\ \A a \in A : AccountFits(a)'
      /\ \A y \in Runs : run'[y].acc \in A => RunFits(y)'
  BY <1>1
<1> HIDE DEF A
<1> QED
  BY <1>2, <1>3, <1>4, TouchesOnly

\* A step in which no run moves.
LEMMA RunsRest ==
    ASSUME IInv, TypeOK', run' = run, loop' = loop, Today' = Today,
           \A b \in Accounts : upstream[b] = "shown" => upstream'[b] = "shown",
           UNCHANGED <<claimed, tried, latest, inFlight>>
    PROVE  IInv'
<1>1. SameReserved /\ \A b \in Accounts : Kept(latest', b)
  BY DEF SameReserved, Kept
<1>2. TimerWaits'
  BY DEF IInv, TimerWaits, Quiet, Active
<1> QED
  BY <1>1, <1>2, CalmStep

\* A run that moves on does not wake another one.
LEMMA TimerStillWaits ==
    ASSUME IInv, NEW x \in Runs, NEW q, Moves(x, q), loop' = loop,
           run[x].pc # "idle" \/ x \in Manuals
    PROVE  TimerWaits'
<1>1. \A y \in Accounts : run'[y].pc # "idle" => run[y].pc # "idle" \/ y \in Manuals
  BY DEF Moves, Runs
<1>2. \A y \in Accounts : y \notin Manuals
  BY CheckinConstants
<1> QED
  BY <1>1, <1>2 DEF IInv, TimerWaits, Quiet, Active

\* Nothing changes but one run and what runs share.
LEMMA MovesTyped ==
    ASSUME TypeOK, NEW x \in Runs, NEW q \in RunRecords, Moves(x, q),
           UNCHANGED <<now, listed, paused, auto, loop>>, mutex' = mutex, acts' \in 0..MaxActs,
           upstream' \in [Accounts -> {"none", "granted", "shown"}],
           late' \subseteq Accounts, claimed' \subseteq Accounts,
           tried' \in [Accounts -> Nat], latest' \in [Accounts -> Records \cup {Absent}],
           inFlight' \subseteq Accounts, held' \subseteq Accounts \X (0..MaxMutex)
    PROVE  TypeOK'
  BY DEF TypeOK, Moves

\* A run moves without holding a reservation before or after.
LEMMA OutsideStep ==
    ASSUME IInv, TypeOK', NEW x \in Runs, NEW q, Moves(x, q), loop' = loop, now' = now,
           run[x].pc \notin Reserved, q.pc \notin Reserved,
           run[x].pc # "idle" \/ x \in Manuals,
           UNCHANGED <<upstream, claimed, tried, latest, inFlight>>
    PROVE  IInv'
<1>1. SameReserved /\ \A b \in Accounts : Kept(latest', b)
  BY DEF SameReserved, Kept, Moves
<1>2. TimerWaits' /\ Today' = Today
  BY TimerStillWaits DEF Today
<1> QED
  BY <1>1, <1>2, CalmStep

\* Nobody but x holds a reservation of a.
Alone(x, a) == \A y \in Runs \ {x} : run[y].acc = a => run[y].pc \notin Reserved

\* What is shared stays as it is for every account but a.
SharedKept(a) ==
    \A b \in Accounts \ {a} :
        /\ Kept(latest', b) /\ tried'[b] = tried[b] /\ (b \in claimed' <=> b \in claimed)
        /\ upstream[b] = "shown" => upstream'[b] = "shown"
        /\ b \in inFlight => b \in inFlight'

\* A run moves, and has to do with its own account only.
LEMMA OwnStep ==
    ASSUME IInv, TypeOK', StoreFits', NEW x \in Runs, NEW a \in Accounts, run[x].acc = a,
           NEW q, Moves(x, q), loop' = loop, now' = now, run[x].pc # "idle",
           q.pc \in Reserved => q.acc = a, Alone(x, a), SharedKept(a),
           AccountFits(a)', q.pc \in Reserved => RunFits(x)'
    PROVE  IInv'
<1>1. TimerWaits' /\ Today' = Today
  BY TimerStillWaits DEF Today
<1>2. run'[x] = q /\ \A y \in Runs \ {x} : run'[y] = run[y]
  BY DEF Moves
<1>3. Exclusive'
  <2>1. Exclusive
    BY DEF IInv
  <2> QED
    BY <1>2, <2>1 DEF Exclusive, Alone
<1>4. \A b \in Accounts \ {a} : Steady(b)
  <2> TAKE b \in Accounts \ {a}
  <2>1. SameRuns(b)
    BY <1>2 DEF SameRuns
  <2> QED
    BY <2>1 DEF Steady, SharedKept
<1>5. \A y \in Runs : run'[y].acc = a => RunFits(y)'
  <2> TAKE y \in Runs
  <2> HAVE run'[y].acc = a
  <2>1. CASE run'[y].pc \notin Reserved
    BY <2>1, OutsideFits
  <2>2. CASE run'[y].pc \in Reserved
    <3>1. y = x
      BY <1>2, <2>2 DEF Alone
    <3> QED
      BY <1>2, <2>2, <3>1
  <2> QED
    BY <2>1, <2>2
<1> DEFINE A == {a}
<1>6. /\ A \in SUBSET Accounts /\ \A b \in Accounts \ A : Steady(b)
      /\ \A c \in A : AccountFits(c)'
      /\ \A y \in Runs : run'[y].acc \in A => RunFits(y)'
  <2>1. AccountFits(a)'
    OBVIOUS
  <2> QED
    BY <1>4, <1>5, <2>1
<1> HIDE DEF A
<1> QED
  BY <1>1, <1>3, <1>6, TouchesOnly

\* What holds of a run with a reservation, and of its account.
LEMMA AdmittedRun ==
    ASSUME IInv, NEW x \in Runs, NEW a \in Accounts, run[x].acc = a, run[x].pc \in Reserved
    PROVE  /\ a \in inFlight /\ latest[a] # Absent /\ latest[a] \in Records /\ Alone(x, a)
           /\ \A y \in Runs : Retries(y, a) => y = x
           /\ \A y \in Runs : run[y].acc = a /\ Carries(y) => y = x
           /\ run[x].pc # "idle"
<1>1. a \in inFlight
  BY DEF IInv, RunFits, Admitted
<1>2. latest[a] # Absent /\ latest[a] \in Records
  BY <1>1, RecordsTyped DEF IInv, StoreFits, Known
<1>3. Alone(x, a)
  BY DEF IInv, Exclusive, Alone
<1>4. \A y \in Runs : /\ Retries(y, a) => run[y].acc = a /\ run[y].pc \in Reserved
                      /\ Carries(y) => run[y].pc \in Reserved
  BY DEF Retries, Carries, Reserved
<1> QED
  BY <1>1, <1>2, <1>3, <1>4 DEF Alone, Reserved

\* A run under way goes on; the store and the count of retries stay.
LEMMA OwnCalm ==
    ASSUME IInv, TypeOK', NEW x \in Runs, NEW a \in Accounts, run[x].acc = a,
           run[x].pc \in Reserved \ {"mode"}, NEW q \in RunRecords, Moves(x, q),
           q.acc = a, q.src = run[x].src, q.pc \in Reserved \ {"mode"},
           UNCHANGED <<now, loop, latest, tried, inFlight>>,
           SharedKept(a), Guarded(a)', Careful(x)'
    PROVE  IInv'
<1>1. /\ a \in inFlight /\ Alone(x, a) /\ run[x].pc # "idle"
  BY AdmittedRun
<1>2. run'[x] = q /\ \A y \in Runs \ {x} : run'[y] = run[y]
  BY DEF Moves
<1>3. Today' = Today /\ StoreFits'
  BY DEF Today, IInv, StoreFits, Known
<1>4. \A y \in Runs : Retries(y, a)' <=> Retries(y, a)
  BY <1>2 DEF Retries
<1>5. Affordable(a) /\ Counted(a) /\ RetryFits(x)
  BY DEF IInv, AccountFits, RunFits
<1>6. Affordable(a)' /\ Counted(a)'
  BY <1>3, <1>4, <1>5 DEF Affordable, Counted
<1>7. Admitted(x)' /\ RetryFits(x)'
  BY <1>1, <1>2, <1>5 DEF Admitted, RetryFits, Retries
<1>8. AccountFits(a)' /\ RunFits(x)'
  BY <1>6, <1>7 DEF AccountFits, RunFits
<1> QED
  BY <1>1, <1>3, <1>8, OwnStep

\* A run that carries no claim has left its account's memory in the store.
LEMMA InStore ==
    ASSUME IInv, NEW x \in Runs, NEW a \in Accounts, run[x].acc = a,
           run[x].pc \in Reserved, ~Carries(x), Open(a)
    PROVE  Remembered(a)
<1>1. Guarded(a) /\ \A y \in Runs : run[y].acc = a /\ Carries(y) => y = x
  BY AdmittedRun DEF IInv, AccountFits
<1> QED
  BY <1>1 DEF Guarded

(***************************************************************************)
(* Every step keeps the invariant.                                         *)
(***************************************************************************)

LEMMA StepManual ==
    ASSUME IInv, NEW m \in Manuals, Manual(m)
    PROVE  IInv'
<1>1. TypeOK /\ m \in Runs /\ run[m].pc = "idle"
  BY DEF IInv, Manual, Active, Runs
<1>2. PICK a \in listed : run' = [run EXCEPT ![m] = Started(a, "manual")]
  BY DEF Manual
<1>3. a \in Accounts /\ "manual" \in Sources
  BY <1>1 DEF TypeOK, Sources
<1>4. PICK q \in RunRecords : q = Started(a, "manual") /\ q.pc = "start"
  BY <1>3, StartedTyped
<1>5. Moves(m, q)
  BY <1>1, <1>2, <1>4 DEF Moves, TypeOK
<1>6. TypeOK'
  <2>1. acts' \in 0..MaxActs
    BY <1>1, CheckinConstants DEF Manual, TypeOK
  <2> QED
    BY <1>1, <1>4, <1>5, <2>1, MovesTyped DEF Manual, TypeOK
<1> QED
  BY <1>1, <1>4, <1>5, <1>6, OutsideStep DEF Manual, Reserved

LEMMA StepLookup ==
    ASSUME IInv, NEW x \in Runs, Lookup(x)
    PROVE  IInv'
<1>1. /\ TypeOK /\ run \in [Runs -> RunRecords] /\ run[x] \in RunRecords /\ run[x].pc = "start"
      /\ mutex \in [Accounts -> 0..MaxMutex]
  BY DEF IInv, TypeOK, Lookup
<1>2. PICK b \in RunRecords : b = [run[x] EXCEPT !.pc = "wait"]
  BY <1>1 DEF RunRecords, Pcs
<1>3. run[x].acc \in Accounts
  BY <1>1 DEF RunRecords
<1>4. PICK n \in 0..MaxMutex : n = mutex[run[x].acc]
  BY <1>1, <1>3
<1>5. PICK q \in RunRecords : q = [b EXCEPT !.mu = n]
  BY <1>2 DEF RunRecords
<1>9. q.pc = "wait"
  BY <1>1, <1>2, <1>5 DEF RunRecords
<1>6. run' = [run EXCEPT ![x] = q]
  BY <1>1, <1>2, <1>4, <1>5 DEF Lookup
<1>7. Moves(x, q)
  BY <1>1, <1>6 DEF Moves
<1>8. TypeOK'
  BY <1>1, <1>7, MovesTyped DEF Lookup, TypeOK, world
<1> QED
  BY <1>1, <1>9, <1>7, <1>8, OutsideStep DEF Lookup, Reserved

LEMMA StepEnter ==
    ASSUME IInv, NEW x \in Runs, Enter(x)
    PROVE  IInv'
<1>0. PICK a \in Accounts : a = run[x].acc
  BY DEF IInv, TypeOK, RunRecords
<1>1. /\ TypeOK /\ run \in [Runs -> RunRecords] /\ run[x] \in RunRecords /\ run[x].pc = "wait"
      /\ run[x].mu \in 0..MaxMutex /\ StoreFits
      /\ UNCHANGED <<now, world, upstream, claimed, tried, loop>>
  BY DEF IInv, TypeOK, Enter, RunRecords
<1>2. CASE /\ latest' \in reserve(a) /\ inFlight' = inFlight \cup {a}
           /\ held' = held \cup {<<a, run[x].mu>>} /\ Goes(x, "mode")
  <2>1. PICK q \in RunRecords : Moves(x, q) /\ q.pc = "mode" /\ q.acc = a
    BY <1>0, <1>1, <1>2, GoesEffect DEF Pcs
  <2>2. /\ a \notin inFlight
        /\ latest' \in [Accounts -> Records \cup {Absent}]
        /\ latest'[a] # Absent /\ (latest[a] # Absent => latest'[a] = latest[a])
        /\ latest[a] = Absent => latest'[a] = Running(now)
        /\ \A b \in Accounts \ {a} : Kept(latest', b)
        /\ IsFiniteSet(Known(latest')) /\ Cardinality(Known(latest')) <= Cap
    BY <1>1, <1>2, ReserveEffect
  <2>3. TypeOK'
    <3>1. held' \subseteq Accounts \X (0..MaxMutex) /\ inFlight' \subseteq Accounts
      BY <1>1, <1>2 DEF TypeOK
    <3> QED
      BY <1>1, <2>1, <2>2, <3>1, MovesTyped DEF TypeOK, world
  <2>4. StoreFits'
    <3>1. \A b \in inFlight : latest'[b] # Absent
      <4> TAKE b \in inFlight
      <4>1. b \in Accounts /\ latest[b] # Absent /\ latest[b] \in Records
        BY <1>1, RecordsTyped DEF TypeOK, StoreFits, Known
      <4>2. CASE b = a
        BY <2>2, <4>2
      <4>3. CASE b # a
        <5>1. Protected(b, now) /\ Kept(latest', b)
          BY <2>2, <4>1, <4>3 DEF Protected
        <5>2. Dropped(latest[b]) # Absent
          BY <1>1, <4>1, DroppedTyped, RecordsTyped
        <5> QED
          BY <4>1, <5>1, <5>2 DEF Kept
      <4> QED
        BY <4>2, <4>3
    <3>2. inFlight' \subseteq Known(latest')
      BY <1>1, <1>2, <2>2, <3>1 DEF TypeOK, Known
    <3> QED
      BY <2>2, <3>2 DEF StoreFits, Known
  <2>5. Alone(x, a) /\ \A y \in Runs : run[y].acc = a => ~Retries(y, a) /\ ~Carries(y)
    BY <2>2, Unreserved DEF Alone
  <2>6. SharedKept(a)
    BY <1>1, <1>2, <2>2 DEF SharedKept
  <2>7. Today' = Today /\ run'[x] = q /\ \A y \in Runs \ {x} : run'[y] = run[y]
    BY <1>1, <2>1 DEF Today, Moves
  <2>8. Affordable(a) /\ Counted(a) /\ Guarded(a) /\ tried[a] \in Nat
    BY <1>1 DEF IInv, AccountFits, TypeOK
  <2>9. \A y \in Runs : ~Retries(y, a) /\ ~Retries(y, a)'
    <3>1. \A y \in Runs : ~Retries(y, a)
      BY <2>5 DEF Retries
    <3>2. \A y \in Runs \ {x} : Retries(y, a)' <=> Retries(y, a)
      BY <2>7 DEF Retries
    <3>3. ~Retries(x, a)'
      BY <2>1, <2>7 DEF Retries
    <3> QED
      BY <3>1, <3>2, <3>3
  <2>10. Open(a)' <=> Open(a)
    BY <1>1 DEF Open
  <2>11. Open(a) => Remembered(a)
    BY <2>5, <2>8 DEF Guarded
  <2>12. AccountFits(a)'
    <3>1. CASE latest[a] # Absent
      BY <1>1, <2>2, <2>7, <2>8, <2>9, <2>10, <2>11, <3>1 DEF AccountFits, Affordable, Counted, Guarded, Remembered
    <3>2. CASE latest[a] = Absent
      <4>1. /\ latest'[a].allowed = FALSE /\ latest'[a].count = 0
        BY <2>2, <3>2 DEF Running
      <4>2. tried'[a] <= 0 /\ ~Open(a)'
        BY <1>1, <2>8, <2>10, <2>11, <3>2 DEF Counted, Remembered
      <4> QED
        BY <2>9, <4>1, <4>2 DEF AccountFits, Affordable, Counted, Guarded
    <3> QED
      BY <3>1, <3>2
  <2>13. RunFits(x)'
    BY <1>2, <2>1, <2>7 DEF RunFits, Admitted, RetryFits, Retries, Careful
  <2> QED
    BY <1>0, <1>1, <2>1, <2>3, <2>4, <2>5, <2>6, <2>12, <2>13, OwnStep
<1>3. CASE run' = [run EXCEPT ![x] = Idle] /\ UNCHANGED <<latest, inFlight, held>>
  <2>1. Moves(x, Idle) /\ Idle.pc = "idle" /\ Idle \in RunRecords
    BY <1>1, <1>3, LeavesEffect, IdleTyped
  <2>2. TypeOK'
    BY <1>1, <1>3, <2>1, MovesTyped DEF TypeOK, world
  <2> QED
    BY <1>1, <1>3, <2>1, <2>2, OutsideStep DEF Reserved
<1> QED
  BY <1>0, <1>2, <1>3 DEF Enter

LEMMA StepMode ==
    ASSUME IInv, NEW x \in Runs, Mode(x)
    PROVE  IInv'
<1>0. PICK a \in Accounts : a = run[x].acc
  BY DEF IInv, TypeOK, RunRecords
<1>1. /\ TypeOK /\ run \in [Runs -> RunRecords] /\ run[x] \in RunRecords /\ run[x].pc = "mode"
      /\ tried \in [Accounts -> Nat] /\ StoreFits /\ Today' = Today
      /\ UNCHANGED <<now, world, upstream, claimed, latest, loop>>
  BY DEF IInv, TypeOK, Mode, Today
<1>2. run[x].pc \in Reserved /\ ~Carries(x) /\ run[x].pc # "idle" /\ ~Retries(x, a)
  BY <1>1 DEF Reserved, Carries, Retries
<1>3. /\ a \in inFlight /\ latest[a] # Absent /\ latest[a] \in Records /\ Alone(x, a)
      /\ \A y \in Runs : ~Retries(y, a)
      /\ \A y \in Runs : run[y].acc = a => ~Carries(y)
  BY <1>0, <1>2, AdmittedRun
<1>4. /\ Affordable(a) /\ Counted(a) /\ (Open(a) => Remembered(a)) /\ (Open(a)' <=> Open(a))
      /\ tried[a] \in Nat /\ latest[a].count \in Nat
  <2>1. Affordable(a) /\ Counted(a)
    BY DEF IInv, AccountFits
  <2>2. Open(a) => Remembered(a)
    BY <1>0, <1>2, InStore
  <2>3. Open(a)' <=> Open(a)
    BY <1>1 DEF Open
  <2>4. latest[a].count \in Nat
    BY <1>3, CheckinConstants DEF Records
  <2> QED
    BY <1>1, <2>1, <2>2, <2>3, <2>4
<1>5. tried[a] <= IF latest[a].day = Today THEN latest[a].count ELSE 0
  BY <1>3, <1>4 DEF Counted
<1>6. Affordable(a)' /\ Guarded(a)'
  BY <1>1, <1>4 DEF Affordable, Guarded, Remembered
<1>7. ASSUME NEW only \in BOOLEAN, run' = [run EXCEPT ![x].pc = "bundle", ![x].only = only],
             UNCHANGED <<inFlight, held>>, Remembered(a) => only,
             \/ run[x].src # "retry" /\ tried' = tried
             \/ /\ latest[a].allowed /\ latest[a].day = Today
                /\ tried' = [tried EXCEPT ![a] = @ + 1] /\ run[x].src = "retry"
      PROVE  IInv'
  <2>1. PICK b \in RunRecords : b = [run[x] EXCEPT !.pc = "bundle"]
    BY <1>1 DEF RunRecords, Pcs
  <2>2. PICK q \in RunRecords : q = [b EXCEPT !.only = only]
    BY <2>1 DEF RunRecords
  <2>3. q.pc = "bundle" /\ q.acc = a /\ q.src = run[x].src /\ q.only = only
    BY <1>0, <1>1, <2>1, <2>2 DEF RunRecords
  <2>4. run' = [run EXCEPT ![x] = q]
    BY <1>1, <1>7, <2>1, <2>2
  <2>5. Moves(x, q) /\ run'[x] = q /\ \A y \in Runs \ {x} : run'[y] = run[y]
    BY <1>1, <2>4 DEF Moves
  <2>6. /\ tried' \in [Accounts -> Nat] /\ \A c \in Accounts \ {a} : tried'[c] = tried[c]
        /\ tried'[a] = IF run[x].src = "retry" THEN tried[a] + 1 ELSE tried[a]
    BY <1>1, <1>7
  <2>7. TypeOK'
    BY <1>1, <1>7, <2>5, <2>6, MovesTyped DEF TypeOK, world
  <2>8. StoreFits' /\ SharedKept(a)
    BY <1>1, <1>7, <2>6 DEF StoreFits, Known, SharedKept, Kept
  <2>9. (\E y \in Runs : Retries(y, a)') <=> run[x].src = "retry"
    <3>1. \A y \in Runs \ {x} : ~Retries(y, a)'
      BY <1>3, <2>5 DEF Retries
    <3>2. Retries(x, a)' <=> run[x].src = "retry"
      BY <2>3, <2>5 DEF Retries, Reserved
    <3> QED
      BY <3>1, <3>2
  <2>10. Counted(a)'
    <3>1. CASE run[x].src = "retry"
      <4>1. tried'[a] = tried[a] + 1 /\ latest'[a] = latest[a] /\ latest[a].day = Today
        BY <1>1, <1>7, <2>6, <3>1
      <4> QED
        BY <1>1, <1>3, <1>4, <1>5, <2>9, <3>1, <4>1 DEF Counted
    <3>2. CASE run[x].src # "retry"
      <4>1. tried'[a] = tried[a] /\ latest'[a] = latest[a]
        BY <1>1, <1>7, <2>6, <3>2
      <4> QED
        BY <1>1, <1>3, <1>4, <1>5, <2>9, <3>2, <4>1 DEF Counted
    <3> QED
      BY <3>1, <3>2
  <2>11. RunFits(x)'
    <3>1. Admitted(x)'
      <4>1. a \in inFlight'
        BY <1>3, <1>7
      <4>2. run'[x].acc = a
        BY <2>3, <2>5
      <4> QED
        BY <4>1, <4>2 DEF Admitted
    <3>2. RetryFits(x)'
      BY <1>1, <1>3, <1>4, <1>7, <2>3, <2>5 DEF RetryFits, Retries, Affordable
    <3>3. Careful(x)'
      BY <1>4, <1>7, <2>3, <2>5 DEF Careful
    <3> QED
      BY <3>1, <3>2, <3>3 DEF RunFits
  <2>12. AccountFits(a)'
    BY <1>6, <2>10 DEF AccountFits
  <2> QED
    BY <1>0, <1>1, <1>2, <1>3, <2>3, <2>5, <2>7, <2>8, <2>11, <2>12, OwnStep
<1>8. CASE /\ run[x].src # "retry" /\ UNCHANGED <<tried, inFlight, held>>
           /\ run' = [run EXCEPT ![x].pc = "bundle", ![x].only = needsConfirmation(a)]
  <2>1. PICK only \in BOOLEAN : only = needsConfirmation(a)
    <3>1. needsConfirmation(a) \in BOOLEAN
      BY DEF needsConfirmation
    <3> QED
      BY <3>1
  <2>2. Remembered(a) => only
    BY <2>1 DEF Remembered, needsConfirmation
  <2>3. run' = [run EXCEPT ![x].pc = "bundle", ![x].only = only]
    BY <1>8, <2>1
  <2> QED
    BY <1>7, <1>8, <2>2, <2>3
<1>9. CASE /\ run[x].src = "retry" /\ retryMode(a) /\ UNCHANGED <<inFlight, held>>
           /\ run' = [run EXCEPT ![x].pc = "bundle", ![x].only = latest[a].only]
           /\ tried' = [tried EXCEPT ![a] = @ + 1]
  <2>1. PICK only \in BOOLEAN : only = latest[a].only
    BY <1>3 DEF Records
  <2>2. (Remembered(a) => only) /\ latest[a].allowed /\ latest[a].day = Today
    BY <1>9, <2>1 DEF Remembered, retryMode
  <2>3. run' = [run EXCEPT ![x].pc = "bundle", ![x].only = only]
    BY <1>9, <2>1
  <2> QED
    BY <1>7, <1>9, <2>2, <2>3
<1>10. CASE run[x].src = "retry" /\ Leaves(x) /\ inFlight' = inFlight \ {a} /\ tried' = tried
  <2>1. Moves(x, Idle) /\ Idle.pc = "idle" /\ Idle \in RunRecords
    BY <1>1, <1>10, LeavesEffect, IdleTyped DEF Leaves
  <2>2. TypeOK'
    BY <1>1, <1>10, <2>1, MovesTyped DEF TypeOK, world, Leaves
  <2>3. StoreFits' /\ SharedKept(a)
    BY <1>1, <1>10 DEF StoreFits, Known, SharedKept, Kept
  <2>4. \A y \in Runs : ~Retries(y, a)'
    BY <1>3, <2>1 DEF Moves, Retries, Reserved
  <2>5. Counted(a)'
    BY <1>1, <1>3, <1>4, <1>5, <1>10, <2>4 DEF Counted
  <2>6. AccountFits(a)'
    BY <1>6, <2>5 DEF AccountFits
  <2>7. Idle.pc \notin Reserved
    BY <2>1 DEF Reserved
  <2> QED
    BY <1>0, <1>1, <1>2, <1>3, <2>1, <2>2, <2>3, <2>6, <2>7, OwnStep
<1> QED
  BY <1>0, <1>8, <1>9, <1>10 DEF Mode

LEMMA StepBundle ==
    ASSUME IInv, NEW x \in Runs, Bundle(x)
    PROVE  IInv'
<1>0. PICK a \in Accounts : a = run[x].acc
  BY DEF IInv, TypeOK, RunRecords
<1>1. /\ TypeOK /\ run[x] \in RunRecords /\ run[x].pc = "bundle"
      /\ UNCHANGED <<now, world, upstream, claimed, tried, latest, inFlight, held, loop>>
  BY DEF IInv, TypeOK, Bundle
<1>2. run[x].pc \in Reserved \ {"mode"} /\ ~Carries(x)
  BY <1>1 DEF Reserved, Carries
<1>3. /\ SharedKept(a) /\ (Open(a)' <=> Open(a))
  BY <1>1 DEF SharedKept, Kept, Open
<1>4. Guarded(a)'
  <2>1. Open(a) => Remembered(a)
    BY <1>0, <1>2, InStore
  <2>2. Remembered(a)' <=> Remembered(a)
    BY <1>1 DEF Remembered, Today
  <2> QED
    BY <1>3, <2>1, <2>2 DEF Guarded
<1>5. CASE Ends(x, Failed)
  <2>1. Failed \in Results /\ ~Failed.confirmed
    BY DEF Failed, Result, Results
  <2>2. PICK q \in RunRecords : /\ Moves(x, q) /\ q.pc = "record" /\ q.acc = a
                                /\ q.src = run[x].src /\ q.res = Failed
    BY <1>0, <1>1, <1>5, <2>1, EndsEffect
  <2>3. TypeOK'
    BY <1>1, <2>2, MovesTyped DEF TypeOK, world
  <2>4. Careful(x)'
    BY <2>1, <2>2 DEF Careful, Moves
  <2> QED
    BY <1>0, <1>1, <1>2, <1>3, <1>4, <2>2, <2>3, <2>4, OwnCalm DEF Reserved
<1>6. CASE Goes(x, "status")
  <2>1. PICK q \in RunRecords : /\ Moves(x, q) /\ q.pc = "status" /\ q.acc = a
                                /\ q.src = run[x].src /\ q.only = run[x].only
    BY <1>0, <1>1, <1>6, GoesEffect DEF Pcs
  <2>2. TypeOK'
    BY <1>1, <2>1, MovesTyped DEF TypeOK, world
  <2>3. Careful(x)'
    <3>1. Open(a) => run[x].only
      BY <1>0, <1>1 DEF IInv, RunFits, Careful
    <3> QED
      BY <1>3, <2>1, <3>1 DEF Careful, Moves
  <2> QED
    BY <1>0, <1>1, <1>2, <1>3, <1>4, <2>1, <2>2, <2>3, OwnCalm DEF Reserved
<1> QED
  BY <1>5, <1>6 DEF Bundle

LEMMA StepStatus ==
    ASSUME IInv, NEW x \in Runs, Status(x)
    PROVE  IInv'
<1>0. PICK a \in Accounts : a = run[x].acc
  BY DEF IInv, TypeOK, RunRecords
<1>1. /\ TypeOK /\ run[x] \in RunRecords /\ run[x].pc = "status" /\ run[x].only \in BOOLEAN
      /\ UNCHANGED <<now, world, upstream, claimed, tried, latest, inFlight, held, loop>>
  BY DEF IInv, TypeOK, Status, RunRecords
<1>2. run[x].pc \in Reserved \ {"mode"} /\ ~Carries(x)
  BY <1>1 DEF Reserved, Carries
<1>3. /\ SharedKept(a) /\ (Open(a)' <=> Open(a))
  BY <1>1 DEF SharedKept, Kept, Open
<1>4. Guarded(a)'
  <2>1. Open(a) => Remembered(a)
    BY <1>0, <1>2, InStore
  <2>2. Remembered(a)' <=> Remembered(a)
    BY <1>1 DEF Remembered, Today
  <2> QED
    BY <1>3, <2>1, <2>2 DEF Guarded
<1>5. ASSUME NEW res \in Results, Ends(x, res), Open(a) => ~res.confirmed
      PROVE  IInv'
  <2>1. PICK q \in RunRecords : /\ Moves(x, q) /\ q.pc = "record" /\ q.acc = a
                                /\ q.src = run[x].src /\ q.res = res
    BY <1>0, <1>1, <1>5, EndsEffect
  <2>2. TypeOK'
    BY <1>1, <2>1, MovesTyped DEF TypeOK, world
  <2>3. Careful(x)'
    BY <1>3, <1>5, <2>1 DEF Careful, Moves
  <2> QED
    BY <1>0, <1>1, <1>2, <1>3, <1>4, <2>1, <2>2, <2>3, OwnCalm DEF Reserved
<1>6. PICK s \in StatusAnswers(a) :
          \/ s \in CallErrors /\ Ends(x, Result(FALSE, s.retryable, run[x].only))
          \/ /\ s \notin CallErrors
             /\ \/ s.checked /\ Ends(x, Result(TRUE, FALSE, FALSE))
                \/ ~s.checked /\ run[x].only /\ Ends(x, Result(FALSE, TRUE, TRUE))
                \/ ~s.checked /\ ~run[x].only /\ ~s.active /\ Ends(x, Failed)
                \/ ~s.checked /\ ~run[x].only /\ s.active /\ Goes(x, "claim")
  BY <1>0 DEF Status
<1>7. CASE s \in CallErrors /\ Ends(x, Result(FALSE, s.retryable, run[x].only))
  <2>1. s.retryable \in BOOLEAN
    BY <1>7, StatusTyped, AnswersTyped
  <2>2. Result(FALSE, s.retryable, run[x].only) \in Results /\ ~Result(FALSE, s.retryable, run[x].only).confirmed
    BY <1>1, <2>1 DEF Result, Results
  <2> QED
    BY <1>5, <1>7, <2>2
<1>8. CASE s \notin CallErrors /\ s.checked /\ Ends(x, Result(TRUE, FALSE, FALSE))
  <2>1. Result(TRUE, FALSE, FALSE) \in Results
    BY DEF Result, Results
  <2>2. ~Open(a)
    BY <1>8, StatusTyped DEF Open
  <2> QED
    BY <1>5, <1>8, <2>1, <2>2
<1>9. CASE Ends(x, Result(FALSE, TRUE, TRUE)) \/ Ends(x, Failed)
  <2>1. /\ Result(FALSE, TRUE, TRUE) \in Results /\ ~Result(FALSE, TRUE, TRUE).confirmed
        /\ Failed \in Results /\ ~Failed.confirmed
    BY DEF Failed, Result, Results
  <2> QED
    BY <1>5, <1>9, <2>1
<1>10. CASE s \notin CallErrors /\ ~s.checked /\ ~run[x].only /\ Goes(x, "claim")
  <2>1. PICK q \in RunRecords : /\ Moves(x, q) /\ q.pc = "claim" /\ q.acc = a
                                /\ q.src = run[x].src
    BY <1>0, <1>1, <1>10, GoesEffect DEF Pcs
  <2>2. TypeOK'
    BY <1>1, <2>1, MovesTyped DEF TypeOK, world
  <2>3. upstream[a] # "shown"
    BY <1>10, StatusTyped
  <2>4. Open(a) => run[x].only
    BY <1>0, <1>1 DEF IInv, RunFits, Careful
  <2>5. a \notin claimed
    BY <1>10, <2>3, <2>4 DEF Open
  <2>6. Careful(x)'
    BY <1>1, <2>1, <2>5 DEF Careful, Moves
  <2> QED
    BY <1>0, <1>1, <1>2, <1>3, <1>4, <2>1, <2>2, <2>6, OwnCalm DEF Reserved
<1> QED
  BY <1>6, <1>7, <1>8, <1>9, <1>10

\* An answer without doubt is a refusal.
LEMMA DefiniteRefused ==
    ASSUME NEW e \in Answers, Definite(e)
    PROVE  ~(e = NoError \/ e.uncertain \/ e.already)
<1>1. DOMAIN e = {"retryable", "uncertain", "already"}
  <2>1. e \in CallErrors
    BY DEF Definite
  <2>2. \A c \in CallErrors : DOMAIN c = {"retryable", "uncertain", "already"}
    BY DEF CallErrors
  <2> QED
    BY <2>1, <2>2
<1>2. DOMAIN NoError = {"retryable", "uncertain", "already", "success"}
  BY DEF NoError
<1>3. e # NoError
  <2>1. "success" \notin {"retryable", "uncertain", "already"}
    OBVIOUS
  <2> QED
    BY <1>1, <1>2, <2>1
<1> QED
  BY <1>3 DEF Definite

LEMMA StepClaim ==
    ASSUME IInv, NEW x \in Runs, Claim(x)
    PROVE  IInv'
<1>0. PICK a \in Accounts : a = run[x].acc
  BY DEF IInv, TypeOK, RunRecords
<1>1. /\ TypeOK /\ run[x] \in RunRecords /\ run[x].pc = "claim" /\ run \in [Runs -> RunRecords]
      /\ UNCHANGED <<now, listed, paused, auto, acts, mutex, tried, latest, inFlight, held, loop>>
      /\ upstream \in [Accounts -> {"none", "granted", "shown"}]
      /\ late \subseteq Accounts /\ claimed \subseteq Accounts
  BY DEF IInv, TypeOK, Claim
<1>2. run[x].pc \in Reserved \ {"mode"}
  BY <1>1 DEF Reserved
<1>3. a \notin claimed
  BY <1>0, <1>1 DEF IInv, RunFits, Careful
<1>4. PICK e \in Answers :
        /\ IF Definite(e)
           THEN Ends(x, Failed)
           ELSE run' = [run EXCEPT ![x].pc = "verify", ![x].answer = e]
        /\ IF e = NoError \/ e.uncertain
           THEN \/ UNCHANGED <<upstream, late>>
                \/ upstream[a] = "none" /\ upstream' = [upstream EXCEPT ![a] = "granted"]
                   /\ UNCHANGED late
                \/ late' = late \cup {a} /\ UNCHANGED upstream
           ELSE UNCHANGED <<upstream, late>>
        /\ claimed' = IF e = NoError \/ e.uncertain \/ e.already THEN claimed \cup {a}
                                                               ELSE claimed
  BY <1>0 DEF Claim
<1>5. /\ upstream' \in [Accounts -> {"none", "granted", "shown"}] /\ late' \subseteq Accounts
      /\ \A b \in Accounts \ {a} : upstream'[b] = upstream[b]
  <2>1. CASE UNCHANGED <<upstream, late>>
    BY <1>1, <2>1
  <2>2. CASE upstream' = [upstream EXCEPT ![a] = "granted"] /\ UNCHANGED late
    BY <1>1, <2>2
  <2>3. CASE late' = late \cup {a} /\ UNCHANGED upstream
    BY <1>1, <2>3
  <2> QED
    BY <1>4, <2>1, <2>2, <2>3
<1>6. /\ claimed' \subseteq Accounts /\ \A b \in Accounts \ {a} : b \in claimed' <=> b \in claimed
      /\ a \in claimed' => Sent(e)
  BY <1>1, <1>3, <1>4 DEF Sent
<1>7. SharedKept(a)
  BY <1>1, <1>5, <1>6 DEF SharedKept, Kept
<1>8. CASE Definite(e)
  <2>1. Ends(x, Failed) /\ Failed \in Results
    BY <1>4, <1>8 DEF Failed, Result, Results
  <2>2. PICK q \in RunRecords : /\ Moves(x, q) /\ q.pc = "record" /\ q.acc = a
                                /\ q.src = run[x].src /\ q.res = Failed
    BY <1>0, <1>1, <2>1, EndsEffect
  <2>3. TypeOK'
    BY <1>1, <1>5, <1>6, <2>2, MovesTyped DEF TypeOK
  <2>4. a \notin claimed'
    BY <1>6, <1>8, DefiniteRefused DEF Sent
  <2>5. Careful(x)' /\ Guarded(a)'
    BY <2>2, <2>4 DEF Careful, Guarded, Open, Moves
  <2> QED
    BY <1>0, <1>1, <1>2, <1>7, <2>2, <2>3, <2>5, OwnCalm DEF Reserved
<1>9. CASE ~Definite(e)
  <2>1. PICK b \in RunRecords : b = [run[x] EXCEPT !.pc = "verify"]
    BY <1>1 DEF RunRecords, Pcs
  <2>2. PICK q \in RunRecords : q = [b EXCEPT !.answer = e]
    BY <2>1 DEF RunRecords
  <2>3. q.pc = "verify" /\ q.acc = a /\ q.src = run[x].src /\ q.answer = e
    BY <1>0, <1>1, <2>1, <2>2 DEF RunRecords
  <2>4. run' = [run EXCEPT ![x] = q]
    BY <1>1, <1>4, <1>9, <2>1, <2>2
  <2>5. Moves(x, q)
    BY <1>1, <2>4 DEF Moves
  <2>6. TypeOK'
    BY <1>1, <1>5, <1>6, <2>5, MovesTyped DEF TypeOK
  <2>7. Careful(x)'
    BY <2>3, <2>5 DEF Careful, Moves
  <2>8. Guarded(a)'
    <3>1. a \in claimed' => run'[x].acc = a /\ Carries(x)'
      BY <1>6, <2>3, <2>5 DEF Carries, Moves
    <3> QED
      BY <3>1 DEF Guarded, Open
  <2> QED
    BY <1>0, <1>1, <1>2, <1>7, <2>3, <2>5, <2>6, <2>7, <2>8, OwnCalm DEF Reserved
<1> QED
  BY <1>8, <1>9

LEMMA StepVerify ==
    ASSUME IInv, NEW x \in Runs, Verify(x)
    PROVE  IInv'
<1>0. PICK a \in Accounts : a = run[x].acc
  BY DEF IInv, TypeOK, RunRecords
<1>1. /\ TypeOK /\ run[x] \in RunRecords /\ run[x].pc = "verify"
      /\ UNCHANGED <<now, world, upstream, claimed, tried, latest, inFlight, held, loop>>
  BY DEF IInv, TypeOK, Verify
<1>2. run[x].pc \in Reserved \ {"mode"}
  BY <1>1 DEF Reserved
<1>3. /\ SharedKept(a) /\ (Open(a)' <=> Open(a))
  BY <1>1 DEF SharedKept, Kept, Open
<1>4. PICK e \in Answers : e = run[x].answer
  BY <1>1 DEF RunRecords
<1>5. PICK s \in StatusAnswers(a) : Ends(x, verified(e, s))
  BY <1>0, <1>4 DEF Verify
<1>6. PICK res \in Results : /\ res = verified(e, s)
                             /\ res.confirmed => upstream[a] = "shown"
                             /\ Sent(e) /\ upstream[a] # "shown" => res.only /\ ~res.confirmed
  BY VerifiedEffect
<1>7. PICK q \in RunRecords : /\ Moves(x, q) /\ q.pc = "record" /\ q.acc = a
                              /\ q.src = run[x].src /\ q.res = res
  BY <1>0, <1>1, <1>5, <1>6, EndsEffect
<1>8. TypeOK'
  BY <1>1, <1>7, MovesTyped DEF TypeOK, world
<1>9. Careful(x)'
  BY <1>3, <1>6, <1>7 DEF Careful, Moves, Open
<1>10. Guarded(a)'
  <2>1. CASE Carries(x) /\ Open(a)
    <3>1. Sent(e)
      BY <1>1, <1>4, <2>1 DEF Carries
    <3>2. res.only /\ ~res.confirmed
      BY <1>6, <2>1, <3>1 DEF Open
    <3>3. run'[x].acc = a /\ Carries(x)'
      BY <1>7, <3>2 DEF Carries, Moves
    <3> QED
      BY <3>3 DEF Guarded
  <2>2. CASE ~Carries(x) /\ Open(a)
    <3>1. Remembered(a)
      BY <1>0, <1>2, <2>2, InStore
    <3>2. Remembered(a)'
      BY <1>1, <3>1 DEF Remembered, Today
    <3> QED
      BY <3>2 DEF Guarded
  <2>3. CASE ~Open(a)
    BY <1>3, <2>3 DEF Guarded
  <2> QED
    BY <2>1, <2>2, <2>3
<1> QED
  BY <1>0, <1>1, <1>2, <1>3, <1>7, <1>8, <1>9, <1>10, OwnCalm DEF Reserved

LEMMA StepRecord ==
    ASSUME IInv, NEW x \in Runs, Record(x)
    PROVE  IInv'
<1>0. PICK a \in Accounts : a = run[x].acc
  BY DEF IInv, TypeOK, RunRecords
<1>1. /\ TypeOK /\ run[x] \in RunRecords /\ run[x].pc = "record" /\ StoreFits /\ Today' = Today
      /\ UNCHANGED <<now, world, upstream, claimed, tried, loop>>
      /\ latest \in [Accounts -> Records \cup {Absent}] /\ inFlight' = inFlight \ {a} /\ Leaves(x)
  BY <1>0 DEF IInv, TypeOK, Record, Today
<1>2. run[x].pc \in Reserved /\ run[x].pc # "idle"
  BY <1>1 DEF Reserved
<1>3. /\ a \in inFlight /\ latest[a] # Absent /\ latest[a] \in Records /\ Alone(x, a)
      /\ \A y \in Runs : Retries(y, a) => y = x
      /\ \A y \in Runs : run[y].acc = a /\ Carries(y) => y = x
  BY <1>0, <1>2, AdmittedRun
<1>4. PICK src \in Sources : src = run[x].src
  BY <1>1 DEF RunRecords
<1>5. PICK res \in Results : res = run[x].res
  BY <1>1 DEF RunRecords
<1>6. Retries(x, a) <=> src = "retry"
  BY <1>0, <1>1, <1>4 DEF Retries, Reserved
<1>7. src = "retry" => latest[a].count < Len(RetryDelays)
  <2>1. RetryFits(x)
    BY DEF IInv, RunFits
  <2> QED
    BY <1>6, <2>1 DEF RetryFits
<1>8. PICK r \in Records :
        /\ r = record(latest[a], src, res) /\ r.day = Today
        /\ r.allowed => r.count < Len(RetryDelays)
        /\ r.count = IF latest[a].day # Today THEN 0
                     ELSE IF src = "retry" THEN latest[a].count + 1 ELSE latest[a].count
        /\ r.only <=> (res.only \/ (latest[a].day = Today /\ latest[a].only /\ ~res.confirmed))
        /\ r.confirmed = res.confirmed
  BY <1>1, <1>3, <1>7, RecordEffect
<1>9. latest' = [latest EXCEPT ![a] = r]
  BY <1>0, <1>3, <1>4, <1>5, <1>8 DEF Record, stored
<1>10. r # Absent
  BY <1>1, RecordsTyped
<1>11. /\ latest' \in [Accounts -> Records \cup {Absent}] /\ latest'[a] = r
       /\ \A b \in Accounts \ {a} : latest'[b] = latest[b]
  BY <1>1, <1>9
<1>12. Known(latest') = Known(latest)
  BY <1>3, <1>10, <1>11 DEF Known
<1>13. StoreFits' /\ SharedKept(a)
  BY <1>1, <1>11, <1>12 DEF StoreFits, SharedKept, Kept
<1>14. Moves(x, Idle) /\ Idle.pc = "idle" /\ Idle \in RunRecords
  BY <1>1, LeavesEffect, IdleTyped DEF Leaves
<1>15. TypeOK'
  <2>1. held' \subseteq Accounts \X (0..MaxMutex) /\ inFlight' \subseteq Accounts
    BY <1>1 DEF TypeOK, Leaves
  <2> QED
    BY <1>1, <1>11, <1>14, <2>1, MovesTyped DEF TypeOK, world
<1>16. Affordable(a)'
  BY <1>8, <1>11 DEF Affordable
<1>17. Counted(a)'
  <2>1. tried[a] \in Nat /\ latest[a].count \in Nat /\ r.count \in Nat
    <3>1. Len(RetryDelays) \in Nat
      BY CheckinConstants
    <3>2. \A rec \in Records : rec.count \in Nat
      BY <3>1 DEF Records
    <3> QED
      BY <1>1, <1>3, <3>2 DEF TypeOK
  <2>2. Counted(a)
    BY DEF IInv, AccountFits
  <2>3. (\E y \in Runs : Retries(y, a)) => src = "retry"
    BY <1>3, <1>6
  <2>4. tried[a] <= r.count
    BY <1>3, <1>8, <2>1, <2>2, <2>3 DEF Counted
  <2>5. \A y \in Runs : ~Retries(y, a)'
    <3>1. \A y \in Runs \ {x} : ~Retries(y, a)'
      BY <1>3, <1>14 DEF Moves, Retries
    <3>2. ~Retries(x, a)'
      BY <1>14 DEF Moves, Retries, Reserved
    <3> QED
      BY <3>1, <3>2
  <2>6. tried'[a] = tried[a] /\ latest'[a] # Absent /\ latest'[a].day = Today' /\ latest'[a].count = r.count
    BY <1>1, <1>8, <1>10, <1>11
  <2> QED
    BY <2>1, <2>4, <2>5, <2>6 DEF Counted
<1>18. Guarded(a)'
  <2>1. Open(a)' <=> Open(a)
    BY <1>1 DEF Open
  <2>2. ASSUME Open(a)
        PROVE  r.only /\ ~r.confirmed
    <3>1. ~res.confirmed
      BY <1>0, <1>1, <1>5, <2>2 DEF IInv, RunFits, Careful
    <3>2. Remembered(a) \/ Carries(x)
      BY <1>3, <2>2 DEF IInv, AccountFits, Guarded
    <3>3. Carries(x) => res.only
      BY <1>1, <1>5 DEF Carries
    <3> QED
      BY <1>8, <3>1, <3>2, <3>3 DEF Remembered
  <2>3. Open(a) => Remembered(a)'
    BY <1>1, <1>8, <1>10, <1>11, <2>2 DEF Remembered
  <2> QED
    BY <2>1, <2>3 DEF Guarded
<1>19. AccountFits(a)'
  BY <1>16, <1>17, <1>18 DEF AccountFits
<1>20. Idle.pc \notin Reserved
  BY <1>14 DEF Reserved
<1> QED
  BY <1>0, <1>1, <1>2, <1>3, <1>13, <1>14, <1>15, <1>19, <1>20, OwnStep

\* A table in which some records have lost their retry.
LEMMA Cancelled ==
    ASSUME TypeOK, NEW A \in SUBSET Known(latest),
           latest' = [b \in Accounts |-> IF b \in A THEN Dropped(latest[b]) ELSE latest[b]]
    PROVE  /\ latest' \in [Accounts -> Records \cup {Absent}]
           /\ Known(latest') = Known(latest) /\ \A b \in Accounts : Kept(latest', b)
<1>1. \A b \in A : latest[b] # Absent /\ latest[b] \in Records
  BY RecordsTyped DEF Known
<1>2. \A b \in A : Dropped(latest[b]) \in Records /\ Dropped(latest[b]) # Absent
  <2>1. Absent \notin Records
    BY DEF Absent, Records
  <2> QED
    BY <1>1, <2>1, DroppedTyped
<1>3. latest \in [Accounts -> Records \cup {Absent}]
  BY DEF TypeOK
<1>4. latest' \in [Accounts -> Records \cup {Absent}]
  BY <1>2, <1>3
<1>5. \A b \in Accounts : latest'[b] = IF b \in A THEN Dropped(latest[b]) ELSE latest[b]
  OBVIOUS
<1>6. Known(latest') = Known(latest)
  BY <1>1, <1>2, <1>5 DEF Known
<1>7. \A b \in Accounts : Kept(latest', b)
  BY <1>1, <1>5 DEF Kept
<1> QED
  BY <1>4, <1>6, <1>7

LEMMA StepSweep ==
    ASSUME IInv, NEW nxt \in Nat, SweepDue(nxt), Quiet,
           UNCHANGED <<now, world, upstream, claimed, tried, inFlight, held, run>>
    PROVE  IInv'
<1> DEFINE A == {b \in Known(latest) : Stale(b)}
<1>1. A \in SUBSET Known(latest) /\ TypeOK
  BY DEF IInv
<1>2. latest' = [b \in Accounts |-> IF b \in A THEN Dropped(latest[b]) ELSE latest[b]]
  BY DEF SweepDue, withoutStale
<1> HIDE DEF A
<1>3. /\ latest' \in [Accounts -> Records \cup {Absent}]
      /\ Known(latest') = Known(latest) /\ \A b \in Accounts : Kept(latest', b)
  BY <1>1, <1>2, Cancelled
<1>4. PICK d \in SUBSET Accounts : d = due
  BY DEF due, Known
<1>5. loop' = [pc |-> IF d = {} THEN "sleep" ELSE "list", next |-> nxt, due |-> d]
  BY <1>4 DEF SweepDue
<1>6. loop' \in Loops
  BY <1>5 DEF Loops
<1>7. TypeOK'
  BY <1>1, <1>3, <1>6 DEF TypeOK, world
<1>8. TimerWaits' /\ SameReserved /\ Today' = Today
  BY DEF TimerWaits, Quiet, Active, SameReserved, Today
<1> QED
  BY <1>3, <1>7, <1>8, CalmStep

\* Runs the timer starts, when those before have returned.
LEMMA StartsEffect ==
    ASSUME IInv, Quiet, NEW as \in SUBSET Accounts, NEW src \in Sources, Starts(as, src)
    PROVE  run' \in [Runs -> RunRecords] /\ SameReserved
<1>1. run \in [Runs -> RunRecords] /\ as \subseteq Runs
  BY DEF IInv, TypeOK, Runs
<1>2. \A y \in as : Started(y, src) \in RunRecords /\ Started(y, src).pc = "start"
  BY StartedTyped
<1>3. run' = [y \in Runs |-> IF y \in as THEN Started(y, src) ELSE run[y]]
  BY DEF Starts
<1>4. run' \in [Runs -> RunRecords]
  BY <1>1, <1>2, <1>3
<1>5. SameReserved
  <2> SUFFICES ASSUME NEW y \in Runs, run[y].pc \in Reserved \/ run'[y].pc \in Reserved
               PROVE  run'[y] = run[y]
    BY DEF SameReserved
  <2>1. CASE y \in as
    <3>1. run'[y] = Started(y, src) /\ run'[y].pc = "start"
      BY <1>2, <1>3, <2>1
    <3>2. run[y].pc = "idle"
      BY <2>1 DEF Quiet, Active
    <3> QED
      BY <3>1, <3>2 DEF Reserved
  <2>2. CASE y \notin as
    BY <1>3, <2>2
  <2> QED
    BY <2>1, <2>2
<1> QED
  BY <1>4, <1>5

LEMMA StepLoop ==
    ASSUME IInv, Loop
    PROVE  IInv'
<1>1. /\ TypeOK /\ loop \in Loops /\ loop.next \in Nat /\ loop.due \subseteq Accounts
      /\ listed \subseteq Accounts /\ now \in Nat
  <2>1. TypeOK /\ loop \in Loops /\ listed \subseteq Accounts /\ now \in Nat
    BY CheckinConstants DEF IInv, TypeOK
  <2> QED
    BY <2>1 DEF Loops
<1>2. CASE WakeEarly
  <2>1. Quiet
    BY <1>2 DEF WakeEarly, IInv, TimerWaits
  <2> QED
    BY <1>1, <1>2, <2>1, StepSweep DEF WakeEarly
<1>3. CASE WakeScheduled
  <2>1. Quiet
    BY <1>3 DEF WakeScheduled, IInv, TimerWaits
  <2>2. run' \in [Runs -> RunRecords] /\ SameReserved
    <3>1. CASE Starts(listed, "scheduled")
      BY <1>1, <2>1, <3>1, StartsEffect DEF Sources
    <3>2. CASE run' = run
      BY <1>1, <3>2 DEF TypeOK, SameReserved
    <3> QED
      BY <1>3, <3>1, <3>2 DEF WakeScheduled
  <2>3. loop' \in Loops /\ loop'.pc = "scheduled"
    BY <1>1, <1>3 DEF WakeScheduled, Loops
  <2>4. TypeOK'
    BY <1>1, <1>3, <2>2, <2>3 DEF WakeScheduled, TypeOK, world
  <2>5. TimerWaits' /\ Today' = Today /\ \A b \in Accounts : Kept(latest', b)
    BY <1>3, <2>3 DEF WakeScheduled, TimerWaits, Today, Kept
  <2> QED
    BY <1>3, <2>2, <2>4, <2>5, CalmStep DEF WakeScheduled
<1>4. CASE ScheduledDone
  <2>1. nextCheckinTime(now) \in Nat
    BY <1>1, NextTimeTyped
  <2> QED
    BY <1>4, <2>1, StepSweep DEF ScheduledDone
<1>5. CASE StartRetries
  <2>1. Quiet
    BY <1>5 DEF StartRetries, IInv, TimerWaits
  <2>2. loop.due \cap listed \in SUBSET Accounts /\ "retry" \in Sources
    BY <1>1 DEF Sources
  <2>3. run' \in [Runs -> RunRecords] /\ SameReserved
    BY <1>5, <2>1, <2>2, StartsEffect DEF StartRetries
  <2>4. /\ latest' \in [Accounts -> Records \cup {Absent}]
        /\ Known(latest') = Known(latest) /\ \A b \in Accounts : Kept(latest', b)
    <3> DEFINE A == {b \in Known(latest) : b \in loop.due \ listed}
    <3>1. A \in SUBSET Known(latest)
      OBVIOUS
    <3>2. latest' = [b \in Accounts |-> IF b \in A THEN Dropped(latest[b]) ELSE latest[b]]
      BY <1>5 DEF StartRetries, Known
    <3> HIDE DEF A
    <3> QED
      BY <1>1, <3>1, <3>2, Cancelled
  <2>5. loop' \in Loops /\ loop'.pc = "retries"
    <3>1. PICK l \in Loops : l = [loop EXCEPT !.pc = "retries"]
      BY <1>1 DEF Loops
    <3>2. loop' = [l EXCEPT !.due = {}] /\ l.pc = "retries"
      BY <1>1, <1>5, <3>1 DEF StartRetries, Loops
    <3> QED
      BY <3>1, <3>2 DEF Loops
  <2>6. TypeOK'
    BY <1>1, <1>5, <2>3, <2>4, <2>5 DEF StartRetries, TypeOK, world
  <2>7. TimerWaits' /\ Today' = Today
    BY <1>5, <2>5 DEF StartRetries, TimerWaits, Today
  <2> QED
    BY <1>5, <2>3, <2>4, <2>6, <2>7, CalmStep DEF StartRetries
<1>6. CASE ListFails \/ RetriesDone
  <2>1. Quiet
    BY <1>6 DEF ListFails, RetriesDone, IInv, TimerWaits
  <2>2. loop' \in Loops
    <3>1. PICK l \in Loops : l = [loop EXCEPT !.pc = "sleep"]
      BY <1>1 DEF Loops
    <3>2. loop' = [l EXCEPT !.due = {}] \/ loop' = l
      BY <1>1, <1>6, <3>1 DEF ListFails, RetriesDone, Loops
    <3> QED
      BY <3>1, <3>2 DEF Loops
  <2>3. UNCHANGED <<now, world, upstream, claimed, tried, latest, inFlight, held, run>>
    BY <1>6 DEF ListFails, RetriesDone
  <2>4. TypeOK'
    BY <1>1, <2>2, <2>3 DEF TypeOK, world
  <2>5. TimerWaits' /\ SameReserved /\ Today' = Today /\ \A b \in Accounts : Kept(latest', b)
    BY <2>1, <2>3 DEF TimerWaits, Quiet, Active, SameReserved, Today, Kept
  <2> QED
    BY <2>3, <2>4, <2>5, CalmStep
<1> QED
  BY <1>2, <1>3, <1>4, <1>5, <1>6 DEF Loop

\* At midnight the claims and retries of the day are forgotten, not the runs.
LEMMA StepTick ==
    ASSUME IInv, Tick
    PROVE  IInv'
<1>1. TypeOK /\ now \in Nat /\ MaxNow \in Nat /\ now' = now + 1
  BY CheckinConstants DEF IInv, TypeOK, Tick
<1>2. now' \in Start..MaxNow
  BY <1>1, CheckinConstants DEF Tick, TypeOK
<1>3. DayOf(now + 1) = Today'
  BY <1>1 DEF DayOf, Today
<1>4. CASE DayOf(now + 1) = Today
  <2>1. /\ Today' = Today
        /\ UNCHANGED <<upstream, claimed, tried, world, latest, inFlight, held, run, loop>>
    BY <1>3, <1>4 DEF Tick
  <2>2. TypeOK'
    BY <1>1, <1>2, <2>1 DEF TypeOK, world
  <2> QED
    BY <2>1, <2>2, RunsRest
<1>5. CASE DayOf(now + 1) # Today
  <2>1. /\ UNCHANGED <<world, latest, inFlight, held, run, loop>>
        /\ upstream' = [a \in Accounts |-> "none"] /\ claimed' = {}
        /\ tried' = [a \in Accounts |-> 0]
    BY <1>5 DEF Tick
  <2>2. TypeOK'
    BY <1>1, <1>2, <2>1 DEF TypeOK, world
  <2>3. StoreFits' /\ Exclusive' /\ TimerWaits'
    BY <2>1 DEF IInv, StoreFits, Known, Exclusive, TimerWaits, Quiet, Active
  <2>4. \A a \in Accounts : AccountFits(a)'
    <3> TAKE a \in Accounts
    <3>1. Affordable(a)' /\ Guarded(a)'
      BY <2>1 DEF IInv, AccountFits, Affordable, Guarded, Open
    <3>2. Counted(a)'
      <4>1. tried'[a] = 0
        BY <2>1
      <4>2. latest'[a] # Absent => latest'[a].count \in Nat
        <5>1. latest[a] # Absent => latest[a] \in Records
          BY <1>1, RecordsTyped
        <5>2. \A r \in Records : r.count \in Nat
          BY CheckinConstants DEF Records
        <5> QED
          BY <2>1, <5>1, <5>2
      <4> QED
        BY <4>1, <4>2 DEF Counted
    <3> QED
      BY <3>1, <3>2 DEF AccountFits
  <2>5. \A y \in Runs : RunFits(y)'
    BY <2>1 DEF IInv, RunFits, Admitted, RetryFits, Retries, Careful, Open
  <2> QED
    BY <2>2, <2>3, <2>4, <2>5 DEF IInv
<1> QED
  BY <1>4, <1>5

LEMMA StepOutside ==
    ASSUME IInv,
           Edit \/ \E a \in Accounts : Arrive(a) \/ Show(a) \/ Login(a) \/ pruneCheckinLocks(a)
    PROVE  IInv'
<1>1. /\ TypeOK /\ upstream \in [Accounts -> {"none", "granted", "shown"}]
      /\ mutex \in [Accounts -> 0..MaxMutex] /\ MaxMutex \in Nat /\ MaxActs \in Nat
      /\ acts \in 0..MaxActs /\ listed \subseteq Accounts /\ paused \subseteq Accounts
      /\ late \subseteq Accounts
  BY CheckinConstants DEF IInv, TypeOK
<1>2. /\ UNCHANGED <<now, claimed, tried, latest, inFlight, held, run, loop>>
      /\ Today' = Today
  BY DEF Edit, Arrive, Show, Login, pruneCheckinLocks, world, Today
<1>3. ASSUME upstream' \in [Accounts -> {"none", "granted", "shown"}],
             \A b \in Accounts : upstream[b] = "shown" => upstream'[b] = "shown",
             mutex' \in [Accounts -> 0..MaxMutex], acts' \in 0..MaxActs, auto' \in BOOLEAN,
             listed' \subseteq Accounts, paused' \subseteq Accounts, late' \subseteq Accounts
      PROVE  IInv'
  <2>1. TypeOK'
    BY <1>1, <1>2, <1>3 DEF TypeOK
  <2> QED
    BY <1>2, <1>3, <2>1, RunsRest
<1>4. CASE Edit
  <2>1. acts' \in 0..MaxActs /\ UNCHANGED <<upstream, late, mutex>>
    BY <1>1, <1>4 DEF Edit
  <2>2. auto' \in BOOLEAN /\ listed' \subseteq Accounts /\ paused' \subseteq Accounts
    <3>1. CASE auto' = ~auto /\ UNCHANGED <<listed, paused>>
      BY <1>1, <3>1
    <3>2. ASSUME NEW a \in listed \ Globals,
                 \/ /\ paused' = IF a \in paused THEN paused \ {a} ELSE paused \cup {a}
                    /\ UNCHANGED <<auto, listed>>
                 \/ listed' = listed \ {a} /\ UNCHANGED <<auto, paused>>
          PROVE  auto' \in BOOLEAN /\ listed' \subseteq Accounts /\ paused' \subseteq Accounts
      <4>1. auto \in BOOLEAN
        BY <1>1 DEF TypeOK
      <4> QED
        BY <1>1, <3>2, <4>1
    <3> QED
      BY <1>4, <3>1, <3>2 DEF Edit
  <2> QED
    BY <1>1, <1>3, <2>1, <2>2
<1>5. ASSUME NEW a \in Accounts, Arrive(a) \/ Show(a)
      PROVE  IInv'
  <2>1. PICK v \in {"none", "granted", "shown"} :
            upstream' = [upstream EXCEPT ![a] = v] /\ (upstream[a] = "shown" => v = "shown")
    <3>1. CASE Arrive(a)
      BY <1>1, <3>1 DEF Arrive
    <3>2. CASE Show(a)
      BY <1>1, <3>2 DEF Show
    <3> QED
      BY <1>5, <3>1, <3>2
  <2>2. late' \subseteq Accounts /\ UNCHANGED <<mutex, acts, auto, listed, paused>>
    BY <1>1, <1>5 DEF Arrive, Show, world
  <2>3. /\ upstream' \in [Accounts -> {"none", "granted", "shown"}]
        /\ \A b \in Accounts : upstream[b] = "shown" => upstream'[b] = "shown"
    BY <1>1, <2>1
  <2>4. auto' \in BOOLEAN
    BY <1>1, <2>2 DEF TypeOK
  <2> QED
    BY <1>1, <1>3, <2>2, <2>3, <2>4
<1>6. ASSUME NEW a \in Accounts, Login(a) \/ pruneCheckinLocks(a)
      PROVE  IInv'
  <2>1. UNCHANGED <<paused, auto, acts, late, upstream>>
    BY <1>6 DEF Login, pruneCheckinLocks
  <2>2. listed' \subseteq Accounts /\ mutex' \in [Accounts -> 0..MaxMutex]
    <3>1. CASE Login(a)
      BY <1>1, <3>1 DEF Login
    <3>2. CASE pruneCheckinLocks(a)
      <4>1. PICK n \in 0..MaxMutex : n = mutex[a] + 1
        BY <1>1, <3>2 DEF pruneCheckinLocks
      <4>2. mutex' = [mutex EXCEPT ![a] = n]
        BY <3>2, <4>1 DEF pruneCheckinLocks
      <4> QED
        BY <1>1, <3>2, <4>2 DEF pruneCheckinLocks
    <3> QED
      BY <1>6, <3>1, <3>2
  <2>3. auto' \in BOOLEAN
    BY <1>1, <2>1 DEF TypeOK
  <2> QED
    BY <1>1, <1>3, <2>1, <2>2, <2>3
<1> QED
  BY <1>4, <1>5, <1>6

LEMMA StepStutter ==
    ASSUME IInv, UNCHANGED vars
    PROVE  IInv'
<1>1. TypeOK'
  BY DEF IInv, TypeOK, vars
<1> QED
  BY <1>1, RunsRest DEF vars, Today

LEMMA StepRun ==
    ASSUME IInv, NEW x \in Runs, Run(x)
    PROVE  IInv'
  BY StepLookup, StepEnter, StepMode, StepBundle, StepStatus, StepClaim, StepVerify,
     StepRecord DEF Run

LEMMA InitFits == Init => IInv
<1> SUFFICES ASSUME Init PROVE IInv
  OBVIOUS
<1>1. Start \in Nat /\ MaxMutex \in Nat /\ MaxActs \in Nat /\ Start \in Start..MaxNow /\ Cap \in Nat
  BY CheckinConstants
<1>2. Idle \in RunRecords /\ Idle.pc = "idle"
  BY IdleTyped
<1>3. loop \in Loops
  BY <1>1, NextTimeTyped DEF Init, Loops
<1>4. /\ run = [x \in Runs |-> Idle] /\ latest = [a \in Accounts |-> Absent] /\ inFlight = {}
      /\ claimed = {} /\ tried = [a \in Accounts |-> 0]
  BY DEF Init
<1>5. TypeOK
  BY <1>1, <1>2, <1>3, <1>4 DEF Init, TypeOK
<1>6. Known(latest) = {}
  BY <1>4 DEF Known
<1>7. StoreFits
  BY <1>1, <1>4, <1>6, FS_EmptySet DEF StoreFits
<1>8. \A x \in Runs : run[x].pc = "idle"
  BY <1>2, <1>4
<1>9. Exclusive /\ TimerWaits
  BY <1>8 DEF Exclusive, TimerWaits, Quiet, Active, Reserved, Runs
<1>10. \A a \in Accounts : AccountFits(a)
  BY <1>4 DEF AccountFits, Affordable, Counted, Guarded, Open
<1>11. \A x \in Runs : RunFits(x)
  BY <1>8 DEF RunFits, Admitted, RetryFits, Retries, Careful, Reserved
<1> QED
  BY <1>5, <1>7, <1>9, <1>10, <1>11 DEF IInv

\* The invariant is inductive: every run of every account at any time, and at
\* midnight, leaves the day's claims remembered and its retries counted.
THEOREM CheckinInductive == Spec => []IInv
<1>1. Init => IInv
  BY InitFits
<1>2. IInv /\ [Next]_vars => IInv'
  <2> SUFFICES ASSUME IInv, [Next]_vars PROVE IInv'
    OBVIOUS
  <2>1. ASSUME NEW x \in Runs, Run(x) PROVE IInv'
    BY <2>1, StepRun
  <2>2. ASSUME NEW m \in Manuals, Manual(m) PROVE IInv'
    BY <2>2, StepManual
  <2>3. CASE Loop
    BY <2>3, StepLoop
  <2>4. CASE Tick
    BY <2>4, StepTick
  <2>5. CASE Edit \/ \E a \in Accounts : Arrive(a) \/ Show(a) \/ Login(a) \/ pruneCheckinLocks(a)
    BY <2>5, StepOutside
  <2>6. CASE UNCHANGED vars
    BY <2>6, StepStutter
  <2> QED
    BY <2>1, <2>2, <2>3, <2>4, <2>5, <2>6 DEF Next
<1> QED
  BY <1>1, <1>2, PTL DEF Spec

\* A claim that may have reached the upstream is not sent again on the same day
\* (confirmedCheckinAttempt): while the upstream does not show it, the day's record
\* or the run about to write it says "confirm only" (record, needsConfirmation),
\* that record is never evicted (makeRoomLocked), and the in-flight mark keeps a
\* second run away from the time between the answer and the record (reserve).
THEOREM NoClaimTwice == Spec => NoReplay
<1>1. IInv /\ [Next]_vars => [\A x \in Runs : Claim(x) => run[x].acc \notin claimed]_vars
  <2>1. ASSUME IInv, NEW x \in Runs, Claim(x) PROVE run[x].acc \notin claimed
    BY <2>1 DEF IInv, RunFits, Careful, Claim
  <2> QED
    BY <2>1
<1> QED
  BY <1>1, CheckinInductive, PTL DEF Spec, NoReplay

\* The retries of a day stay within checkinRetryDelays for every account, however
\* manual, scheduled and background runs mix: the record of the day counts those
\* that ended and is protected while it counts any (record, makeRoomLocked), and a
\* retry begins only while the count leaves one (retryMode).
THEOREM RetriesWithinBudget == Spec => []RetryBudget
<1>1. IInv => RetryBudget
  <2> SUFFICES ASSUME IInv, NEW a \in Accounts PROVE tried[a] <= Len(RetryDelays)
    BY DEF RetryBudget
  <2>1. Counted(a) /\ tried[a] \in Nat /\ Len(RetryDelays) \in Nat
    BY CheckinConstants DEF IInv, AccountFits, TypeOK
  <2>2. CASE latest[a] # Absent /\ latest[a].day = Today
    <3>1. latest[a].count \in 0..Len(RetryDelays)
      <4>1. latest[a] \in Records
        BY <2>2, RecordsTyped DEF IInv
      <4> QED
        BY <4>1 DEF Records
    <3>2. CASE \E x \in Runs : Retries(x, a)
      <4>1. latest[a].count < Len(RetryDelays)
        BY <3>2 DEF IInv, RunFits, RetryFits
      <4> QED
        BY <2>1, <2>2, <3>1, <3>2, <4>1 DEF Counted
    <3>3. CASE ~(\E x \in Runs : Retries(x, a))
      BY <2>1, <2>2, <3>1, <3>3 DEF Counted
    <3> QED
      BY <3>2, <3>3
  <2>3. CASE ~(latest[a] # Absent /\ latest[a].day = Today)
    BY <2>1, <2>3 DEF Counted
  <2> QED
    BY <2>2, <2>3
<1> QED
  BY <1>1, CheckinInductive, PTL

\* The store never exceeds its limit, and the room a run reserved is still there
\* when the run records what it knows (reserve, makeRoomLocked, record).
THEOREM RoomIsKept == Spec => []RecordKept
<1>1. IInv => RecordKept
  BY DEF IInv, StoreFits, RecordKept
<1> QED
  BY <1>1, CheckinInductive, PTL
=============================================================================
