------------------------ MODULE OAuthPending_proofs ------------------------
(***************************************************************************)
(* Machine-checked facts about OAuthPending, for every set of logins,      *)
(* polls and contexts, every lifetime, every limit of the directory and    *)
(* any number of restarts.                                                 *)
(***************************************************************************)
EXTENDS OAuthPending, FiniteSetTheorems, TLAPS

(***************************************************************************)
(* The inductive invariant.                                                *)
(***************************************************************************)

\* The records of a login: those its contexts carry, in a table or not any more,
\* and the one on disk.
RecordsOf(s) ==
    {ctx[c].rec : c \in {d \in Ctxs : ctx[d] # None /\ ctx[d].login = s}}
        \cup {d \in {disk[s]} : d # Absent}

\* Every record can be read back, starts in the past, ends with the login until
\* its token is there, and holds a token only once the upstream gave it away.
Fits(s, a) ==
    /\ Valid(a) /\ a.created <= now
    /\ a.stage = Opened => a.expires = a.created + LoginTTL
    /\ up[s] # "fresh"
    /\ a.stage # Opened => up[s] = "consumed"
RecordsFit == \A s \in Logins : \A a \in RecordsOf(s) : Fits(s, a)

\* The records of one login agree on its beginning, and those with a token on its
\* end: the deadline is set once, when the token arrives.
Agree(a, b) ==
    /\ a.created = b.created
    /\ a.stage # Opened /\ b.stage # Opened => a.expires = b.expires
RecordsAgree == \A s \in Logins : \A a, b \in RecordsOf(s) : Agree(a, b)

\* A client was told of a stage the upstream has answered for, and of that end.
ToldRight(s) ==
    told[s].until # 0 =>
        /\ told[s].stage >= Result /\ up[s] = "consumed"
        /\ \A a \in RecordsOf(s) : a.stage # Opened => a.expires = told[s].until

\* Before it starts, a login has reached nothing.
FreshUntouched(s) == up[s] = "fresh" => reached[s] = Opened /\ kept[s] = Opened

OneTable == \A s \in Logins : loginStates[s] = None \/ recent[s] = None

\* The context in the table is ahead of everything else that is known of its login.
MemoryAhead(s) ==
    Held(s) # None =>
        LET n == ctx[Held(s)].rec.stage
        IN  /\ n >= reached[s] /\ n >= kept[s]
            /\ disk[s] # Absent => n >= disk[s].stage
            /\ now < told[s].until => n >= told[s].stage

\* The disk keeps what was acknowledged; without a context that is all there is.
DiskKeeps(s) ==
    /\ Held(s) = None => reached[s] <= kept[s]
    /\ disk[s] # Absent => disk[s].stage >= kept[s]

Durable(s) == now < told[s].until => disk[s] # Absent /\ disk[s].stage >= told[s].stage

\* Where a poll is says what its record holds.
At(pc, n) ==
    /\ pc = "token" => n = Opened
    /\ pc \in {"keep", "account"} => n = Token
    /\ pc = "keepResult" => n \in {Result, Saved}
    /\ pc = "save" => n = Result
    /\ pc = "keepSaved" => n = Saved

\* A poll that waits for a context the table has given up can bring nothing back:
\* the login is over, and if its record is found again then one without a token,
\* and the upstream has given the token away.
Forgotten(s, c) ==
    /\ now >= ctx[c].rec.expires
    /\ disk[s] # Absent /\ now < disk[s].expires => disk[s].stage = Opened /\ up[s] = "consumed"
    /\ Held(s) # None => ctx[Held(s)].rec.stage = Opened /\ up[s] = "consumed"

Checkpointed(p) ==
    poll[p].pc \in {"account", "save"} /\ ctx[poll[p].ctx].store =>
        kept[poll[p].login] >= IF poll[p].pc = "account" THEN Token ELSE Result

PollFits(p) ==
    poll[p].pc # "idle" =>
        /\ poll[p].login \in Logins /\ poll[p].ctx \in Ctxs
        /\ At(poll[p].pc, ctx[poll[p].ctx].rec.stage)
        /\ poll[p].pc \in Holding => poll[p].ctx = Held(poll[p].login)
        /\ poll[p].ctx # Held(poll[p].login) => Forgotten(poll[p].login, poll[p].ctx)
        /\ Checkpointed(p)

Mutex ==
    \A p, q \in Polls :
        poll[p].pc \in Holding /\ poll[q].pc \in Holding /\ poll[p].ctx = poll[q].ctx => p = q

LoginFits(s) ==
    ToldRight(s) /\ FreshUntouched(s) /\ MemoryAhead(s) /\ DiskKeeps(s) /\ Durable(s)

RecordsInv == RecordsFit /\ RecordsAgree

IInv ==
    /\ TypeOK /\ FilesBounded /\ OneTable /\ RecordsInv
    /\ \A s \in Logins : LoginFits(s)
    /\ \A p \in Polls : PollFits(p)
    /\ Mutex

(***************************************************************************)
(* Lemmas about the operators.                                             *)
(***************************************************************************)

\* The records of a login, one by one.
LEMMA InRecordsOf ==
    ASSUME NEW s \in Logins
    PROVE  /\ \A a \in RecordsOf(s) :
                 \/ \E c \in Ctxs : ctx[c] # None /\ ctx[c].login = s /\ a = ctx[c].rec
                 \/ disk[s] # Absent /\ a = disk[s]
           /\ \A c \in Ctxs : ctx[c] # None /\ ctx[c].login = s => ctx[c].rec \in RecordsOf(s)
           /\ disk[s] # Absent => disk[s] \in RecordsOf(s)
  BY DEF RecordsOf

\* Those the type invariant speaks of are records.
LEMMA RecordsTyped ==
    ASSUME TypeOK, NEW s \in Logins
    PROVE  /\ RecordsOf(s) \subseteq Records
           /\ \A c \in Ctxs : ctx[c] # None => ctx[c] \in Contexts /\ ctx[c].rec \in Records
  BY InRecordsOf DEF TypeOK, Contexts

\* A directory with fewer entries is no fuller.
LEMMA FewerFiles ==
    ASSUME NEW d, NEW e, \A s \in Logins : e[s] # Absent => d[s] # Absent
    PROVE  /\ IsFiniteSet(Files(d))
           /\ Cardinality(Files(d)) \in Nat /\ Cardinality(Files(e)) \in Nat
           /\ Cardinality(Files(e)) <= Cardinality(Files(d))
<1>1. IsFiniteSet(Files(d))
  BY OAuthPendingConstants, FS_Subset DEF Files
<1>2. Files(e) \in SUBSET Files(d)
  BY DEF Files
<1>3. IsFiniteSet(Files(e)) /\ Cardinality(Files(e)) <= Cardinality(Files(d))
  BY <1>1, <1>2, FS_Subset
<1> QED
  BY <1>1, <1>3, FS_CardinalityType

\* One more entry makes it fuller by one.
LEMMA OneMoreFile ==
    ASSUME NEW d, NEW e, NEW s \in Logins,
           \A t \in Logins \ {s} : e[t] # Absent => d[t] # Absent,
           d[s] # Absent \/ Cardinality(Files(d)) < MaxFiles,
           Cardinality(Files(d)) <= MaxFiles
    PROVE  Cardinality(Files(e)) <= MaxFiles
<1>1. IsFiniteSet(Files(d)) /\ Cardinality(Files(d)) \in Nat
  BY OAuthPendingConstants, FS_Subset, FS_CardinalityType DEF Files
<1>2. IsFiniteSet(Files(d) \cup {s})
      /\ Cardinality(Files(d) \cup {s})
            = IF s \in Files(d) THEN Cardinality(Files(d)) ELSE Cardinality(Files(d)) + 1
  BY <1>1, FS_AddElement
<1>3. Files(e) \in SUBSET (Files(d) \cup {s})
  BY DEF Files
<1>4. IsFiniteSet(Files(e)) /\ Cardinality(Files(e)) <= Cardinality(Files(d) \cup {s})
        /\ Cardinality(Files(e)) \in Nat
  BY <1>2, <1>3, FS_Subset, FS_CardinalityType
<1>5. s \in Files(d) <=> d[s] # Absent
  BY DEF Files
<1> QED
  BY <1>1, <1>2, <1>4, <1>5, OAuthPendingConstants

\* What removing entries does.
LEMMA WithoutEffect ==
    ASSUME NEW d \in [Logins -> Records], NEW gone
    PROVE  /\ Without(d, gone) \in [Logins -> Records]
           /\ \A s \in Logins : Without(d, gone)[s] = IF s \in gone THEN Absent ELSE d[s]
<1>1. Absent \in Records
  BY DEF Absent, Records, Times, Opened, Saved
<1> QED
  BY <1>1 DEF Without

\* A record goes only when it has expired; a scan does nothing else.
Shrinks(d, e) ==
    /\ e \in [Logins -> Records]
    /\ \A s \in Logins : e[s] = d[s] \/ (e[s] = Absent /\ now >= d[s].expires)

LEMMA ScansEffect ==
    ASSUME NEW d \in [Logins -> Records], NEW e \in Scans(d)
    PROVE  Shrinks(d, e.disk)
<1>1. PICK gone \in SUBSET Expired(d) : e.disk = Without(d, gone)
  BY DEF Scans
<1>2. \A s \in gone : now >= d[s].expires
  BY <1>1 DEF Expired
<1> QED
  BY <1>1, <1>2, WithoutEffect DEF Shrinks

\* A write of login s either stores its record or leaves a scanned directory; when
\* it is acknowledged the record is stored, and the limit is never passed.
LEMMA WritesEffect ==
    ASSUME NEW d \in [Logins -> Records], NEW s \in Logins, NEW r \in Records,
           Cardinality(Files(d)) <= MaxFiles,
           NEW e \in Writes(d, s, r)
    PROVE  /\ e.disk \in [Logins -> Records] /\ e.ok \in BOOLEAN
           /\ \A t \in Logins : \/ e.disk[t] = d[t]
                                \/ e.disk[t] = Absent /\ now >= d[t].expires
                                \/ t = s /\ e.disk[t] = r
           /\ e.ok => e.disk[s] = r /\ Valid(r)
           /\ Cardinality(Files(e.disk)) <= MaxFiles
<1>1. CASE e \in {[disk |-> f.disk, ok |-> FALSE] : f \in Scans(d)}
  <2>1. PICK f \in Scans(d) : e = [disk |-> f.disk, ok |-> FALSE]
    BY <1>1
  <2>2. Shrinks(d, f.disk) /\ e.disk = f.disk /\ e.ok = FALSE
    BY <2>1, ScansEffect
  <2>3. Cardinality(Files(e.disk)) <= Cardinality(Files(d))
          /\ Cardinality(Files(e.disk)) \in Nat /\ Cardinality(Files(d)) \in Nat
    BY <2>2, FewerFiles DEF Shrinks
  <2>4. e.disk \in [Logins -> Records]
          /\ \A t \in Logins : e.disk[t] = d[t] \/ (e.disk[t] = Absent /\ now >= d[t].expires)
    BY <2>2 DEF Shrinks
  <2>5. Cardinality(Files(e.disk)) <= MaxFiles
    BY <2>3, OAuthPendingConstants
  <2>6. e.ok \in BOOLEAN /\ ~e.ok
    BY <2>2
  <2> QED
    BY <2>4, <2>5, <2>6
<1>2. CASE ~(e \in {[disk |-> f.disk, ok |-> FALSE] : f \in Scans(d)})
  <2>1. PICK f \in Scans(d), ok \in BOOLEAN :
           /\ Room(f.disk, s) /\ Valid(r)
           /\ e = [disk |-> [f.disk EXCEPT ![s] = r], ok |-> ok]
    BY <1>2 DEF Writes
  <2>2. Shrinks(d, f.disk)
    BY ScansEffect
  <2>3. e.disk = [f.disk EXCEPT ![s] = r] /\ e.ok \in BOOLEAN
    BY <2>1
  <2>4. Cardinality(Files(f.disk)) <= Cardinality(Files(d))
          /\ Cardinality(Files(f.disk)) \in Nat /\ Cardinality(Files(d)) \in Nat
    BY <2>2, FewerFiles DEF Shrinks
  <2>5. Cardinality(Files(e.disk)) <= MaxFiles
    BY <2>1, <2>2, <2>3, <2>4, OneMoreFile, OAuthPendingConstants DEF Room, Shrinks
  <2>6. /\ e.disk \in [Logins -> Records] /\ e.disk[s] = r
        /\ \A t \in Logins \ {s} : e.disk[t] = f.disk[t]
    BY <2>2, <2>3 DEF Shrinks
  <2>7. \A t \in Logins : f.disk[t] = d[t] \/ (f.disk[t] = Absent /\ now >= d[t].expires)
    BY <2>2 DEF Shrinks
  <2>8. Valid(r)
    BY <2>1
  <2> QED
    BY <2>3, <2>5, <2>6, <2>7, <2>8
<1> QED
  BY <1>1, <1>2

\* A context is free whenever a login without one asks for it: the other logins
\* have at most one each, and the polls one each.
LEMMA NewCtxFree ==
    ASSUME TypeOK, OneTable, NEW s \in Logins, Held(s) = None
    PROVE  /\ NewCtx \in Ctxs
           /\ \A t \in Logins : loginStates[t] # NewCtx /\ recent[t] # NewCtx
           /\ \A p \in Polls : poll[p].ctx # NewCtx
<1> DEFINE others == Logins \ {s}
           f == [t \in others |-> Held(t)]
           g == [p \in Polls |-> poll[p].ctx]
           A == {f[t] : t \in others}
           B == {g[p] : p \in Polls}
<1>1. IsFiniteSet(others) /\ Cardinality(others) = Cardinality(Logins) - 1
  BY OAuthPendingConstants, FS_RemoveElement
<1>2. IsFiniteSet(A) /\ Cardinality(A) <= Cardinality(others)
  <2>1. f \in Surjection(others, A)
    BY DEF Surjection
  <2> QED
    BY <2>1, <1>1, FS_Surjection
<1>3. IsFiniteSet(B) /\ Cardinality(B) <= Cardinality(Polls)
  <2>1. g \in Surjection(Polls, B)
    BY DEF Surjection
  <2> QED
    BY <2>1, OAuthPendingConstants, FS_Surjection
<1>4. \E c \in Ctxs : c \notin A \cup B
  <2> SUFFICES ASSUME Ctxs \subseteq A \cup B PROVE FALSE
    OBVIOUS
  <2>1. /\ IsFiniteSet(A \cup B)
        /\ Cardinality(A \cup B) = Cardinality(A) + Cardinality(B) - Cardinality(A \cap B)
    BY <1>2, <1>3, FS_Union
  <2>2. IsFiniteSet(A \cap B)
    BY <1>2, FS_Intersection
  <2>3. Cardinality(Ctxs) <= Cardinality(A \cup B)
    BY <2>1, FS_Subset
  <2>4. /\ Cardinality(A) \in Nat /\ Cardinality(B) \in Nat /\ Cardinality(A \cap B) \in Nat
        /\ Cardinality(Ctxs) \in Nat /\ Cardinality(Logins) \in Nat /\ Cardinality(Polls) \in Nat
    BY <1>2, <1>3, <2>2, OAuthPendingConstants, FS_CardinalityType
  <2> QED
    BY <1>1, <1>2, <1>3, <2>1, <2>3, <2>4, OAuthPendingConstants
<1>5. PICK c \in Ctxs : c \notin A /\ c \notin B
  BY <1>4
<1>6. \A t \in Logins : loginStates[t] # c /\ recent[t] # c
  <2> SUFFICES ASSUME NEW t \in Logins, loginStates[t] = c \/ recent[t] = c PROVE FALSE
    OBVIOUS
  <2>1. Held(t) = c /\ c # None
    BY OAuthPendingConstants DEF OneTable, Held
  <2>2. t \in others
    BY <2>1
  <2>3. f[t] \in A /\ f[t] = c
    BY <2>1, <2>2
  <2> QED
    BY <2>3, <1>5
<1>7. \A p \in Polls : poll[p].ctx # c
  <2> SUFFICES ASSUME NEW p \in Polls, poll[p].ctx = c PROVE FALSE
    OBVIOUS
  <2>1. g[p] = c /\ g[p] \in B
    OBVIOUS
  <2> QED
    BY <2>1, <1>5
<1> QED
  BY <1>6, <1>7 DEF NewCtx

(***************************************************************************)
(* Steps that leave every login its context, and that context alone.       *)
(***************************************************************************)

\* Time and the upstream only go on.
Onward ==
    /\ now' \in Nat /\ now <= now'
    /\ \A s \in Logins : /\ up[s] # "fresh" => up'[s] # "fresh"
                         /\ up[s] = "consumed" => up'[s] = "consumed"

\* The directory loses expired records and gets those of contexts in the tables,
\* which is what is acknowledged.
MemoryStill ==
    /\ UNCHANGED <<ctx, reached>> /\ Onward
    /\ disk' \in [Logins -> Records]
    /\ \A s \in Logins :
          /\ Held(s)' = Held(s)
          /\ \/ disk'[s] = disk[s]
             \/ disk'[s] = Absent /\ now >= disk[s].expires
             \/ Held(s) # None /\ disk'[s] = ctx[Held(s)].rec
          /\ \/ kept'[s] = kept[s]
             \/ Held(s) # None /\ disk'[s] = ctx[Held(s)].rec /\ kept'[s] = disk'[s].stage

\* What a client is told of is what the disk has, and it may ask until that ends.
Tells(s) ==
    LET r == ctx[Held(s)].rec
    IN  /\ Held(s) # None /\ disk'[s] = r
        /\ told'[s].stage \in {Result, Saved} /\ r.stage >= told'[s].stage
        /\ told'[s].until = r.expires

\* The context a table holds is one of that login, and its record one of the
\* login's records.
LEMMA HeldRecord ==
    ASSUME TypeOK, RecordsInv, NEW s \in Logins, Held(s) # None
    PROVE  /\ Held(s) \in Ctxs /\ ctx[Held(s)] \in Contexts /\ ctx[Held(s)].login = s
           /\ ctx[Held(s)].rec \in RecordsOf(s) /\ ctx[Held(s)].rec \in Records
           /\ Fits(s, ctx[Held(s)].rec)
           /\ ctx[Held(s)].rec # Absent
<1>1. Held(s) \in Ctxs /\ ctx[Held(s)] # None /\ ctx[Held(s)].login = s
  BY DEF TypeOK, Held
<1>2. ctx[Held(s)].rec \in RecordsOf(s) /\ ctx[Held(s)].rec \in Records /\ ctx[Held(s)] \in Contexts
  BY <1>1, InRecordsOf, RecordsTyped
<1>3. Fits(s, ctx[Held(s)].rec)
  BY <1>2 DEF RecordsInv, RecordsFit
<1> QED
  BY <1>1, <1>2, <1>3 DEF Fits, Valid, Absent, Records, Times

\* The same of the context a poll uses.
LEMMA PollRecord ==
    ASSUME TypeOK, RecordsInv, NEW p \in Polls, PollFits(p), poll[p].pc # "idle"
    PROVE  LET s == poll[p].login
               c == poll[p].ctx
           IN  /\ s \in Logins /\ c \in Ctxs /\ ctx[c] \in Contexts /\ ctx[c].login = s
               /\ ctx[c].rec \in RecordsOf(s) /\ ctx[c].rec \in Records
               /\ Fits(s, ctx[c].rec)
<1> DEFINE s == poll[p].login
           c == poll[p].ctx
<1>1. s \in Logins /\ c \in Ctxs /\ ctx[c] # None /\ ctx[c].login = s
  BY DEF TypeOK, PollFits
<1>2. ctx[c].rec \in RecordsOf(s) /\ ctx[c].rec \in Records /\ ctx[c] \in Contexts
  BY <1>1, InRecordsOf, RecordsTyped
<1>3. Fits(s, ctx[c].rec)
  BY <1>1, <1>2 DEF RecordsInv, RecordsFit
<1> QED
  BY <1>1, <1>2, <1>3

\* A step that brings no new record keeps what is said of them.
LEMMA RecordsStep ==
    ASSUME RecordsInv, TypeOK, Onward, \A s \in Logins : RecordsOf(s)' \subseteq RecordsOf(s)
    PROVE  RecordsInv'
<1>1. RecordsFit'
  <2> SUFFICES ASSUME NEW s \in Logins, NEW a \in RecordsOf(s)'
               PROVE  Fits(s, a)'
    BY DEF RecordsFit
  <2>1. a \in RecordsOf(s) /\ Fits(s, a) /\ a \in Records
    BY RecordsTyped DEF RecordsInv, RecordsFit
  <2>2. a.created <= now'
    BY <2>1 DEF Onward, Fits, Records, Times, TypeOK
  <2> QED
    BY <2>1, <2>2 DEF Fits, Onward, Valid
<1>2. RecordsAgree'
  BY DEF RecordsInv, RecordsAgree, Agree
<1> QED
  BY <1>1, <1>2 DEF RecordsInv

LEMMA ToldStep ==
    ASSUME Onward, NEW s \in Logins, ToldRight(s), told'[s] = told[s],
           RecordsOf(s)' \subseteq RecordsOf(s)
    PROVE  ToldRight(s)'
  BY DEF ToldRight, Onward

LEMMA StillRecords ==
    ASSUME TypeOK, RecordsInv, MemoryStill, NEW s \in Logins
    PROVE  RecordsOf(s)' \subseteq RecordsOf(s) /\ Held(s)' = Held(s)
<1>1. Held(s)' = Held(s) /\ ctx' = ctx
  BY DEF MemoryStill
<1>2. disk'[s] # Absent => disk'[s] \in RecordsOf(s)
  BY HeldRecord, InRecordsOf DEF MemoryStill
<1> SUFFICES ASSUME NEW a \in RecordsOf(s)' PROVE a \in RecordsOf(s)
  BY <1>1
<1>3. CASE \E c \in Ctxs : ctx'[c] # None /\ ctx'[c].login = s /\ a = ctx'[c].rec
  BY <1>1, <1>3, InRecordsOf
<1>4. CASE disk'[s] # Absent /\ a = disk'[s]
  BY <1>2, <1>4
<1> QED
  BY <1>3, <1>4 DEF RecordsOf

\* What is known of a login is kept by such a step.
LEMMA StillLogin ==
    ASSUME IInv, MemoryStill, NEW s \in Logins, told'[s] = told[s] \/ Tells(s)
    PROVE  LoginFits(s)'
<1> DEFINE r == ctx[Held(s)].rec
<1>1. /\ TypeOK /\ RecordsInv /\ LoginFits(s) /\ Onward
      /\ ToldRight(s) /\ FreshUntouched(s) /\ MemoryAhead(s) /\ DiskKeeps(s) /\ Durable(s)
  BY DEF IInv, LoginFits, MemoryStill
<1>2. RecordsOf(s)' \subseteq RecordsOf(s) /\ Held(s)' = Held(s) /\ ctx' = ctx /\ reached' = reached
  BY <1>1, StillRecords DEF MemoryStill
<1>4. Held(s) # None => r \in RecordsOf(s) /\ r \in Records /\ Fits(s, r) /\ r # Absent
  BY <1>1, HeldRecord
<1>5. /\ \/ disk'[s] = disk[s]
         \/ disk'[s] = Absent /\ now >= disk[s].expires
         \/ Held(s) # None /\ disk'[s] = r
      /\ \/ kept'[s] = kept[s]
         \/ Held(s) # None /\ disk'[s] = r /\ kept'[s] = r.stage
  BY DEF MemoryStill
<1>6. /\ now \in Nat /\ now' \in Nat /\ now <= now'
      /\ kept[s] \in 0..3 /\ reached[s] \in 0..3
      /\ told[s].stage \in 0..3 /\ told[s].until \in Nat
      /\ disk[s] \in Records /\ disk[s].stage \in 0..3 /\ disk[s].expires \in Nat
      /\ Held(s) # None => r.stage \in 0..3
  BY <1>1, <1>4 DEF TypeOK, Onward, Opened, Saved, Records, Times
<1>3. ToldRight(s)'
  <2>1. CASE told'[s] = told[s]
    BY <1>1, <1>2, <2>1, ToldStep
  <2>2. CASE Tells(s)
    <3>1. /\ Held(s) # None /\ told'[s].stage >= Result /\ r.stage # Opened
          /\ told'[s].until = r.expires
      BY <1>6, <2>2 DEF Tells, Result, Saved, Opened
    <3>2. up[s] = "consumed" /\ up'[s] = "consumed"
      BY <1>1, <1>4, <3>1 DEF Fits, Onward
    <3>3. \A a \in RecordsOf(s)' : a.stage # Opened => a.expires = r.expires
      BY <1>1, <1>2, <1>4, <3>1 DEF RecordsInv, RecordsAgree, Agree
    <3> QED
      BY <3>1, <3>2, <3>3 DEF ToldRight
  <2> QED
    BY <2>1, <2>2
<1>7. FreshUntouched(s)'
  <2>1. up'[s] = "fresh" => up[s] = "fresh"
    BY <1>1 DEF Onward
  <2>2. up[s] = "fresh" => Held(s) = None
    BY <1>4 DEF Fits
  <2> QED
    BY <1>1, <1>2, <1>5, <2>1, <2>2 DEF FreshUntouched
<1>8. MemoryAhead(s)'
  <2>1. now' < told'[s].until /\ Held(s) # None => r.stage >= told'[s].stage
    BY <1>1, <1>6 DEF MemoryAhead, Tells
  <2> QED
    BY <1>1, <1>2, <1>5, <1>6, <2>1 DEF MemoryAhead, Absent, Opened
<1>9. DiskKeeps(s)'
  BY <1>1, <1>2, <1>4, <1>5, <1>6 DEF DiskKeeps, MemoryAhead
<1>10. Durable(s)'
  <2>4. CASE Tells(s)
    BY <1>4, <2>4 DEF Tells, Durable
  <2> SUFFICES ASSUME now' < told[s].until, told'[s] = told[s]
               PROVE  disk'[s] # Absent /\ disk'[s].stage >= told[s].stage
    BY <2>4 DEF Durable
  <2>1. /\ now < told[s].until /\ told[s].until # 0
        /\ disk[s] # Absent /\ disk[s].stage >= told[s].stage
        /\ Held(s) # None => r.stage >= told[s].stage
    BY <1>1, <1>6 DEF Durable, MemoryAhead
  <2>2. disk[s] \in RecordsOf(s) /\ told[s].stage >= 2
    BY <2>1, <1>1, InRecordsOf DEF ToldRight, Result
  <2>3. disk[s].expires = told[s].until
    BY <1>1, <1>6, <2>1, <2>2 DEF ToldRight, Opened
  <2> QED
    BY <1>4, <1>5, <1>6, <2>1, <2>3
<1> QED
  BY <1>3, <1>7, <1>8, <1>9, <1>10 DEF LoginFits

\* So is what is known of a poll that stays where it is.
LEMMA StillPoll ==
    ASSUME IInv, MemoryStill, NEW q \in Polls, poll'[q] \in {poll[q], Idle}
    PROVE  PollFits(q)'
<1>1. CASE poll'[q] = Idle
  BY <1>1 DEF PollFits, Idle
<1>2. CASE poll'[q] = poll[q] /\ poll[q].pc # "idle"
  <2>1. TypeOK /\ RecordsInv /\ PollFits(q) /\ Onward /\ Mutex
    BY DEF IInv, MemoryStill
  <2>0. PICK s \in Logins, c \in Ctxs : s = poll[q].login /\ c = poll[q].ctx
    BY <1>2, <2>1, PollRecord
  <2> DEFINE r == ctx[c].rec
             h == ctx[Held(s)].rec
  <2>2. r \in Records /\ Fits(s, r)
    BY <1>2, <2>0, <2>1, PollRecord
  <2>3. Held(s)' = Held(s) /\ ctx' = ctx
    BY <2>1, <2>2, StillRecords DEF MemoryStill
  <2>4. /\ At(poll[q].pc, r.stage)
        /\ poll[q].pc \in Holding => c = Held(s)
        /\ c # Held(s) => Forgotten(s, c)
        /\ Checkpointed(q)
    BY <1>2, <2>0, <2>1 DEF PollFits
  <2>5. /\ now \in Nat /\ now' \in Nat /\ now <= now' /\ kept[s] \in 0..3
        /\ r.expires \in Nat /\ r.stage \in 0..3
        /\ disk[s].expires \in Nat
    BY <2>1, <2>2 DEF TypeOK, Onward, Records, Times, Opened, Saved
  <2>6. /\ \/ disk'[s] = disk[s]
           \/ disk'[s] = Absent
           \/ Held(s) # None /\ disk'[s] = h
        /\ \/ kept'[s] = kept[s]
           \/ Held(s) # None /\ kept'[s] = h.stage
    BY <2>2 DEF MemoryStill
  <2>7. Checkpointed(q)'
    <3> SUFFICES ASSUME poll[q].pc \in {"account", "save"}, ctx[c].store
                 PROVE  kept'[s] >= IF poll[q].pc = "account" THEN Token ELSE Result
      BY <1>2, <2>0, <2>3 DEF Checkpointed
    <3>1. c = Held(s) /\ h = r
      BY <2>4 DEF Holding
    <3> QED
      BY <2>0, <2>4, <2>5, <2>6, <3>1 DEF Checkpointed, At, Token, Result
  <2>8. c # Held(s) => Forgotten(s, c)'
    <3> SUFFICES ASSUME c # Held(s) PROVE Forgotten(s, c)'
      OBVIOUS
    <3>1. Forgotten(s, c) /\ (up[s] = "consumed" => up'[s] = "consumed")
      BY <2>1, <2>2, <2>4 DEF Onward
    <3>2. now' >= ctx[c].rec.expires
      BY <3>1, <2>5 DEF Forgotten
    <3>3. disk'[s] # Absent /\ now' < disk'[s].expires => disk'[s].stage = Opened /\ up'[s] = "consumed"
      BY <3>1, <2>5, <2>6 DEF Forgotten
    <3> QED
      BY <2>3, <3>1, <3>2, <3>3 DEF Forgotten
  <2> QED
    BY <1>2, <2>0, <2>3, <2>4, <2>7, <2>8 DEF PollFits
<1>3. CASE poll'[q] = poll[q] /\ poll[q].pc = "idle"
  BY <1>3 DEF PollFits
<1> QED
  BY <1>1, <1>2, <1>3

\* One poll may move, without taking a mutex.
LEMMA MutexStep ==
    ASSUME Mutex, NEW p \in Polls,
           \A q \in Polls \ {p} : poll'[q] = poll[q],
           poll'[p].pc \in Holding => poll[p].pc \in Holding /\ poll'[p].ctx = poll[p].ctx
    PROVE  Mutex'
  BY DEF Mutex

LEMMA StillInv ==
    ASSUME IInv, MemoryStill, TypeOK', FilesBounded', OneTable', Mutex',
           \A q \in Polls : poll'[q] \in {poll[q], Idle} \/ PollFits(q)',
           \A s \in Logins : told'[s] = told[s] \/ Tells(s)
    PROVE  IInv'
<1>1. TypeOK /\ RecordsInv /\ Onward
  BY DEF IInv, MemoryStill
<1>2. RecordsInv'
  BY <1>1, StillRecords, RecordsStep
<1>3. \A q \in Polls : PollFits(q)'
  BY StillPoll
<1>4. \A s \in Logins : LoginFits(s)'
  BY StillLogin
<1> QED
  BY <1>2, <1>3, <1>4 DEF IInv

(***************************************************************************)
(* The moves of a poll.                                                    *)
(***************************************************************************)
PollRecords == [pc: {"idle", "waiting"} \cup Holding, login: Logins \cup {None},
                ctx: Ctxs \cup {None}]

\* A poll goes on: its login and its context stay.
LEMMA GoEffect ==
    ASSUME TypeOK, NEW p \in Polls, NEW pc \in Holding, Go(p, pc)
    PROVE  /\ poll' \in [Polls -> PollRecords]
           /\ poll'[p].pc = pc /\ poll'[p].login = poll[p].login /\ poll'[p].ctx = poll[p].ctx
           /\ \A q \in Polls \ {p} : poll'[q] = poll[q]
<1>1. poll \in [Polls -> PollRecords] /\ poll[p] \in PollRecords
  BY DEF TypeOK, PollRecords
<1>2. [poll[p] EXCEPT !.pc = pc] \in PollRecords
  BY <1>1 DEF PollRecords
<1>3. poll' = [poll EXCEPT ![p] = [poll[p] EXCEPT !.pc = pc]]
  BY <1>1 DEF Go
<1> QED
  BY <1>1, <1>2, <1>3 DEF PollRecords

\* A poll returns.
LEMMA ReturnEffect ==
    ASSUME TypeOK, NEW p \in Polls, Return(p)
    PROVE  /\ poll' \in [Polls -> PollRecords]
           /\ poll'[p] = Idle /\ poll'[p].pc = "idle"
           /\ \A q \in Polls \ {p} : poll'[q] = poll[q]
<1>1. poll \in [Polls -> PollRecords] /\ Idle \in PollRecords /\ Idle.pc = "idle"
  BY DEF TypeOK, PollRecords, Idle
<1> QED
  BY <1>1 DEF Return

\* In a step that leaves the contexts alone the types hold on if the values do.
LEMMA TypeStep ==
    ASSUME TypeOK,
           now' \in 0..MaxNow, crashes' = crashes,
           up' \in [Logins -> {"fresh", "refused", "open", "authorised", "consumed"}],
           UNCHANGED <<loginStates, recent, ctx, reached>>,
           disk' \in [Logins -> Records], store' \in BOOLEAN, initErr' \in BOOLEAN,
           kept' \in [Logins -> Opened..Saved],
           told' \in [Logins -> [stage: Opened..Saved, until: Times]],
           poll' \in [Polls -> PollRecords],
           \A q \in Polls :
              \/ poll'[q] = poll[q] \/ poll'[q].pc = "idle"
              \/ ctx[poll'[q].ctx] # None /\ ctx[poll'[q].ctx].login = poll'[q].login
    PROVE  TypeOK'
<1>1. \A q \in Polls : poll'[q].pc # "idle" =>
         ctx'[poll'[q].ctx] # None /\ ctx'[poll'[q].ctx].login = poll'[q].login
  BY DEF TypeOK
<1>2. \A s \in Logins, c \in Ctxs : loginStates'[s] = c \/ recent'[s] = c => ctx'[c] # None /\ ctx'[c].login = s
  BY DEF TypeOK
<1> QED
  BY <1>1, <1>2 DEF TypeOK, PollRecords

\* A poll that holds its context goes on to where its record lets it.
LEMMA GoFits ==
    ASSUME IInv, MemoryStill, NEW p \in Polls, poll[p].pc \in Holding,
           NEW pc \in Holding, Go(p, pc), At(pc, ctx[poll[p].ctx].rec.stage),
           pc \in {"account", "save"} /\ ctx[poll[p].ctx].store =>
               kept'[poll[p].login] >= IF pc = "account" THEN Token ELSE Result
    PROVE  /\ PollFits(p)' /\ Mutex'
           /\ poll' \in [Polls -> PollRecords]
           /\ \A q \in Polls : \/ poll'[q] = poll[q]
                               \/ ctx[poll'[q].ctx] # None /\ ctx[poll'[q].ctx].login = poll'[q].login
           /\ \A q \in Polls \ {p} : poll'[q] = poll[q]
<1>1. TypeOK /\ RecordsInv /\ PollFits(p) /\ Mutex /\ poll[p].pc # "idle"
  BY DEF IInv, Holding
<1>2. /\ poll' \in [Polls -> PollRecords]
      /\ poll'[p].pc = pc /\ poll'[p].login = poll[p].login /\ poll'[p].ctx = poll[p].ctx
      /\ \A q \in Polls \ {p} : poll'[q] = poll[q]
  BY <1>1, GoEffect
<1>3. PICK s \in Logins, c \in Ctxs : s = poll[p].login /\ c = poll[p].ctx
  BY <1>1 DEF PollFits
<1>4. Held(s)' = Held(s) /\ ctx' = ctx /\ c = Held(s) /\ ctx[c] # None /\ ctx[c].login = s
  BY <1>1, <1>3 DEF MemoryStill, PollFits, TypeOK
<1>5. PollFits(p)'
  BY <1>2, <1>3, <1>4 DEF PollFits, Checkpointed
<1>6. Mutex'
  BY <1>1, <1>2, MutexStep
<1> QED
  BY <1>2, <1>3, <1>4, <1>5, <1>6

\* A poll that returns is out of the way.
LEMMA ReturnFits ==
    ASSUME TypeOK, Mutex, NEW p \in Polls, Return(p)
    PROVE  /\ \A q \in Polls : poll'[q] \in {poll[q], Idle}
           /\ poll' \in [Polls -> PollRecords] /\ Mutex'
           /\ \A q \in Polls : poll'[q] = poll[q] \/ poll'[q].pc = "idle"
<1>1. /\ poll' \in [Polls -> PollRecords]
      /\ poll'[p] = Idle /\ poll'[p].pc = "idle"
      /\ \A q \in Polls \ {p} : poll'[q] = poll[q]
  BY ReturnEffect
<1>2. Mutex'
  BY <1>1, MutexStep DEF Holding
<1> QED
  BY <1>1, <1>2

\* What persistOAuthPending does with context c when the outcome of the write is e.
Persists(c, e) ==
    /\ e \in IF c.store THEN Writes(disk, c.login, c.rec) ELSE {[disk |-> disk, ok |-> TRUE]}
    /\ disk' = e.disk
    /\ kept' = [kept EXCEPT ![c.login] = IF e.ok /\ c.store THEN c.rec.stage ELSE @]

\* An outcome of persistOAuthPending: what it writes is the record of the context
\* the table holds, and it acknowledges no more than it has written.
LEMMA PersistEffect ==
    ASSUME IInv, NEW p \in Polls, poll[p].pc \in Holding,
           UNCHANGED <<loginStates, recent, ctx, reached>>, Onward,
           NEW s, s = poll[p].login, NEW c, c = ctx[poll[p].ctx],
           NEW e, Persists(c, e)
    PROVE  /\ MemoryStill /\ FilesBounded' /\ OneTable' /\ e.ok \in BOOLEAN
           /\ s \in Logins /\ c.login = s /\ c \in Contexts /\ Held(s) # None /\ c = ctx[Held(s)]
           /\ disk' \in [Logins -> Records]
           /\ kept' \in [Logins -> Opened..Saved]
           /\ e.ok /\ c.store => disk'[s] = c.rec /\ kept'[s] = c.rec.stage
           /\ At(poll[p].pc, c.rec.stage)
<1>1. /\ TypeOK /\ RecordsInv /\ PollFits(p) /\ FilesBounded /\ OneTable /\ poll[p].pc # "idle"
      /\ MaxFiles \in Nat
  BY OAuthPendingConstants DEF IInv, Holding
<1>2. /\ s \in Logins /\ poll[p].ctx \in Ctxs /\ c \in Contexts /\ c.login = s /\ c.rec \in Records
      /\ Fits(s, c.rec) /\ poll[p].ctx = Held(s) /\ At(poll[p].pc, c.rec.stage)
  BY <1>1, PollRecord DEF PollFits
<1>3. Held(s) # None /\ c = ctx[Held(s)] /\ c.store \in BOOLEAN /\ c.rec.stage \in Opened..Saved
  BY <1>2, OAuthPendingConstants DEF Contexts, Records
<1>4. /\ e.disk \in [Logins -> Records] /\ e.ok \in BOOLEAN
      /\ \A t \in Logins : \/ e.disk[t] = disk[t]
                           \/ e.disk[t] = Absent /\ now >= disk[t].expires
                           \/ t = s /\ c.store /\ e.disk[t] = c.rec
      /\ e.ok /\ c.store => e.disk[s] = c.rec
      /\ Cardinality(Files(e.disk)) <= MaxFiles
  <2>1. disk \in [Logins -> Records] /\ Cardinality(Files(disk)) <= MaxFiles
    BY <1>1 DEF TypeOK, FilesBounded
  <2>2. CASE c.store
    <3>1. e \in Writes(disk, s, c.rec)
      BY <2>2, <1>2 DEF Persists
    <3> QED
      BY <3>1, <1>2, <2>1, <2>2, WritesEffect
  <2>3. CASE ~c.store
    <3>1. e = [disk |-> disk, ok |-> TRUE]
      BY <2>3 DEF Persists
    <3> QED
      BY <3>1, <2>1, <2>3
  <2> QED
    BY <2>2, <2>3
<1>5. /\ kept' \in [Logins -> Opened..Saved]
      /\ \A t \in Logins : kept'[t] = kept[t]
                            \/ (t = s /\ e.ok /\ c.store /\ kept'[t] = c.rec.stage)
      /\ e.ok /\ c.store => kept'[s] = c.rec.stage
  <2>1. kept \in [Logins -> Opened..Saved]
    BY <1>1 DEF TypeOK
  <2>2. CASE e.ok /\ c.store
    <3>1. kept' = [kept EXCEPT ![s] = c.rec.stage]
      BY <1>2, <2>2 DEF Persists
    <3> QED
      BY <1>2, <1>3, <2>1, <2>2, <3>1
  <2>3. CASE ~(e.ok /\ c.store)
    <3>1. kept' = kept
      BY <1>2, <2>1, <2>3 DEF Persists
    <3> QED
      BY <2>1, <2>3, <3>1
  <2> QED
    BY <2>2, <2>3
<1>6. MemoryStill
  <2>1. \A t \in Logins : Held(t)' = Held(t)
    BY DEF Held
  <2> QED
    BY <1>2, <1>3, <1>4, <1>5, <2>1 DEF MemoryStill, Persists
<1>7. FilesBounded' /\ OneTable'
  BY <1>1, <1>4 DEF FilesBounded, OneTable, Persists
<1> QED
  BY <1>2, <1>3, <1>4, <1>5, <1>6, <1>7 DEF Persists

(***************************************************************************)
(* The directory, the clock and the upstream.                              *)
(***************************************************************************)

\* A step that only takes expired records away.
LEMMA ShrinkStill ==
    ASSUME TypeOK, FilesBounded, OneTable, Onward, Shrinks(disk, disk'),
           UNCHANGED <<loginStates, recent, ctx, reached, kept>>
    PROVE  MemoryStill /\ FilesBounded' /\ OneTable'
<1>1. \A s \in Logins : Held(s)' = Held(s)
  BY DEF Held
<1>2. MemoryStill
  BY <1>1 DEF MemoryStill, Shrinks
<1>3. /\ Cardinality(Files(disk')) <= Cardinality(Files(disk))
      /\ Cardinality(Files(disk)) \in Nat /\ Cardinality(Files(disk')) \in Nat
  BY FewerFiles DEF Shrinks
<1>4. Cardinality(Files(disk')) <= MaxFiles
  BY <1>3, OAuthPendingConstants DEF FilesBounded
<1> QED
  BY <1>2, <1>4 DEF FilesBounded, OneTable

\* Nothing happens to time and the upstream.
LEMMA StandStill ==
    ASSUME TypeOK, now' = now, up' = up
    PROVE  /\ Onward /\ now' \in 0..MaxNow
           /\ up' \in [Logins -> {"fresh", "refused", "open", "authorised", "consumed"}]
  BY DEF Onward, TypeOK

\* Such a step, of everybody but the polls.
LEMMA QuietStep ==
    ASSUME IInv, Onward, Shrinks(disk, disk'), now' \in 0..MaxNow,
           up' \in [Logins -> {"fresh", "refused", "open", "authorised", "consumed"}],
           store' \in BOOLEAN, initErr' \in BOOLEAN,
           UNCHANGED <<loginStates, recent, ctx, reached, kept, told, poll, crashes>>
    PROVE  IInv'
<1>1. TypeOK /\ FilesBounded /\ OneTable /\ Mutex
  BY DEF IInv
<1>2. MemoryStill /\ FilesBounded' /\ OneTable'
  BY <1>1, ShrinkStill
<1>3. TypeOK'
  BY <1>1, TypeStep DEF TypeOK, Shrinks, PollRecords
<1>4. Mutex'
  BY <1>1 DEF Mutex
<1> QED
  BY <1>2, <1>3, <1>4, StillInv

LEMMA SameDisk ==
    ASSUME TypeOK, disk' = disk
    PROVE  Shrinks(disk, disk')
  BY DEF Shrinks, TypeOK

LEMMA ConfigureStep ==
    ASSUME IInv, configureOAuthPending
    PROVE  IInv'
<1>1. TypeOK
  BY DEF IInv
<1>2. UNCHANGED <<now, up, loginStates, recent, ctx, reached, kept, told, poll, crashes>>
  BY DEF configureOAuthPending, memory, history
<1>3. CASE store
  BY <1>1, <1>2, <1>3, SameDisk, StandStill, QuietStep DEF configureOAuthPending, TypeOK
<1>4. CASE ~store
  <2>1. PICK e \in Scans(disk) : disk' = e.disk
    BY <1>4 DEF configureOAuthPending
  <2>2. store' \in BOOLEAN /\ initErr' \in BOOLEAN
    BY <1>4 DEF configureOAuthPending, Scans
  <2>3. Shrinks(disk, disk')
    BY <1>1, <2>1, ScansEffect DEF TypeOK
  <2> QED
    BY <1>1, <1>2, <2>2, <2>3, StandStill, QuietStep
<1> QED
  BY <1>3, <1>4

LEMMA PruneScanStep ==
    ASSUME IInv, PruneScan
    PROVE  IInv'
<1>1. TypeOK
  BY DEF IInv
<1>2. PICK e \in Scans(disk) : disk' = e.disk
  BY DEF PruneScan
<1>3. Shrinks(disk, disk')
  BY <1>1, <1>2, ScansEffect DEF TypeOK
<1>4. /\ UNCHANGED <<now, up, loginStates, recent, ctx, reached, kept, told, poll, crashes>>
      /\ store' \in BOOLEAN /\ initErr' \in BOOLEAN
  BY <1>1 DEF PruneScan, memory, history, TypeOK
<1> QED
  BY <1>1, <1>3, <1>4, StandStill, QuietStep

LEMMA DiscardStep ==
    ASSUME IInv, NEW p \in Polls, NEW s \in Polled, Discard(p, s)
    PROVE  IInv'
<1>1. TypeOK /\ s \in Logins
  BY OAuthPendingConstants DEF IInv
<1>2. Shrinks(disk, disk')
  <2>1. /\ disk' \in [Logins -> Records]
        /\ \A t \in Logins : disk'[t] = IF t \in {s} THEN Absent ELSE disk[t]
    BY <1>1, WithoutEffect DEF Discard, TypeOK
  <2>2. now >= disk[s].expires
    BY DEF Discard
  <2> QED
    BY <2>1, <2>2 DEF Shrinks
<1>3. /\ UNCHANGED <<now, up, loginStates, recent, ctx, reached, kept, told, poll, crashes>>
      /\ store' \in BOOLEAN /\ initErr' \in BOOLEAN
  BY <1>1 DEF Discard, memory, history, TypeOK
<1> QED
  BY <1>1, <1>2, <1>3, StandStill, QuietStep

LEMMA TickStep ==
    ASSUME IInv, Tick
    PROVE  IInv'
<1>1. TypeOK
  BY DEF IInv
<1>2. /\ UNCHANGED <<up, loginStates, recent, ctx, reached, kept, told, poll, crashes, disk>>
      /\ store' \in BOOLEAN /\ initErr' \in BOOLEAN /\ up' \in [Logins -> {"fresh", "refused", "open", "authorised", "consumed"}]
  BY <1>1 DEF Tick, memory, history, TypeOK
<1>3. now' \in 0..MaxNow /\ Onward
  BY <1>1, OAuthPendingConstants DEF Tick, TypeOK, Onward
<1> QED
  BY <1>1, <1>2, <1>3, SameDisk, QuietStep

LEMMA AuthoriseStep ==
    ASSUME IInv, NEW s \in Logins, Authorise(s)
    PROVE  IInv'
<1>1. TypeOK
  BY DEF IInv
<1>2. /\ UNCHANGED <<now, loginStates, recent, ctx, reached, kept, told, poll, crashes, disk>>
      /\ store' \in BOOLEAN /\ initErr' \in BOOLEAN
  BY <1>1 DEF Authorise, memory, history, TypeOK
<1>3. /\ up' \in [Logins -> {"fresh", "refused", "open", "authorised", "consumed"}]
      /\ now' \in 0..MaxNow /\ Onward
  BY <1>1 DEF Authorise, memory, TypeOK, Onward
<1> QED
  BY <1>1, <1>2, <1>3, SameDisk, QuietStep

(***************************************************************************)
(* The polls: taking up a login, and the steps that end in a write.        *)
(***************************************************************************)

\* A poll that moves while the contexts, the disk and the history stay.
LEMMA PollOnlyStep ==
    ASSUME IInv, UNCHANGED <<now, up, loginStates, recent, ctx, disk, store, initErr, crashes,
                             reached, kept, told>>,
           poll' \in [Polls -> PollRecords], Mutex',
           \A q \in Polls : poll'[q] \in {poll[q], Idle} \/ PollFits(q)',
           \A q \in Polls :
              \/ poll'[q] = poll[q] \/ poll'[q].pc = "idle"
              \/ ctx[poll'[q].ctx] # None /\ ctx[poll'[q].ctx].login = poll'[q].login
    PROVE  IInv'
<1>1. TypeOK /\ FilesBounded /\ OneTable
  BY DEF IInv
<1>2. MemoryStill /\ FilesBounded' /\ OneTable'
  BY <1>1, SameDisk, StandStill, ShrinkStill
<1>3. TypeOK'
  <2>1. /\ kept' \in [Logins -> Opened..Saved] /\ store' \in BOOLEAN /\ initErr' \in BOOLEAN
        /\ told' \in [Logins -> [stage: Opened..Saved, until: Times]]
        /\ disk' \in [Logins -> Records]
    BY <1>1 DEF TypeOK
  <2> QED
    BY <1>1, <2>1, StandStill, TypeStep
<1> QED
  BY <1>2, <1>3, StillInv

LEMMA LookupStep ==
    ASSUME IInv, NEW p \in Polls, NEW s \in Polled, Lookup(p, s)
    PROVE  IInv'
<1>1. TypeOK /\ RecordsInv /\ Mutex /\ s \in Logins /\ Held(s) # None
  BY OAuthPendingConstants DEF IInv, Lookup
<1>2. UNCHANGED <<now, up, loginStates, recent, ctx, disk, store, initErr, crashes,
                  reached, kept, told>>
  BY DEF Lookup, memory, history
<1>3. Held(s) \in Ctxs /\ ctx[Held(s)] # None /\ ctx[Held(s)].login = s
  BY <1>1, HeldRecord, NoneIsNoContext
<1> DEFINE new == [pc |-> "waiting", login |-> s, ctx |-> Held(s)]
<1>4. poll \in [Polls -> PollRecords] /\ new \in PollRecords
  BY <1>1, <1>3 DEF TypeOK, PollRecords
<1>5. poll' \in [Polls -> PollRecords] /\ poll'[p] = new /\ \A q \in Polls \ {p} : poll'[q] = poll[q]
  BY <1>4 DEF Lookup
<1>6. /\ poll'[p].pc = "waiting" /\ poll'[p].login = s /\ poll'[p].ctx = Held(s)
      /\ poll'[p].pc \notin Holding
  BY <1>5 DEF Holding
<1>7. PollFits(p)'
  <2>1. Held(s)' = Held(s)
    BY <1>2 DEF Held
  <2> QED
    BY <1>1, <1>3, <1>6, <2>1 DEF PollFits, At, Holding, Checkpointed
<1>8. Mutex'
  BY <1>1, <1>5, <1>6, MutexStep
<1> QED
  BY <1>2, <1>3, <1>5, <1>6, <1>7, <1>8, PollOnlyStep

LEMMA ReturnStep ==
    ASSUME IInv, NEW p \in Polls, Return(p),
           UNCHANGED <<now, up, loginStates, recent, ctx, disk, store, initErr, crashes,
                       reached, kept, told>>
    PROVE  IInv'
<1>1. TypeOK /\ Mutex
  BY DEF IInv
<1> QED
  BY <1>1, ReturnFits, PollOnlyStep

LEMMA AccountUnusableStep ==
    ASSUME IInv, NEW p \in Polls, AccountUnusable(p)
    PROVE  IInv'
  BY ReturnStep DEF AccountUnusable, memory, history

LEMMA SaveFailsStep ==
    ASSUME IInv, NEW p \in Polls, SaveFails(p)
    PROVE  IInv'
  BY ReturnStep DEF SaveFails, memory, history

\* Acquire: nobody holds the context, and its login has not ended.  A context the
\* table has given up has ended, so this one is the table's.
LEMMA AcquireLiveStep ==
    ASSUME IInv, NEW p \in Polls, Acquire(p), now < ctx[poll[p].ctx].rec.expires
    PROVE  IInv'
<1>1. /\ TypeOK /\ RecordsInv /\ Mutex /\ PollFits(p) /\ poll[p].pc = "waiting"
      /\ ~Locked(poll[p].ctx)
  BY DEF IInv, Acquire
<1>2. PICK s \in Logins, c \in Ctxs : s = poll[p].login /\ c = poll[p].ctx
  BY <1>1 DEF PollFits
<1> DEFINE r == ctx[c].rec
<1>3. /\ ctx[c] # None /\ ctx[c].login = s /\ r.stage \in 0..3
      /\ now \in Nat /\ r.expires \in Nat
  BY <1>1, <1>2, PollRecord, NoneIsNoContext DEF Records, Opened, Saved, Times, TypeOK
<1>4. c = Held(s)
  BY <1>1, <1>2, <1>3 DEF PollFits, Forgotten
<1>5. UNCHANGED <<now, up, loginStates, recent, ctx, disk, store, initErr, crashes,
                  reached, kept, told>>
  BY <1>2, <1>3 DEF Acquire, memory, history
<1>6. PICK pc \in {"token", "keep", "keepResult"} : Go(p, pc) /\ At(pc, r.stage)
  <2>1. Go(p, CASE r.stage = Opened -> "token" [] r.stage = Token -> "keep" [] OTHER -> "keepResult")
    BY <1>2, <1>3 DEF Acquire
  <2>2. CASE r.stage = 0
    BY <2>1, <2>2 DEF At, Opened
  <2>3. CASE r.stage = 1
    <3>1. Go(p, "keep")
      BY <2>1, <2>3 DEF Opened, Token
    <3> QED
      BY <3>1, <2>3 DEF At, Token
  <2>4. CASE r.stage \in {2, 3}
    <3>1. Go(p, "keepResult")
      BY <2>1, <2>4 DEF Opened, Token
    <3> QED
      BY <3>1, <2>4 DEF At, Result, Saved
  <2> QED
    BY <1>3, <2>2, <2>3, <2>4
<1>7. /\ poll' \in [Polls -> PollRecords]
      /\ poll'[p].pc = pc /\ poll'[p].login = s /\ poll'[p].ctx = c
      /\ \A q \in Polls \ {p} : poll'[q] = poll[q]
  BY <1>1, <1>2, <1>6, GoEffect DEF Holding
<1>8. PollFits(p)'
  <2>1. Held(s)' = Held(s)
    BY <1>5 DEF Held
  <2> QED
    BY <1>4, <1>5, <1>6, <1>7, <2>1 DEF PollFits, Checkpointed
<1>9. Mutex'
  BY <1>1, <1>2, <1>7 DEF Mutex, Locked
<1> QED
  BY <1>3, <1>5, <1>7, <1>8, <1>9, PollOnlyStep

\* A poll writes its record, and then goes on, tells its client or returns.
LEMMA PersistStep ==
    ASSUME IInv, NEW p \in Polls, poll[p].pc \in Holding,
           UNCHANGED <<now, loginStates, recent, ctx, reached, store, initErr, crashes>>, Onward,
           up' \in [Logins -> {"fresh", "refused", "open", "authorised", "consumed"}],
           NEW s, s = poll[p].login, NEW c, c = ctx[poll[p].ctx],
           NEW e, Persists(c, e),
           \/ Return(p)
           \/ e.ok /\ poll[p].pc = "keep" /\ Go(p, "account")
           \/ e.ok /\ poll[p].pc = "keepResult" /\ c.rec.stage < Saved /\ Go(p, "save"),
           \/ told' = told
           \/ /\ e.ok /\ c.store
              /\ told' \in [Logins -> [stage: Opened..Saved, until: Times]]
              /\ \A t \in Logins \ {s} : told'[t] = told[t]
              /\ told'[s] = told[s] \/ /\ told'[s].stage \in {Result, Saved}
                                        /\ c.rec.stage >= told'[s].stage
                                        /\ told'[s].until = c.rec.expires
    PROVE  IInv'
<1>1. TypeOK /\ RecordsInv /\ Mutex /\ UNCHANGED <<loginStates, recent, ctx, reached>>
  BY DEF IInv
<1>2. /\ MemoryStill /\ FilesBounded' /\ OneTable' /\ e.ok \in BOOLEAN
      /\ s \in Logins /\ c.login = s /\ c \in Contexts /\ Held(s) # None /\ c = ctx[Held(s)]
      /\ disk' \in [Logins -> Records]
      /\ kept' \in [Logins -> Opened..Saved]
      /\ e.ok /\ c.store => disk'[s] = c.rec /\ kept'[s] = c.rec.stage
      /\ At(poll[p].pc, c.rec.stage)
  BY <1>1, PersistEffect
<1>3. \A t \in Logins : told'[t] = told[t] \/ Tells(t)
  BY <1>2 DEF Tells
<1>4. told' \in [Logins -> [stage: Opened..Saved, until: Times]]
  BY <1>1 DEF TypeOK
<1>5. /\ \A q \in Polls : poll'[q] \in {poll[q], Idle} \/ PollFits(q)'
      /\ poll' \in [Polls -> PollRecords] /\ Mutex'
      /\ \A q \in Polls : \/ poll'[q] = poll[q] \/ poll'[q].pc = "idle"
                          \/ ctx[poll'[q].ctx] # None /\ ctx[poll'[q].ctx].login = poll'[q].login
  <2>1. CASE Return(p)
    BY <1>1, <2>1, ReturnFits
  <2>2. CASE e.ok /\ poll[p].pc = "keep" /\ Go(p, "account")
    <3>1. c.rec.stage = Token
      BY <1>2, <2>2 DEF At
    <3>2. At("account", c.rec.stage) /\ "account" \in Holding
      BY <3>1 DEF At, Holding
    <3>3. c.store => kept'[s] >= Token
      BY <1>2, <2>2, <3>1 DEF Token
    <3>4. /\ PollFits(p)' /\ Mutex'
          /\ poll' \in [Polls -> PollRecords]
          /\ \A q \in Polls : \/ poll'[q] = poll[q]
                              \/ ctx[poll'[q].ctx] # None /\ ctx[poll'[q].ctx].login = poll'[q].login
          /\ \A q \in Polls \ {p} : poll'[q] = poll[q]
      BY <1>2, <2>2, <3>2, <3>3, GoFits
    <3> QED
      BY <3>4
  <2>3. CASE e.ok /\ poll[p].pc = "keepResult" /\ c.rec.stage < Saved /\ Go(p, "save")
    <3>1. c.rec.stage = Result
      BY <1>2, <2>3 DEF At, Saved, Result
    <3>2. At("save", c.rec.stage) /\ "save" \in Holding
      BY <3>1 DEF At, Holding
    <3>3. c.store => kept'[s] >= Result
      BY <1>2, <2>3, <3>1 DEF Result
    <3>4. /\ PollFits(p)' /\ Mutex'
          /\ poll' \in [Polls -> PollRecords]
          /\ \A q \in Polls : \/ poll'[q] = poll[q]
                              \/ ctx[poll'[q].ctx] # None /\ ctx[poll'[q].ctx].login = poll'[q].login
          /\ \A q \in Polls \ {p} : poll'[q] = poll[q]
      BY <1>2, <2>3, <3>2, <3>3, GoFits
    <3> QED
      BY <3>4
  <2> QED
    BY <2>1, <2>2, <2>3
<1>6. TypeOK'
  <2>1. store' \in BOOLEAN /\ initErr' \in BOOLEAN /\ now' \in 0..MaxNow
    BY <1>1 DEF TypeOK
  <2> QED
    BY <1>1, <1>2, <1>4, <1>5, <2>1, TypeStep
<1> QED
  BY <1>2, <1>3, <1>5, <1>6, StillInv

LEMMA NoTokenStep ==
    ASSUME IInv, NEW p \in Polls, NoToken(p)
    PROVE  IInv'
<1> DEFINE c == ctx[poll[p].ctx]
<1>1. TypeOK /\ poll[p].pc \in Holding
  BY DEF IInv, NoToken, Holding
<1>2. PICK e :
         /\ Persists(c, e)
         /\ Return(p) /\ told' = told
  BY DEF NoToken, persist, Persists
<1>3. UNCHANGED <<now, loginStates, recent, ctx, reached, store, initErr, crashes>>
  BY DEF NoToken, memory
<1>4. Onward /\ up' \in [Logins -> {"fresh", "refused", "open", "authorised", "consumed"}]
  BY <1>1, <1>3 DEF NoToken, Onward, TypeOK
<1> QED
  BY <1>1, <1>2, <1>3, <1>4, PersistStep

LEMMA AccountFailsStep ==
    ASSUME IInv, NEW p \in Polls, AccountFails(p)
    PROVE  IInv'
<1> DEFINE c == ctx[poll[p].ctx]
<1>1. TypeOK /\ poll[p].pc \in Holding
  BY DEF IInv, AccountFails, Holding
<1>2. PICK e :
         /\ Persists(c, e)
         /\ Return(p) /\ told' = told
  BY DEF AccountFails, persist, Persists
<1>3. UNCHANGED <<now, loginStates, recent, ctx, reached, store, initErr, crashes>> /\ up' = up
  BY DEF AccountFails, memory
<1> QED
  BY <1>1, <1>2, <1>3, StandStill, PersistStep

LEMMA KeepStep ==
    ASSUME IInv, NEW p \in Polls, Keep(p)
    PROVE  IInv'
<1> DEFINE c == ctx[poll[p].ctx]
<1>1. TypeOK /\ poll[p].pc \in Holding /\ poll[p].pc = "keep"
  BY DEF IInv, Keep, Holding
<1>2. PICK e :
         /\ Persists(c, e)
         /\ Return(p) \/ (e.ok /\ Go(p, "account"))
         /\ told' = told
  BY DEF Keep, persist, Persists
<1>3. UNCHANGED <<now, loginStates, recent, ctx, reached, store, initErr, crashes>> /\ up' = up
  BY DEF Keep, memory
<1> QED
  BY <1>1, <1>2, <1>3, StandStill, PersistStep

\* What a poll tells its client.
LEMMA TellEffect ==
    ASSUME TypeOK, NEW p \in Polls, NEW stage \in {Result, Saved}, Tell(p, stage),
           NEW s \in Logins, ctx[poll[p].ctx].login = s, ctx[poll[p].ctx].rec \in Records,
           ctx[poll[p].ctx].rec.stage >= stage
    PROVE  LET c == ctx[poll[p].ctx]
           IN  \/ told' = told
               \/ /\ c.store
                  /\ told' \in [Logins -> [stage: Opened..Saved, until: Times]]
                  /\ \A t \in Logins \ {s} : told'[t] = told[t]
                  /\ \/ told'[s] = told[s]
                     \/ /\ told'[s].stage \in {Result, Saved}
                        /\ c.rec.stage >= told'[s].stage
                        /\ told'[s].until = c.rec.expires
<1> DEFINE c == ctx[poll[p].ctx]
           new == [stage |-> stage, until |-> c.rec.expires]
<1>1. told \in [Logins -> [stage: Opened..Saved, until: Times]]
  BY DEF TypeOK
<1>2. new \in [stage: Opened..Saved, until: Times]
  BY DEF Records, Opened, Result, Saved
<1>3. CASE c.store /\ stage >= told[s].stage
  <2>1. told' = [told EXCEPT ![s] = new]
    BY <1>3 DEF Tell
  <2> QED
    BY <1>1, <1>2, <1>3, <2>1
<1>4. CASE ~(c.store /\ stage >= told[s].stage)
  BY <1>1, <1>4 DEF Tell
<1> QED
  BY <1>3, <1>4

LEMMA KeepSavedStep ==
    ASSUME IInv, NEW p \in Polls, KeepSaved(p)
    PROVE  IInv'
<1> DEFINE c == ctx[poll[p].ctx]
<1>1. TypeOK /\ RecordsInv /\ PollFits(p) /\ poll[p].pc \in Holding /\ poll[p].pc = "keepSaved"
  BY DEF IInv, KeepSaved, Holding
<1>2. PICK e :
         /\ Persists(c, e)
         /\ \/ e.ok /\ Tell(p, Saved)
            \/ Return(p) /\ told' = told
  BY DEF KeepSaved, persist, Persists
<1>3. UNCHANGED <<now, loginStates, recent, ctx, reached, store, initErr, crashes>> /\ up' = up
  BY DEF KeepSaved, memory
<1>4. /\ poll[p].login \in Logins /\ c.login = poll[p].login /\ c.rec \in Records
      /\ c.rec.stage = Saved
  BY <1>1, <1>2, PollRecord DEF PollFits, At
<1>5. CASE e.ok /\ Tell(p, Saved)
  <2>1. Saved >= Saved
    BY DEF Saved
  <2>2. \/ told' = told
        \/ /\ c.store
           /\ told' \in [Logins -> [stage: Opened..Saved, until: Times]]
           /\ \A t \in Logins \ {poll[p].login} : told'[t] = told[t]
           /\ \/ told'[poll[p].login] = told[poll[p].login]
              \/ /\ told'[poll[p].login].stage \in {Result, Saved}
                 /\ c.rec.stage >= told'[poll[p].login].stage
                 /\ told'[poll[p].login].until = c.rec.expires
    BY <1>1, <1>4, <1>5, <2>1, TellEffect
  <2>3. Return(p)
    BY <1>5 DEF Tell
  <2> QED
    BY <1>1, <1>2, <1>3, <1>5, <2>2, <2>3, StandStill, PersistStep
<1>6. CASE Return(p) /\ told' = told
  BY <1>1, <1>2, <1>3, <1>6, StandStill, PersistStep
<1> QED
  BY <1>2, <1>5, <1>6

LEMMA KeepResultStep ==
    ASSUME IInv, NEW p \in Polls, KeepResult(p)
    PROVE  IInv'
<1> DEFINE c == ctx[poll[p].ctx]
<1>1. TypeOK /\ RecordsInv /\ PollFits(p) /\ poll[p].pc \in Holding /\ poll[p].pc = "keepResult"
  BY DEF IInv, KeepResult, Holding
<1>2. PICK e :
         /\ Persists(c, e)
         /\ \/ e.ok /\ p \in Panel /\ c.rec.stage < Saved /\ Go(p, "save") /\ told' = told
            \/ e.ok /\ ~(p \in Panel /\ c.rec.stage < Saved) /\ Tell(p, IF p \in Panel THEN Saved ELSE Result)
            \/ Return(p) /\ told' = told
  BY DEF KeepResult, persist, Persists
<1>3. UNCHANGED <<now, loginStates, recent, ctx, reached, store, initErr, crashes>> /\ up' = up
  BY DEF KeepResult, memory
<1>4. /\ poll[p].login \in Logins /\ c.login = poll[p].login /\ c.rec \in Records
      /\ c.rec.stage \in {Result, Saved}
  BY <1>1, <1>2, PollRecord DEF PollFits, At
<1>5. CASE e.ok /\ p \in Panel /\ c.rec.stage < Saved /\ Go(p, "save") /\ told' = told
  BY <1>1, <1>2, <1>3, <1>5, StandStill, PersistStep
<1>6. CASE e.ok /\ ~(p \in Panel /\ c.rec.stage < Saved) /\ Tell(p, IF p \in Panel THEN Saved ELSE Result)
  <2>1. PICK stage \in {Result, Saved} : Tell(p, stage) /\ c.rec.stage >= stage
    BY <1>4, <1>6 DEF Result, Saved
  <2>2. \/ told' = told
        \/ /\ c.store
           /\ told' \in [Logins -> [stage: Opened..Saved, until: Times]]
           /\ \A t \in Logins \ {poll[p].login} : told'[t] = told[t]
           /\ \/ told'[poll[p].login] = told[poll[p].login]
              \/ /\ told'[poll[p].login].stage \in {Result, Saved}
                 /\ c.rec.stage >= told'[poll[p].login].stage
                 /\ told'[poll[p].login].until = c.rec.expires
    BY <1>1, <1>4, <2>1, TellEffect
  <2>3. Return(p)
    BY <2>1 DEF Tell
  <2> QED
    BY <1>1, <1>2, <1>3, <1>6, <2>2, <2>3, StandStill, PersistStep
<1>7. CASE Return(p) /\ told' = told
  BY <1>1, <1>2, <1>3, <1>7, StandStill, PersistStep
<1> QED
  BY <1>2, <1>5, <1>6, <1>7

\* Routing is blocked: the context moves to the other table.
LEMMA BlockedStep ==
    ASSUME IInv, NEW p \in Polls, Blocked(p)
    PROVE  IInv'
<1>1. /\ TypeOK /\ RecordsInv /\ PollFits(p) /\ Mutex /\ FilesBounded /\ OneTable
      /\ poll[p].pc \in Holding /\ poll[p].pc # "idle"
  BY DEF IInv, Blocked, Holding
<1>2. PICK s \in Logins, c \in Ctxs :
         /\ s = poll[p].login /\ c = poll[p].ctx /\ c = Held(s)
         /\ ctx[c] # None /\ ctx[c].login = s
  BY <1>1 DEF PollFits, TypeOK
<1>3. /\ UNCHANGED <<now, up, ctx, disk, store, initErr, crashes, reached, kept, told>>
      /\ Return(p)
      /\ recent' = [recent EXCEPT ![s] = c] /\ loginStates' = [loginStates EXCEPT ![s] = None]
  BY <1>2 DEF Blocked, retain, history
<1>4. c # None /\ recent \in [Logins -> Ctxs \cup {None}] /\ loginStates \in [Logins -> Ctxs \cup {None}]
  BY <1>1, OAuthPendingConstants DEF TypeOK
<1>5. \A t \in Logins : Held(t)' = Held(t)
  BY <1>2, <1>3, <1>4 DEF Held
<1>6. MemoryStill
  BY <1>1, <1>3, <1>5, StandStill DEF MemoryStill, TypeOK
<1>7. FilesBounded' /\ OneTable'
  BY <1>1, <1>3, <1>4 DEF FilesBounded, OneTable
<1>8. /\ \A q \in Polls : poll'[q] \in {poll[q], Idle}
      /\ poll' \in [Polls -> PollRecords] /\ Mutex'
      /\ \A q \in Polls : poll'[q] = poll[q] \/ poll'[q].pc = "idle"
  BY <1>1, <1>3, ReturnFits
<1>9. TypeOK'
  <2>1. /\ recent' \in [Logins -> Ctxs \cup {None}] /\ loginStates' \in [Logins -> Ctxs \cup {None}]
    BY <1>3, <1>4
  <2>2. \A t \in Logins, d \in Ctxs : loginStates'[t] = d \/ recent'[t] = d => ctx[d] # None /\ ctx[d].login = t
    BY <1>1, <1>2, <1>3, <1>4, OAuthPendingConstants DEF TypeOK
  <2>3. \A q \in Polls : poll'[q].pc # "idle" => ctx[poll'[q].ctx] # None /\ ctx[poll'[q].ctx].login = poll'[q].login
    BY <1>1, <1>8 DEF TypeOK
  <2> QED
    BY <1>1, <1>3, <1>8, <2>1, <2>2, <2>3 DEF TypeOK, PollRecords
<1> QED
  BY <1>3, <1>6, <1>7, <1>8, <1>9, StillInv

(***************************************************************************)
(* Steps that change a context or a table.                                 *)
(***************************************************************************)

\* One login gets one more record.
LEMMA RecordsPlus ==
    ASSUME RecordsInv, TypeOK, Onward, NEW s \in Logins, NEW r, Fits(s, r)',
           RecordsOf(s)' \subseteq RecordsOf(s) \cup {r},
           \A t \in Logins \ {s} : RecordsOf(t)' \subseteq RecordsOf(t),
           \A a \in RecordsOf(s) : Agree(a, r)
    PROVE  RecordsInv'
<1>1. \A t \in Logins : \A a \in RecordsOf(t) : Fits(t, a)'
  <2> SUFFICES ASSUME NEW t \in Logins, NEW a \in RecordsOf(t)
               PROVE  Fits(t, a)'
    OBVIOUS
  <2>1. Fits(t, a) /\ a \in Records
    BY RecordsTyped DEF RecordsInv, RecordsFit
  <2>2. a.created <= now'
    BY <2>1 DEF Onward, Fits, Records, Times, TypeOK
  <2> QED
    BY <2>1, <2>2 DEF Fits, Onward, Valid
<1>2. RecordsFit'
  BY <1>1 DEF RecordsFit
<1>3. RecordsAgree'
  <2> SUFFICES ASSUME NEW t \in Logins, NEW a \in RecordsOf(t)', NEW b \in RecordsOf(t)'
               PROVE  Agree(a, b)
    BY DEF RecordsAgree, Agree
  <2>1. CASE a \in RecordsOf(t) /\ b \in RecordsOf(t)
    BY <2>1 DEF RecordsInv, RecordsAgree
  <2>2. CASE t = s /\ (a = r \/ b = r)
    BY <2>2 DEF Agree
  <2> QED
    BY <2>1, <2>2
<1> QED
  BY <1>2, <1>3 DEF RecordsInv

\* Nothing happens to a login but that its record expires.
Untouched(t) ==
    /\ Held(t)' = Held(t) /\ (Held(t) # None => ctx'[Held(t)] = ctx[Held(t)])
    /\ disk'[t] = disk[t] \/ (disk'[t] = Absent /\ now >= disk[t].expires)
    /\ kept'[t] = kept[t] /\ reached'[t] = reached[t] /\ told'[t] = told[t]

LEMMA UntouchedLogin ==
    ASSUME IInv, NEW t \in Logins, Onward, Untouched(t), RecordsOf(t)' \subseteq RecordsOf(t)
    PROVE  LoginFits(t)'
<1> DEFINE r == ctx[Held(t)].rec
<1>1. /\ TypeOK /\ RecordsInv
      /\ ToldRight(t) /\ FreshUntouched(t) /\ MemoryAhead(t) /\ DiskKeeps(t) /\ Durable(t)
  BY DEF IInv, LoginFits
<1>2. /\ now \in Nat /\ now' \in Nat /\ now <= now'
      /\ kept[t] \in 0..3 /\ reached[t] \in 0..3
      /\ told[t].stage \in 0..3 /\ told[t].until \in Nat
      /\ disk[t] \in Records /\ disk[t].stage \in 0..3 /\ disk[t].expires \in Nat
  BY <1>1 DEF TypeOK, Onward, Opened, Saved, Records, Times
<1>3. Held(t) # None => ctx[Held(t)].rec.stage \in 0..3
  BY <1>1, HeldRecord DEF Opened, Saved, Records
<1>4. ToldRight(t)'
  BY <1>1, ToldStep DEF Untouched
<1>5. FreshUntouched(t)'
  BY <1>1 DEF FreshUntouched, Untouched, Onward
<1>6. MemoryAhead(t)'
  BY <1>1, <1>2, <1>3 DEF MemoryAhead, Untouched
<1>7. DiskKeeps(t)'
  BY <1>1, <1>2 DEF DiskKeeps, Untouched
<1>8. Durable(t)'
  <2> SUFFICES ASSUME now' < told[t].until
               PROVE  disk'[t] # Absent /\ disk'[t].stage >= told[t].stage
    BY DEF Durable, Untouched
  <2>1. /\ told[t].until # 0 /\ disk[t] # Absent /\ disk[t].stage >= told[t].stage
    BY <1>1, <1>2 DEF Durable
  <2>2. disk[t] \in RecordsOf(t) /\ told[t].stage >= 2
    BY <2>1, <1>1, InRecordsOf DEF ToldRight, Result
  <2>3. disk[t].expires = told[t].until
    BY <1>1, <1>2, <2>1, <2>2 DEF ToldRight, Opened
  <2> QED
    BY <1>2, <2>1, <2>3 DEF Untouched
<1> QED
  BY <1>4, <1>5, <1>6, <1>7, <1>8 DEF LoginFits

LEMMA UntouchedPoll ==
    ASSUME IInv, NEW q \in Polls, poll'[q] = poll[q], Onward,
           NEW t, t = poll[q].login, NEW d, d = poll[q].ctx,
           poll[q].pc # "idle" => Untouched(t) /\ ctx'[d] = ctx[d]
    PROVE  PollFits(q)'
<1>1. CASE poll[q].pc = "idle"
  BY <1>1 DEF PollFits
<1>2. CASE poll[q].pc # "idle"
  <2>1. TypeOK /\ RecordsInv /\ PollFits(q) /\ Untouched(t) /\ ctx'[d] = ctx[d]
    BY <1>2 DEF IInv
  <2>2. t \in Logins /\ d \in Ctxs /\ ctx[d].rec.expires \in Nat
    BY <1>2, <2>1, PollRecord DEF Records, Times
  <2>3. now \in Nat /\ now' \in Nat /\ now <= now' /\ disk[t].expires \in Nat
    BY <2>1, <2>2 DEF TypeOK, Onward, Records, Times
  <2>4. d # Held(t) => Forgotten(t, d)'
    BY <1>2, <2>1, <2>2, <2>3 DEF PollFits, Forgotten, Untouched, Onward
  <2>5. Checkpointed(q)'
    BY <1>2, <2>1 DEF PollFits, Checkpointed, Untouched
  <2> QED
    BY <1>2, <2>1, <2>2, <2>4, <2>5 DEF PollFits, Untouched
<1> QED
  BY <1>1, <1>2

\* A poll that holds its context raises the stage of its record to r, in memory only.
LEMMA StageStep ==
    ASSUME IInv, NEW p \in Polls, poll[p].pc \in Holding,
           NEW s, s = poll[p].login, NEW c, c = poll[p].ctx, NEW r \in Records,
           ctx' = [ctx EXCEPT ![c] = [ctx[c] EXCEPT !.rec = r]],
           reached' = [reached EXCEPT ![s] = r.stage],
           UNCHANGED <<now, disk, store, initErr, crashes, kept, told>>,
           Onward, up' \in [Logins -> {"fresh", "refused", "open", "authorised", "consumed"}],
           loginStates' \in [Logins -> Ctxs \cup {None}], recent' \in [Logins -> Ctxs \cup {None}],
           OneTable', \A t \in Logins : Held(t)' = Held(t),
           NEW pc \in {"keep", "keepResult", "keepSaved"}, Go(p, pc), At(pc, r.stage),
           r.stage >= ctx[c].rec.stage, Fits(s, r)',
           ctx[c].rec.stage = Opened => up[s] # "consumed",
           \A a \in RecordsOf(s) : Agree(a, r),
           told[s].until # 0 => r.expires = told[s].until
    PROVE  IInv'
<1>1. /\ TypeOK /\ RecordsInv /\ Mutex /\ PollFits(p) /\ FilesBounded /\ LoginFits(s)
      /\ s \in Logins /\ c \in Ctxs /\ ctx[c] \in Contexts /\ ctx[c].login = s
      /\ ctx[c].rec \in RecordsOf(s) /\ ctx[c].rec \in Records /\ Fits(s, ctx[c].rec)
      /\ c = Held(s) /\ poll[p].pc # "idle" /\ c # None
  <2>1. TypeOK /\ RecordsInv /\ Mutex /\ PollFits(p) /\ FilesBounded /\ poll[p].pc # "idle"
    BY DEF IInv, Holding
  <2>2. /\ s \in Logins /\ c \in Ctxs /\ ctx[c] \in Contexts /\ ctx[c].login = s
        /\ ctx[c].rec \in RecordsOf(s) /\ ctx[c].rec \in Records /\ Fits(s, ctx[c].rec)
    BY <2>1, PollRecord
  <2> QED
    BY <2>1, <2>2, OAuthPendingConstants DEF PollFits, IInv
<1>2. /\ ctx' \in [Ctxs -> Contexts \cup {None}]
      /\ ctx'[c] # None /\ ctx'[c].login = s /\ ctx'[c].rec = r /\ ctx'[c].store = ctx[c].store
      /\ \A d \in Ctxs \ {c} : ctx'[d] = ctx[d]
  <2>1. /\ [ctx[c] EXCEPT !.rec = r] \in Contexts
        /\ [ctx[c] EXCEPT !.rec = r].login = s /\ [ctx[c] EXCEPT !.rec = r].rec = r
        /\ [ctx[c] EXCEPT !.rec = r].store = ctx[c].store
    BY <1>1 DEF Contexts
  <2>2. ctx \in [Ctxs -> Contexts \cup {None}]
    BY <1>1 DEF TypeOK
  <2> QED
    BY <1>1, <2>1, <2>2, NoneIsNoContext
<1>3. /\ reached' \in [Logins -> Opened..Saved] /\ reached'[s] = r.stage
      /\ \A t \in Logins \ {s} : reached'[t] = reached[t]
  BY <1>1 DEF TypeOK, Records
<1>4. /\ poll' \in [Polls -> PollRecords]
      /\ poll'[p].pc = pc /\ poll'[p].login = s /\ poll'[p].ctx = c
      /\ \A q \in Polls \ {p} : poll'[q] = poll[q]
  BY <1>1, GoEffect DEF Holding
<1>5. \A t \in Logins \ {s} : RecordsOf(t)' \subseteq RecordsOf(t) /\ Untouched(t)
  <2> SUFFICES ASSUME NEW t \in Logins \ {s}
               PROVE  RecordsOf(t)' \subseteq RecordsOf(t) /\ Untouched(t)
    OBVIOUS
  <2>1. RecordsOf(t)' \subseteq RecordsOf(t)
    BY <1>1, <1>2 DEF RecordsOf
  <2>2. Held(t) # None => Held(t) \in Ctxs /\ Held(t) # c
    BY <1>1, HeldRecord
  <2> QED
    BY <1>2, <1>3, <2>1, <2>2 DEF Untouched
<1>6. RecordsOf(s)' \subseteq RecordsOf(s) \cup {r}
  BY <1>1, <1>2 DEF RecordsOf
<1>7. RecordsInv'
  BY <1>1, <1>5, <1>6, RecordsPlus
<1>8. \A t \in Logins : LoginFits(t)'
  <2>1. LoginFits(s)'
    <3>1. ToldRight(s) /\ FreshUntouched(s) /\ MemoryAhead(s) /\ DiskKeeps(s) /\ Durable(s)
      BY <1>1 DEF LoginFits
    <3>2. /\ r.stage \in 0..3 /\ ctx[c].rec.stage \in 0..3 /\ reached[s] \in 0..3 /\ kept[s] \in 0..3
          /\ disk[s].stage \in 0..3 /\ told[s].stage \in 0..3
      BY <1>1 DEF Records, Opened, Saved, TypeOK
    <3>3. ToldRight(s)'
      BY <1>1, <1>6, <3>1 DEF ToldRight, Onward
    <3>4. FreshUntouched(s)'
      BY <1>1 DEF FreshUntouched, Onward, Fits
    <3>5. MemoryAhead(s)'
      BY <1>1, <1>2, <1>3, <3>1, <3>2 DEF MemoryAhead
    <3>6. DiskKeeps(s)'
      BY <1>1, <3>1 DEF DiskKeeps
    <3>7. Durable(s)'
      BY <3>1 DEF Durable
    <3> QED
      BY <3>3, <3>4, <3>5, <3>6, <3>7 DEF LoginFits
  <2>2. \A t \in Logins \ {s} : LoginFits(t)'
    BY <1>5, UntouchedLogin
  <2> QED
    BY <2>1, <2>2
<1>9. \A q \in Polls : PollFits(q)'
  <2>1. PollFits(p)'
    <3>1. Held(s)' = c
      BY <1>1
    <3> QED
      BY <1>1, <1>2, <1>4, <3>1 DEF PollFits, Checkpointed
  <2> SUFFICES ASSUME NEW q \in Polls \ {p}, poll[q].pc # "idle"
               PROVE  PollFits(q)'
    BY <1>4, <2>1 DEF PollFits
  <2>2. PICK t \in Logins, d \in Ctxs :
           /\ t = poll[q].login /\ d = poll[q].ctx /\ poll'[q] = poll[q]
           /\ ctx[d].login = t /\ ctx[d].rec.expires \in Nat
    BY <1>1, <1>4, PollRecord DEF IInv, Records, Times
  <2>3. CASE t # s
    <3>1. d # c /\ Untouched(t) /\ ctx'[d] = ctx[d]
      BY <1>1, <1>2, <1>5, <2>2, <2>3
    <3> QED
      BY <2>2, <3>1, UntouchedPoll
  <2>4. CASE t = s
    <3>1. d = Held(s)
      BY <1>1, <2>2, <2>4, SMTT(20), ZenonT(30) DEF IInv, PollFits, Forgotten
    <3>2. poll[q].pc \notin Holding
      BY <1>1, <2>2, <3>1 DEF Mutex
    <3>3. poll[q].pc = "waiting"
      BY <1>1, <3>2 DEF TypeOK
    <3>4. Held(s)' = c
      BY <1>1
    <3> QED
      BY <1>1, <2>2, <2>4, <3>1, <3>3, <3>4 DEF PollFits, At, Holding, Checkpointed
  <2> QED
    BY <2>3, <2>4
<1>10. Mutex'
  BY <1>1, <1>4, MutexStep
<1>11. FilesBounded'
  BY <1>1 DEF FilesBounded
<1>12. TypeOK'
  <2>1. \A t \in Logins, d \in Ctxs : loginStates'[t] = d \/ recent'[t] = d => ctx'[d] # None /\ ctx'[d].login = t
    <3> SUFFICES ASSUME NEW t \in Logins, NEW d \in Ctxs, loginStates'[t] = d \/ recent'[t] = d
                 PROVE  ctx'[d] # None /\ ctx'[d].login = t
      OBVIOUS
    <3>1. Held(t)' = d /\ Held(t) = d
      BY OAuthPendingConstants DEF OneTable, Held
    <3>2. ctx[d] # None /\ ctx[d].login = t
      BY <1>1, <3>1, OAuthPendingConstants, HeldRecord, NoneIsNoContext
    <3> QED
      BY <1>1, <1>2, <3>2
  <2>2. \A q \in Polls : poll'[q].pc # "idle" => ctx'[poll'[q].ctx] # None /\ ctx'[poll'[q].ctx].login = poll'[q].login
    <3> SUFFICES ASSUME NEW q \in Polls \ {p}, poll[q].pc # "idle"
                 PROVE  ctx'[poll[q].ctx] # None /\ ctx'[poll[q].ctx].login = poll[q].login
      BY <1>2, <1>4
    <3>1. ctx[poll[q].ctx] # None /\ ctx[poll[q].ctx].login = poll[q].login /\ poll[q].ctx \in Ctxs
      BY <1>1 DEF TypeOK, IInv, PollFits
    <3> QED
      BY <1>1, <1>2, <3>1
  <2>3. /\ now' \in 0..MaxNow /\ crashes' \in 0..MaxCrashes /\ disk' \in [Logins -> Records]
        /\ store' \in BOOLEAN /\ initErr' \in BOOLEAN /\ kept' \in [Logins -> Opened..Saved]
        /\ told' \in [Logins -> [stage: Opened..Saved, until: Times]]
    BY <1>1 DEF TypeOK
  <2> QED
    BY <1>2, <1>3, <1>4, <2>1, <2>2, <2>3 DEF TypeOK, PollRecords
<1> QED
  BY <1>7, <1>8, <1>9, <1>10, <1>11, <1>12 DEF IInv

\* A record whose stage and times are replaced by others is a record.
LEMMA TypedRecord ==
    ASSUME NEW a \in Records, NEW e \in Nat, NEW u \in Nat, NEW n \in Opened..Saved
    PROVE  LET q == [a EXCEPT !.stage = n, !.tokenAt = u, !.expires = e]
           IN  /\ q.stage = n /\ q.tokenAt = u /\ q.created = a.created /\ q.expires = e
               /\ q \in Records
<1> DEFINE b == [a EXCEPT !.stage = n]
           c == [b EXCEPT !.tokenAt = u]
           d == [c EXCEPT !.expires = e]
<1>1. b \in Records /\ b.created = a.created /\ b.stage = n
  BY DEF Records
<1> HIDE DEF b
<1>2. c \in Records /\ c.created = a.created /\ c.stage = n /\ c.tokenAt = u
  BY <1>1 DEF Records, Times
<1> HIDE DEF c
<1>3. d \in Records /\ d.created = a.created /\ d.stage = n /\ d.tokenAt = u /\ d.expires = e
  BY <1>2 DEF Records, Times
<1>4. [a EXCEPT !.stage = n, !.tokenAt = u, !.expires = e] = d
  BY DEF Records, b, c, d
<1> QED
  BY <1>3, <1>4

\* The deadline a token sets is later than the login's beginning and within what a
\* reader accepts (pollOAuthPending, validOAuthPendingRecord).
LEMMA TokenRecord ==
    ASSUME now \in Nat, NEW a \in Records, a.created <= now
    PROVE  LET r == [a EXCEPT !.stage = Token, !.tokenAt = now, !.expires = Deadline(a)]
           IN  /\ r \in Records /\ Valid(r)
               /\ r.stage = Token /\ r.created = a.created /\ r.expires = Deadline(a)
<1> DEFINE r == [a EXCEPT !.stage = Token, !.tokenAt = now, !.expires = Deadline(a)]
<1>1. /\ a.created \in Nat /\ LoginTTL \in Nat /\ LoginTTL > 0
      /\ ResultTTL \in Nat /\ ResultTTL > 0
  BY OAuthPendingConstants DEF Records, Times
<1>2. /\ Deadline(a) \in Nat /\ Deadline(a) > a.created
      /\ Deadline(a) <= a.created + LoginTTL + ResultTTL /\ Deadline(a) <= now + ResultTTL
  BY <1>1 DEF Deadline
<1>3. Token \in Opened..Saved
  BY DEF Token, Opened, Saved
<1>4. /\ r.stage = Token /\ r.tokenAt = now /\ r.created = a.created /\ r.expires = Deadline(a)
      /\ r \in Records
  BY <1>2, <1>3, TypedRecord
<1>5. Valid(r)
  BY <1>2, <1>4 DEF Valid, Token, Opened
<1> QED
  BY <1>4, <1>5

\* A later stage of a record with a token is as good a record.
LEMMA StageRecord ==
    ASSUME NEW a \in Records, Valid(a), a.stage # Opened, NEW n \in {Result, Saved}
    PROVE  LET r == [a EXCEPT !.stage = n]
           IN  /\ r \in Records /\ Valid(r)
               /\ r.stage = n /\ r.created = a.created /\ r.expires = a.expires
<1> DEFINE r == [a EXCEPT !.stage = n]
<1>1. /\ r.stage = n /\ r.tokenAt = a.tokenAt /\ r.created = a.created /\ r.expires = a.expires
      /\ r \in Records
  BY DEF Records, Opened, Result, Saved
<1>2. Valid(r)
  BY <1>1 DEF Valid, Opened, Result, Saved
<1> QED
  BY <1>1, <1>2

LEMMA GetTokenStep ==
    ASSUME IInv, NEW p \in Polls, GetToken(p)
    PROVE  IInv'
<1>1. /\ TypeOK /\ RecordsInv /\ PollFits(p) /\ OneTable
      /\ poll[p].pc \in Holding /\ poll[p].pc # "idle" /\ poll[p].pc = "token"
  BY DEF IInv, GetToken, Holding
<1>2. PICK s \in Logins, c \in Ctxs : s = poll[p].login /\ c = poll[p].ctx
  BY <1>1, PollRecord
<1> DEFINE a == ctx[c].rec
<1>3. /\ ctx[c] \in Contexts /\ a \in RecordsOf(s) /\ a \in Records /\ Fits(s, a)
      /\ a.stage = Opened /\ c = Held(s)
  BY <1>1, <1>2, PollRecord DEF PollFits, At
<1>5. PICK r \in Records :
         /\ r = [a EXCEPT !.stage = Token, !.tokenAt = now, !.expires = Deadline(a)]
         /\ Valid(r) /\ r.stage = Token /\ r.created = a.created /\ r.expires = Deadline(a)
  <2>1. now \in Nat /\ a.created <= now
    BY <1>1, <1>3 DEF Fits, TypeOK
  <2> QED
    BY <2>1, <1>3, TokenRecord
<1>4. /\ UNCHANGED <<now, disk, store, initErr, crashes, kept, told>>
      /\ up[s] = "authorised" /\ up' = [up EXCEPT ![s] = "consumed"]
      /\ ctx' = [ctx EXCEPT ![c].rec = r]
      /\ recent' = [recent EXCEPT ![s] = c] /\ loginStates' = [loginStates EXCEPT ![s] = None]
      /\ reached' = [reached EXCEPT ![s] = Token]
      /\ Go(p, "keep")
  BY <1>2, <1>5 DEF GetToken, retain
<1>6. ctx' = [ctx EXCEPT ![c] = [ctx[c] EXCEPT !.rec = r]]
  BY <1>1, <1>4 DEF TypeOK
<1>7. /\ loginStates' \in [Logins -> Ctxs \cup {None}] /\ recent' \in [Logins -> Ctxs \cup {None}]
      /\ OneTable' /\ \A t \in Logins : Held(t)' = Held(t)
  <2>1. c # None /\ recent \in [Logins -> Ctxs \cup {None}] /\ loginStates \in [Logins -> Ctxs \cup {None}]
    BY <1>1, OAuthPendingConstants DEF TypeOK
  <2> QED
    BY <2>1, <1>1, <1>3, <1>4 DEF OneTable, Held
<1>8. Onward /\ up' \in [Logins -> {"fresh", "refused", "open", "authorised", "consumed"}] /\ up'[s] = "consumed"
  BY <1>1, <1>4 DEF Onward, TypeOK
<1>9. Fits(s, r)'
  BY <1>3, <1>4, <1>5, <1>8 DEF Fits, Token, Opened, Valid, Records
<1>10. \A b \in RecordsOf(s) : Agree(b, r)
  <2> SUFFICES ASSUME NEW b \in RecordsOf(s) PROVE Agree(b, r)
    OBVIOUS
  <2>1. b.stage = Opened /\ b.created = a.created
    BY <1>1, <1>3, <1>4 DEF RecordsInv, RecordsFit, Fits, RecordsAgree, Agree
  <2> QED
    BY <2>1, <1>5 DEF Agree
<1>11. told[s].until = 0
  BY <1>4 DEF IInv, LoginFits, ToldRight
<1>12. r.stage >= a.stage /\ At("keep", r.stage)
  BY <1>3, <1>5 DEF At, Token, Opened
<1> QED
  BY <1>1, <1>2, <1>3, <1>4, <1>5, <1>6, <1>7, <1>8, <1>9, <1>10, <1>11, <1>12, StageStep

\* The account is known, or the credential saved: the stage moves, the rest stays.
LEMMA LaterStageStep ==
    ASSUME IInv, NEW p \in Polls, poll[p].pc \in Holding,
           NEW n \in {Result, Saved}, NEW pc \in {"keepResult", "keepSaved"}, At(pc, n),
           n > ctx[poll[p].ctx].rec.stage, ctx[poll[p].ctx].rec.stage # Opened,
           ctx' = [ctx EXCEPT ![poll[p].ctx].rec.stage = n],
           reached' = [reached EXCEPT ![poll[p].login] = n],
           Go(p, pc),
           UNCHANGED <<now, up, loginStates, recent, disk, store, initErr, crashes, kept, told>>
    PROVE  IInv'
<1>1. /\ TypeOK /\ RecordsInv /\ PollFits(p) /\ OneTable /\ poll[p].pc # "idle"
  BY DEF IInv, Holding
<1>2. PICK s \in Logins, c \in Ctxs : s = poll[p].login /\ c = poll[p].ctx
  BY <1>1, PollRecord
<1> DEFINE a == ctx[c].rec
<1>3. /\ ctx[c] \in Contexts /\ a \in RecordsOf(s) /\ a \in Records /\ Fits(s, a)
      /\ a.stage # Opened /\ n > a.stage
  BY <1>1, <1>2, PollRecord
<1>4. PICK r \in Records :
         /\ r = [a EXCEPT !.stage = n]
         /\ Valid(r) /\ r.stage = n /\ r.created = a.created /\ r.expires = a.expires
  BY <1>3, StageRecord DEF Fits
<1>5. ctx' = [ctx EXCEPT ![c] = [ctx[c] EXCEPT !.rec = r]]
  <2>1. ctx \in [Ctxs -> Contexts \cup {None}] /\ ctx' = [ctx EXCEPT ![c].rec.stage = n]
    BY <1>1, <1>2 DEF TypeOK
  <2> QED
    BY <2>1, <1>3, <1>4
<1>6. \A t \in Logins : Held(t)' = Held(t)
  BY DEF Held
<1>7. OneTable' /\ loginStates' \in [Logins -> Ctxs \cup {None}] /\ recent' \in [Logins -> Ctxs \cup {None}]
  BY <1>1 DEF OneTable, TypeOK
<1>8. r.stage # Opened /\ up[s] = "consumed"
  BY <1>3, <1>4 DEF Fits, Opened, Result, Saved
<1>9. Fits(s, r)'
  BY <1>3, <1>4, <1>8 DEF Fits, Valid
<1>10. \A b \in RecordsOf(s) : Agree(b, r)
  BY <1>1, <1>3, <1>4, <1>8 DEF RecordsInv, RecordsAgree, Agree
<1>11. told[s].until # 0 => r.expires = told[s].until
  BY <1>3, <1>4 DEF IInv, LoginFits, ToldRight
<1>12. /\ At(pc, r.stage) /\ pc \in {"keep", "keepResult", "keepSaved"} /\ r.stage >= a.stage
       /\ reached' = [reached EXCEPT ![s] = r.stage]
  BY <1>2, <1>3, <1>4 DEF Records, Opened, Saved, Result
<1>13. /\ Onward
       /\ up' \in [Logins -> {"fresh", "refused", "open", "authorised", "consumed"}]
       /\ UNCHANGED <<now, disk, store, initErr, crashes, kept, told>>
       /\ (a.stage = Opened => up[s] # "consumed")
  BY <1>1, <1>3, StandStill
<1> QED
  <2>1. CASE pc = "keepResult"
    BY <1>1, <1>2, <1>3, <1>4, <1>5, <1>6, <1>7, <1>9, <1>10, <1>11, <1>12, <1>13, <2>1, StageStep
  <2>2. CASE pc = "keepSaved"
    BY <1>1, <1>2, <1>3, <1>4, <1>5, <1>6, <1>7, <1>9, <1>10, <1>11, <1>12, <1>13, <2>2, StageStep
  <2> QED
    BY <2>1, <2>2

LEMMA GetAccountStep ==
    ASSUME IInv, NEW p \in Polls, GetAccount(p)
    PROVE  IInv'
<1>1. poll[p].pc = "account" /\ poll[p].pc \in Holding /\ poll[p].pc # "idle" /\ PollFits(p)
  BY DEF GetAccount, Holding, IInv
<1>2. ctx[poll[p].ctx].rec.stage = Token
  BY <1>1 DEF PollFits, At
<1>3. Result > Token /\ Token # Opened /\ At("keepResult", Result)
  BY DEF At, Result, Token, Opened
<1> QED
  BY <1>1, <1>2, <1>3, LaterStageStep DEF GetAccount

LEMMA SaveStep ==
    ASSUME IInv, NEW p \in Polls, Save(p)
    PROVE  IInv'
<1>1. poll[p].pc = "save" /\ poll[p].pc \in Holding /\ poll[p].pc # "idle" /\ PollFits(p)
  BY DEF Save, Holding, IInv
<1>2. ctx[poll[p].ctx].rec.stage = Result
  BY <1>1 DEF PollFits, At
<1>3. Saved > Result /\ Result # Opened /\ At("keepSaved", Saved)
  BY DEF At, Result, Saved, Opened
<1> QED
  BY <1>1, <1>2, <1>3, LaterStageStep DEF Save

\* The context c, with record r, becomes that of login s.
Installs(s, c, r, b) ==
    /\ c = NewCtx
    /\ ctx' = [ctx EXCEPT ![c] = [login |-> s, rec |-> r, store |-> b]]
    /\ \/ loginStates' = [loginStates EXCEPT ![s] = c] /\ UNCHANGED recent
       \/ recent' = [recent EXCEPT ![s] = c] /\ UNCHANGED loginStates

\* What the record of a new context must agree with.
Joins(s, r) ==
    /\ r.stage >= kept[s] /\ (disk'[s] # Absent => r.stage >= disk'[s].stage)
    /\ now < told[s].until => r.stage >= told[s].stage
    /\ Fits(s, r)' /\ \A a \in RecordsOf(s) : Agree(a, r)
    /\ told[s].until # 0 => r.stage = Opened \/ r.expires = told[s].until
    /\ told[s].until # 0 => r.stage = Opened \/ r \in RecordsOf(s)
    /\ \A q \in Polls : poll[q].pc # "idle" /\ poll[q].login = s =>
           r.stage = Opened /\ up'[s] = "consumed"

\* The directory loses expired records and gets that of login s.
DiskGains(s, r) ==
    /\ disk' \in [Logins -> Records] /\ FilesBounded'
    /\ \A t \in Logins : \/ disk'[t] = disk[t]
                         \/ disk'[t] = Absent /\ now >= disk[t].expires
                         \/ t = s /\ disk'[t] = r

\* Polls begin to wait for context c of login s.
Enters(s, c) ==
    /\ poll' \in [Polls -> PollRecords]
    /\ \A q \in Polls : \/ poll'[q] = poll[q]
                        \/ poll'[q].pc = "waiting" /\ poll'[q].login = s /\ poll'[q].ctx = c

\* A login without a context gets one: the other logins, and the polls of other
\* logins, see nothing of it; polls that wait for a context of this login that the
\* table has given up find the login over.
LEMMA NewStep ==
    ASSUME IInv, NEW s \in Logins, Held(s) = None, NEW c, NEW r \in Records, NEW b \in BOOLEAN,
           Installs(s, c, r, b), Joins(s, r), DiskGains(s, r), Enters(s, c), Onward,
           up' \in [Logins -> {"fresh", "refused", "open", "authorised", "consumed"}],
           UNCHANGED <<now, store, initErr, crashes, reached, kept, told>>
    PROVE  IInv'
<1>1. /\ TypeOK /\ RecordsInv /\ Mutex /\ FilesBounded /\ OneTable
      /\ ToldRight(s) /\ FreshUntouched(s) /\ MemoryAhead(s) /\ DiskKeeps(s) /\ Durable(s)
  BY DEF IInv, LoginFits
<1>2. /\ c \in Ctxs /\ c # None
      /\ \A t \in Logins : loginStates[t] # c /\ recent[t] # c /\ Held(t) # c
      /\ \A q \in Polls : poll[q].ctx # c
  BY <1>1, NewCtxFree, OAuthPendingConstants DEF Held, Installs
<1> USE DEF Joins, DiskGains, Enters
<1>3. /\ ctx' \in [Ctxs -> Contexts \cup {None}]
      /\ ctx'[c] # None /\ ctx'[c].login = s /\ ctx'[c].rec = r
      /\ \A d \in Ctxs \ {c} : ctx'[d] = ctx[d]
  <2>1. [login |-> s, rec |-> r, store |-> b] \in Contexts /\ ctx \in [Ctxs -> Contexts \cup {None}]
    BY <1>1 DEF Contexts, TypeOK
  <2> QED
    BY <1>2, <2>1, NoneIsNoContext DEF Installs
<1>4. /\ loginStates' \in [Logins -> Ctxs \cup {None}] /\ recent' \in [Logins -> Ctxs \cup {None}]
      /\ \A t \in Logins \ {s} : /\ loginStates'[t] = loginStates[t] /\ recent'[t] = recent[t]
                                 /\ Held(t)' = Held(t)
      /\ {loginStates'[s], recent'[s]} = {c, None} /\ Held(s)' = c
      /\ OneTable'
  <2>1. /\ loginStates \in [Logins -> Ctxs \cup {None}] /\ recent \in [Logins -> Ctxs \cup {None}]
        /\ loginStates[s] = None /\ recent[s] = None
    BY <1>1 DEF TypeOK, Held
  <2>2. CASE loginStates' = [loginStates EXCEPT ![s] = c] /\ UNCHANGED recent
    BY <1>1, <1>2, <2>1, <2>2 DEF Held, OneTable
  <2>3. CASE recent' = [recent EXCEPT ![s] = c] /\ UNCHANGED loginStates
    BY <1>1, <1>2, <2>1, <2>3 DEF Held, OneTable
  <2> QED
    BY <2>2, <2>3 DEF Installs
<1>5. \A t \in Logins \ {s} : RecordsOf(t)' \subseteq RecordsOf(t) /\ Untouched(t)
  <2> SUFFICES ASSUME NEW t \in Logins \ {s}
               PROVE  RecordsOf(t)' \subseteq RecordsOf(t) /\ Untouched(t)
    OBVIOUS
  <2>1. RecordsOf(t)' \subseteq RecordsOf(t)
    BY <1>2, <1>3 DEF RecordsOf
  <2>2. Held(t) # None => Held(t) \in Ctxs /\ Held(t) # c
    BY <1>1, <1>2, HeldRecord
  <2>3. disk'[t] = disk[t] \/ (disk'[t] = Absent /\ now >= disk[t].expires)
    OBVIOUS
  <2> QED
    BY <1>3, <1>4, <2>1, <2>2, <2>3 DEF Untouched
<1>6. RecordsOf(s)' \subseteq RecordsOf(s) \cup {r}
  <2>1. disk'[s] = disk[s] \/ disk'[s] = Absent \/ disk'[s] = r
    OBVIOUS
  <2> QED
    BY <1>2, <1>3, <2>1 DEF RecordsOf
<1>7. RecordsInv'
  BY <1>1, <1>5, <1>6, RecordsPlus
<1>8. \A t \in Logins : LoginFits(t)'
  <2>1. LoginFits(s)'
    <3>1. /\ r.stage \in 0..3 /\ reached[s] \in 0..3 /\ kept[s] \in 0..3
          /\ told[s].stage \in 0..3 /\ now' = now /\ now \in Nat /\ told[s].until \in Nat
          /\ disk[s].expires \in Nat
      BY <1>1 DEF Records, Opened, Saved, TypeOK, Times
    <3>2. ToldRight(s)'
      BY <1>1, <1>6 DEF ToldRight, Onward
    <3>3. FreshUntouched(s)'
      BY <1>1 DEF FreshUntouched, Onward, Fits
    <3>4. reached[s] <= kept[s]
      BY <1>1 DEF DiskKeeps
    <3>5. MemoryAhead(s)'
      BY <1>1, <1>3, <1>4, <3>1, <3>4 DEF MemoryAhead
    <3>6. DiskKeeps(s)'
      BY <1>1, <1>2, <1>4, <3>1 DEF DiskKeeps
    <3>7. Durable(s)'
      <4> SUFFICES ASSUME now < told[s].until
                   PROVE  disk'[s] # Absent /\ disk'[s].stage >= told[s].stage
        BY DEF Durable
      <4>1. /\ told[s].until # 0 /\ disk[s] # Absent /\ disk[s].stage >= told[s].stage
            /\ r.stage >= told[s].stage
        BY <1>1, <3>1 DEF Durable
      <4>2. disk[s] \in RecordsOf(s) /\ told[s].stage >= 2
        BY <4>1, <1>1, InRecordsOf DEF ToldRight, Result
      <4>3. disk[s].expires = told[s].until
        BY <1>1, <3>1, <4>1, <4>2 DEF ToldRight, Opened, TypeOK, Records, Saved
      <4>4. r # Absent
        BY <3>1, <4>1, <4>2 DEF Absent, Opened
      <4> QED
        BY <3>1, <4>1, <4>3, <4>4
    <3> QED
      BY <3>2, <3>3, <3>5, <3>6, <3>7 DEF LoginFits
  <2>2. \A t \in Logins \ {s} : LoginFits(t)'
    BY <1>5, UntouchedLogin
  <2> QED
    BY <2>1, <2>2
<1>9. ASSUME NEW q \in Polls, poll'[q] = poll[q]
      PROVE  PollFits(q)'
  <2> SUFFICES ASSUME poll[q].pc # "idle"
               PROVE  PollFits(q)'
    BY <1>9 DEF PollFits
  <2>2. PICK t \in Logins, d \in Ctxs :
           /\ t = poll[q].login /\ d = poll[q].ctx /\ PollFits(q)
           /\ ctx[d].login = t /\ ctx[d].rec.expires \in Nat
    BY <1>1, PollRecord DEF IInv, Records, Times
  <2>3. d # c /\ ctx'[d] = ctx[d]
    BY <1>2, <1>3, <2>2
  <2>4. CASE t # s
    <3>1. Untouched(t)
      BY <1>5, <2>4
    <3> QED
      BY <1>9, <2>2, <2>3, <3>1, UntouchedPoll
  <2>5. CASE t = s
    <3>1. d # Held(s) /\ r.stage = Opened /\ up'[s] = "consumed"
      BY <1>2, <2>2, <2>5, OAuthPendingConstants
    <3>2. Forgotten(s, d) /\ poll[q].pc \notin Holding
      BY <2>2, <2>5, <3>1 DEF PollFits
    <3>3. poll[q].pc = "waiting"
      BY <1>1, <3>2 DEF TypeOK
    <3>4. Forgotten(s, d)'
      <4>1. now' >= ctx'[d].rec.expires
        BY <2>3, <3>2 DEF Forgotten
      <4>2. disk'[s] # Absent /\ now' < disk'[s].expires => disk'[s].stage = Opened /\ up'[s] = "consumed"
        BY <3>1, <3>2 DEF Forgotten
      <4> QED
        BY <1>3, <1>4, <3>1, <4>1, <4>2 DEF Forgotten
    <3> QED
      BY <1>9, <2>2, <2>5, <3>3, <3>4 DEF PollFits, At, Holding, Checkpointed
  <2> QED
    BY <2>4, <2>5
<1>10. \A q \in Polls : PollFits(q)'
  <2> SUFFICES ASSUME NEW q \in Polls
               PROVE  PollFits(q)'
    OBVIOUS
  <2>1. CASE poll'[q].pc = "waiting" /\ poll'[q].login = s /\ poll'[q].ctx = c
    <3>1. Held(s)' = c
      BY <1>4
    <3> QED
      BY <1>2, <2>1, <3>1 DEF PollFits, At, Holding, Checkpointed
  <2>2. CASE poll'[q] = poll[q]
    BY <1>9, <2>2
  <2> QED
    BY <2>1, <2>2
<1>11. Mutex'
  <2>1. \A q \in Polls : poll'[q].pc \in Holding => poll'[q] = poll[q]
    BY DEF Holding
  <2> QED
    BY <1>1, <2>1 DEF Mutex
<1>12. TypeOK'
  <2>1. \A t \in Logins, d \in Ctxs : loginStates'[t] = d \/ recent'[t] = d => ctx'[d] # None /\ ctx'[d].login = t
    <3> SUFFICES ASSUME NEW t \in Logins, NEW d \in Ctxs, loginStates'[t] = d \/ recent'[t] = d
                 PROVE  ctx'[d] # None /\ ctx'[d].login = t
      OBVIOUS
    <3>1. CASE t = s
      BY <1>3, <1>4, <3>1, OAuthPendingConstants
    <3>2. CASE t # s
      BY <1>1, <1>2, <1>3, <1>4, <3>2 DEF TypeOK
    <3> QED
      BY <3>1, <3>2
  <2>2. \A q \in Polls : poll'[q].pc # "idle" => ctx'[poll'[q].ctx] # None /\ ctx'[poll'[q].ctx].login = poll'[q].login
    <3> SUFFICES ASSUME NEW q \in Polls, poll'[q] = poll[q], poll[q].pc # "idle"
                 PROVE  ctx'[poll[q].ctx] # None /\ ctx'[poll[q].ctx].login = poll[q].login
      BY <1>3
    <3>1. ctx[poll[q].ctx] # None /\ ctx[poll[q].ctx].login = poll[q].login /\ poll[q].ctx \in Ctxs
      BY <1>1 DEF TypeOK, IInv, PollFits
    <3> QED
      BY <1>2, <1>3, <3>1
  <2>3. /\ now' \in 0..MaxNow /\ crashes' \in 0..MaxCrashes
        /\ store' \in BOOLEAN /\ initErr' \in BOOLEAN /\ kept' \in [Logins -> Opened..Saved]
        /\ reached' \in [Logins -> Opened..Saved]
        /\ told' \in [Logins -> [stage: Opened..Saved, until: Times]]
    BY <1>1 DEF TypeOK
  <2> QED
    BY <1>3, <1>4, <2>1, <2>2, <2>3 DEF TypeOK, PollRecords
<1> QED
  BY <1>4, <1>7, <1>8, <1>10, <1>11, <1>12 DEF IInv

\* A login that has not started has left nothing anywhere.
LEMMA FreshLogin ==
    ASSUME IInv, NEW s \in Logins, up[s] = "fresh"
    PROVE  /\ RecordsOf(s) = {} /\ disk[s] = Absent /\ Held(s) = None
           /\ told[s].until = 0 /\ reached[s] = Opened /\ kept[s] = Opened
           /\ \A q \in Polls : poll[q].pc # "idle" => poll[q].login # s
<1>1. TypeOK /\ RecordsInv /\ ToldRight(s) /\ FreshUntouched(s) /\ \A q \in Polls : PollFits(q)
  BY DEF IInv, LoginFits
<1>2. RecordsOf(s) = {}
  BY <1>1 DEF RecordsInv, RecordsFit, Fits
<1>3. disk[s] = Absent /\ Held(s) = None
  BY <1>1, <1>2, InRecordsOf, HeldRecord
<1>4. told[s].until = 0 /\ reached[s] = Opened /\ kept[s] = Opened
  BY <1>1 DEF ToldRight, FreshUntouched
<1>5. \A q \in Polls : poll[q].pc # "idle" => poll[q].login # s
  BY <1>1, <1>2, PollRecord
<1> QED
  BY <1>2, <1>3, <1>4, <1>5

\* The record a login starts with.
LEMMA FirstRecord ==
    ASSUME now \in Nat
    PROVE  LET r == [created |-> now, expires |-> now + LoginTTL, tokenAt |-> 0, stage |-> Opened]
           IN  /\ r \in Records /\ Valid(r) /\ r # Absent
               /\ r.created = now /\ r.stage = Opened /\ r.expires = now + LoginTTL
  BY OAuthPendingConstants DEF Records, Times, Valid, Absent, Opened, Saved

\* What Start does with the outcome e of its write.
Begins(s, r, e) ==
    /\ e \in IF store THEN Writes(disk, s, r) ELSE {[disk |-> disk, ok |-> TRUE]}
    /\ disk' = e.disk
    /\ up' = [up EXCEPT ![s] = IF e.ok THEN "open" ELSE "refused"]

LEMMA BeginsEffect ==
    ASSUME IInv, NEW s \in Logins, up[s] = "fresh", NEW r \in Records, NEW e, Begins(s, r, e),
           now' = now
    PROVE  /\ e.ok \in BOOLEAN /\ Onward /\ FilesBounded'
           /\ up' \in [Logins -> {"fresh", "refused", "open", "authorised", "consumed"}]
           /\ up'[s] = IF e.ok THEN "open" ELSE "refused"
           /\ disk' \in [Logins -> Records]
           /\ \A t \in Logins : \/ disk'[t] = disk[t]
                                \/ disk'[t] = Absent /\ now >= disk[t].expires
                                \/ t = s /\ disk'[t] = r
<1>1. TypeOK /\ FilesBounded
  BY DEF IInv
<1>2. /\ e.disk \in [Logins -> Records] /\ e.ok \in BOOLEAN
      /\ \A t \in Logins : \/ e.disk[t] = disk[t]
                           \/ e.disk[t] = Absent /\ now >= disk[t].expires
                           \/ t = s /\ e.disk[t] = r
      /\ Cardinality(Files(e.disk)) <= MaxFiles
  <2>1. disk \in [Logins -> Records] /\ Cardinality(Files(disk)) <= MaxFiles
    BY <1>1 DEF TypeOK, FilesBounded
  <2>2. CASE store
    <3>1. e \in Writes(disk, s, r)
      BY <2>2 DEF Begins
    <3> QED
      BY <3>1, <2>1, WritesEffect
  <2>3. CASE ~store
    <3>1. e = [disk |-> disk, ok |-> TRUE]
      BY <2>3 DEF Begins
    <3> QED
      BY <3>1, <2>1
  <2> QED
    BY <2>2, <2>3
<1>3. /\ up' \in [Logins -> {"fresh", "refused", "open", "authorised", "consumed"}]
      /\ up'[s] = IF e.ok THEN "open" ELSE "refused"
      /\ \A t \in Logins \ {s} : up'[t] = up[t]
  BY <1>1 DEF Begins, TypeOK
<1>4. Onward
  BY <1>1, <1>3 DEF Onward, TypeOK
<1>5. FilesBounded'
  BY <1>2 DEF FilesBounded, Begins
<1> QED
  BY <1>2, <1>3, <1>4, <1>5 DEF Begins

LEMMA StartStep ==
    ASSUME IInv, NEW s \in Logins, Start(s)
    PROVE  IInv'
<1>1. /\ TypeOK /\ RecordsInv /\ FilesBounded /\ OneTable /\ Mutex
      /\ up[s] = "fresh" /\ now \in Nat
  BY DEF IInv, Start, TypeOK
<1>2. /\ RecordsOf(s) = {} /\ disk[s] = Absent /\ Held(s) = None
      /\ told[s].until = 0 /\ reached[s] = Opened /\ kept[s] = Opened
      /\ \A q \in Polls : poll[q].pc # "idle" => poll[q].login # s
  BY <1>1, FreshLogin
<1>3. PICK r \in Records :
         /\ r = [created |-> now, expires |-> now + LoginTTL, tokenAt |-> 0, stage |-> Opened]
         /\ Valid(r) /\ r # Absent /\ r.created = now /\ r.stage = Opened
         /\ r.expires = now + LoginTTL
  BY <1>1, FirstRecord
<1>4. PICK e :
         /\ Begins(s, r, e)
         /\ IF e.ok
              THEN /\ loginStates' = [loginStates EXCEPT ![s] = NewCtx]
                   /\ ctx' = [ctx EXCEPT ![NewCtx] = [login |-> s, rec |-> r, store |-> store]]
              ELSE UNCHANGED <<loginStates, ctx>>
  BY <1>3 DEF Start, Begins
<1>5. UNCHANGED <<now, recent, store, initErr, poll, crashes, reached, kept, told>>
  BY DEF Start, history
<1>6. /\ e.ok \in BOOLEAN /\ Onward /\ FilesBounded'
      /\ up' \in [Logins -> {"fresh", "refused", "open", "authorised", "consumed"}]
      /\ up'[s] = IF e.ok THEN "open" ELSE "refused"
      /\ disk' \in [Logins -> Records]
      /\ \A t \in Logins : \/ disk'[t] = disk[t]
                           \/ disk'[t] = Absent /\ now >= disk[t].expires
                           \/ t = s /\ disk'[t] = r
  BY <1>1, <1>4, <1>5, BeginsEffect
<1>7. Fits(s, r)'
  BY <1>1, <1>3, <1>5, <1>6 DEF Fits, Valid
<1>8. disk'[s] \in {Absent, r}
  BY <1>2, <1>6
<1>9. CASE e.ok
  <2>1. store \in BOOLEAN
    BY <1>1 DEF TypeOK
  <2>2. PICK c : c = NewCtx
    OBVIOUS
  <2>5. Installs(s, c, r, store)
    BY <1>4, <1>5, <1>9, <2>2 DEF Installs
  <2>3. Joins(s, r) /\ DiskGains(s, r)
    BY <1>1, <1>2, <1>3, <1>6, <1>7, <1>8 DEF Joins, DiskGains, Opened
  <2>4. Enters(s, c) /\ UNCHANGED <<now, store, initErr, crashes, reached, kept, told>>
    BY <1>1, <1>5 DEF TypeOK, PollRecords, Enters
  <2> QED
    BY <1>2, <1>6, <2>1, <2>3, <2>4, <2>5, NewStep
<1>10. CASE ~e.ok
  <2>1. UNCHANGED <<loginStates, ctx>> /\ UNCHANGED <<loginStates, recent, ctx, reached>>
    BY <1>4, <1>5, <1>10
  <2>2. \A t \in Logins : Held(t)' = Held(t)
    BY <2>1 DEF Held
  <2>3. \A t \in Logins \ {s} : RecordsOf(t)' \subseteq RecordsOf(t) /\ Untouched(t)
    BY <1>5, <1>6, <2>1, <2>2 DEF RecordsOf, Untouched
  <2>4. RecordsOf(s)' \subseteq RecordsOf(s) \cup {r}
    BY <1>8, <2>1 DEF RecordsOf
  <2>5. RecordsInv'
    BY <1>1, <1>2, <1>6, <1>7, <2>3, <2>4, RecordsPlus
  <2>6. LoginFits(s)'
    <3>1. ToldRight(s)' /\ Durable(s)'
      BY <1>1, <1>2, <1>5 DEF ToldRight, Durable
    <3>2. FreshUntouched(s)' /\ MemoryAhead(s)'
      BY <1>2, <1>5, <1>6, <2>2 DEF FreshUntouched, MemoryAhead
    <3>3. DiskKeeps(s)'
      BY <1>2, <1>3, <1>5, <1>8 DEF DiskKeeps, Opened
    <3> QED
      BY <3>1, <3>2, <3>3 DEF LoginFits
  <2>7. \A t \in Logins \ {s} : LoginFits(t)'
    BY <1>6, <2>3, UntouchedLogin
  <2>8. \A q \in Polls : PollFits(q)'
    <3> SUFFICES ASSUME NEW q \in Polls, poll[q].pc # "idle"
                 PROVE  PollFits(q)'
      BY <1>5 DEF PollFits
    <3>1. PICK t \in Logins, d \in Ctxs : t = poll[q].login /\ d = poll[q].ctx
      BY DEF IInv, PollFits
    <3>2. Untouched(t) /\ ctx'[d] = ctx[d] /\ poll'[q] = poll[q]
      BY <1>2, <1>5, <2>1, <2>3, <3>1
    <3> QED
      BY <1>6, <3>1, <3>2, UntouchedPoll
  <2>9. TypeOK'
    <3>1. /\ now' \in 0..MaxNow /\ crashes' = crashes /\ store' \in BOOLEAN /\ initErr' \in BOOLEAN
          /\ kept' \in [Logins -> Opened..Saved]
          /\ told' \in [Logins -> [stage: Opened..Saved, until: Times]]
          /\ poll' \in [Polls -> PollRecords] /\ \A q \in Polls : poll'[q] = poll[q]
      BY <1>1, <1>5 DEF TypeOK, PollRecords
    <3> QED
      BY <1>1, <1>6, <2>1, <3>1, TypeStep
  <2>10. Mutex' /\ OneTable'
    BY <1>1, <1>5, <2>1 DEF Mutex, OneTable
  <2> QED
    BY <1>6, <2>5, <2>6, <2>7, <2>8, <2>9, <2>10 DEF IInv
<1> QED
  BY <1>6, <1>9, <1>10

LEMMA RestoreStep ==
    ASSUME IInv, NEW p \in Polls, NEW s \in Polled, Restore(p, s)
    PROVE  IInv'
<1>1. /\ TypeOK /\ RecordsInv /\ FilesBounded /\ OneTable /\ s \in Logins
      /\ ToldRight(s) /\ DiskKeeps(s) /\ Durable(s) /\ \A q \in Polls : PollFits(q)
  BY OAuthPendingConstants DEF IInv, LoginFits
<1>2. PICK r \in Records : r = disk[s]
  BY <1>1 DEF TypeOK
<1>3. /\ Held(s) = None /\ r # Absent /\ now < r.expires /\ poll[p].pc = "idle"
      /\ r \in RecordsOf(s) /\ Fits(s, r)
  BY <1>1, <1>2, InRecordsOf DEF Restore, RecordsInv, RecordsFit
<1>4. UNCHANGED <<now, up, disk, store, initErr, crashes, reached, kept, told>>
  BY DEF Restore, history
<1>5. PICK c : c = NewCtx
  OBVIOUS
<1>6. /\ Installs(s, c, r, TRUE)
      /\ poll' = [poll EXCEPT ![p] = [pc |-> "waiting", login |-> s, ctx |-> c]]
  BY <1>2, <1>5 DEF Restore, Installs
<1>7. /\ Onward /\ FilesBounded' /\ disk' \in [Logins -> Records]
      /\ up' \in [Logins -> {"fresh", "refused", "open", "authorised", "consumed"}]
      /\ \A t \in Logins : disk'[t] = disk[t]
      /\ UNCHANGED <<now, store, initErr, crashes, reached, kept, told>>
  BY <1>1, <1>4, StandStill DEF FilesBounded, TypeOK
<1>8. /\ r.stage >= kept[s] /\ (disk'[s] # Absent => r.stage >= disk'[s].stage)
      /\ (now < told[s].until => r.stage >= told[s].stage)
      /\ \A a \in RecordsOf(s) : Agree(a, r)
      /\ told[s].until # 0 => r.stage = Opened \/ r.expires = told[s].until
      /\ told[s].until # 0 => r.stage = Opened \/ r \in RecordsOf(s)
      /\ Fits(s, r)'
  <2>1. r.stage \in 0..3
    BY DEF Records, Opened, Saved
  <2> QED
    BY <1>1, <1>2, <1>3, <1>4, <2>1 DEF DiskKeeps, Durable, ToldRight, RecordsInv, RecordsAgree, Fits, Valid
<1>9. /\ \A q \in Polls : poll[q].pc # "idle" /\ poll[q].login = s =>
             r.stage = Opened /\ up'[s] = "consumed"
  <2> SUFFICES ASSUME NEW q \in Polls, poll[q].pc # "idle", poll[q].login = s
               PROVE  r.stage = Opened /\ up'[s] = "consumed"
    OBVIOUS
  <2>1. poll[q].ctx # Held(s) /\ PollFits(q)
    BY <1>1, <1>3, OAuthPendingConstants DEF PollFits
  <2>2. Forgotten(s, poll[q].ctx)
    BY <2>1 DEF PollFits
  <2> QED
    BY <1>2, <1>3, <1>4, <2>2 DEF Forgotten
<1>10. /\ poll' \in [Polls -> PollRecords]
       /\ \A q \in Polls : \/ poll'[q] = poll[q]
                           \/ poll'[q].pc = "waiting" /\ poll'[q].login = s /\ poll'[q].ctx = c
  <2>1. c \in Ctxs
    BY <1>1, <1>3, <1>5, NewCtxFree
  <2>2. poll \in [Polls -> PollRecords] /\ [pc |-> "waiting", login |-> s, ctx |-> c] \in PollRecords
    BY <1>1, <2>1 DEF TypeOK, PollRecords
  <2> QED
    BY <1>6, <2>2
<1>11. \A t \in Logins : \/ disk'[t] = disk[t]
                         \/ disk'[t] = Absent /\ now >= disk[t].expires
                         \/ t = s /\ disk'[t] = r
  BY <1>7
<1>12. Joins(s, r) /\ DiskGains(s, r) /\ Enters(s, c)
  BY <1>7, <1>8, <1>9, <1>10, <1>11 DEF Joins, DiskGains, Enters
<1> QED
  BY <1>1, <1>3, <1>6, <1>7, <1>12, NewStep

(***************************************************************************)
(* The end of a login.                                                     *)
(***************************************************************************)

\* What removeOAuthPending does, of login s and context c.
Removes(s, c) ==
    /\ loginStates' = [loginStates EXCEPT ![s] = IF loginStates[s] = c THEN None ELSE loginStates[s]]
    /\ recent' = [recent EXCEPT ![s] = IF recent[s] = c THEN None ELSE recent[s]]
    /\ disk' \in {disk, Without(disk, {s})}
    /\ reached' = [reached EXCEPT ![s] = Opened]
    /\ kept' = [kept EXCEPT ![s] = Opened]
    /\ UNCHANGED <<ctx, told>>

LEMMA RemovesEffect ==
    ASSUME IInv, NEW s \in Logins, NEW c \in Ctxs, Removes(s, c)
    PROVE  /\ loginStates' \in [Logins -> Ctxs \cup {None}] /\ recent' \in [Logins -> Ctxs \cup {None}]
           /\ \A t \in Logins : /\ loginStates'[t] \in {loginStates[t], None}
                                /\ recent'[t] \in {recent[t], None}
           /\ OneTable'
           /\ \A t \in Logins \ {s} : Held(t)' = Held(t)
           /\ Held(s)' = IF Held(s) = c THEN None ELSE Held(s)
           /\ disk' \in [Logins -> Records] /\ FilesBounded'
           /\ \A t \in Logins \ {s} : disk'[t] = disk[t]
           /\ disk'[s] \in {disk[s], Absent}
           /\ reached' \in [Logins -> Opened..Saved] /\ kept' \in [Logins -> Opened..Saved]
           /\ \A t \in Logins \ {s} : reached'[t] = reached[t] /\ kept'[t] = kept[t]
           /\ reached'[s] = Opened /\ kept'[s] = Opened
           /\ \A t \in Logins : RecordsOf(t)' \subseteq RecordsOf(t)
<1>1. TypeOK /\ FilesBounded /\ OneTable /\ c # None
  BY OAuthPendingConstants DEF IInv
<1>2. /\ loginStates' \in [Logins -> Ctxs \cup {None}] /\ recent' \in [Logins -> Ctxs \cup {None}]
      /\ \A t \in Logins \ {s} : loginStates'[t] = loginStates[t] /\ recent'[t] = recent[t]
      /\ loginStates'[s] = IF loginStates[s] = c THEN None ELSE loginStates[s]
      /\ recent'[s] = IF recent[s] = c THEN None ELSE recent[s]
  BY <1>1 DEF Removes, TypeOK
<1>3. \A t \in Logins \ {s} : Held(t)' = Held(t)
  BY <1>2 DEF Held
<1>4. Held(s)' = IF Held(s) = c THEN None ELSE Held(s)
  BY <1>1, <1>2 DEF Held, OneTable
<1>5. OneTable'
  BY <1>1, <1>2 DEF OneTable
<1>6. /\ disk' \in [Logins -> Records] /\ \A t \in Logins \ {s} : disk'[t] = disk[t]
      /\ disk'[s] \in {disk[s], Absent}
  <2>1. disk \in [Logins -> Records]
    BY <1>1 DEF TypeOK
  <2>2. CASE disk' = disk
    BY <2>1, <2>2
  <2>3. CASE disk' = Without(disk, {s})
    BY <2>1, <2>3, WithoutEffect
  <2> QED
    BY <2>2, <2>3 DEF Removes
<1>7. FilesBounded'
  <2>1. \A t \in Logins : disk'[t] # Absent => disk[t] # Absent
    BY <1>6
  <2>2. /\ Cardinality(Files(disk')) <= Cardinality(Files(disk))
        /\ Cardinality(Files(disk)) \in Nat /\ Cardinality(Files(disk')) \in Nat
    BY <2>1, FewerFiles
  <2>3. Cardinality(Files(disk')) <= MaxFiles
    BY <1>1, <2>2, OAuthPendingConstants DEF FilesBounded
  <2> QED
    BY <2>3 DEF FilesBounded
<1>8. /\ reached' \in [Logins -> Opened..Saved] /\ kept' \in [Logins -> Opened..Saved]
      /\ \A t \in Logins \ {s} : reached'[t] = reached[t] /\ kept'[t] = kept[t]
      /\ reached'[s] = Opened /\ kept'[s] = Opened
  BY <1>1 DEF Removes, TypeOK, Opened, Saved
<1>9. \A t \in Logins : RecordsOf(t)' \subseteq RecordsOf(t)
  BY <1>6 DEF RecordsOf, Removes
<1> QED
  BY <1>2, <1>3, <1>4, <1>5, <1>6, <1>7, <1>8, <1>9

\* An ended login, with the context the table holds or one it has given up: what
\* may be found of it again is a record without a token, once that was given away.
LEMMA EndedRecord ==
    ASSUME IInv, NEW s \in Logins, NEW c \in Ctxs, ctx[c] # None, ctx[c].login = s,
           now >= ctx[c].rec.expires, c = Held(s) \/ Forgotten(s, c)
    PROVE  /\ disk[s] # Absent /\ now < disk[s].expires => disk[s].stage = Opened /\ up[s] = "consumed"
           /\ ~(now < told[s].until)
<1> DEFINE a == ctx[c].rec
<1>1. /\ TypeOK /\ RecordsInv /\ ToldRight(s) /\ MemoryAhead(s) /\ Durable(s) /\ c # None
  BY OAuthPendingConstants DEF IInv, LoginFits
<1>2. /\ a \in RecordsOf(s) /\ a \in Records /\ Fits(s, a)
  BY <1>1, InRecordsOf, RecordsTyped DEF RecordsInv, RecordsFit
<1>3. /\ now \in Nat /\ a.expires \in Nat /\ a.stage \in 0..3
      /\ disk[s].expires \in Nat /\ disk[s].stage \in 0..3
      /\ told[s].until \in Nat /\ told[s].stage \in 0..3
  BY <1>1, <1>2 DEF TypeOK, Records, Times, Opened, Saved
<1>4. ASSUME disk[s] # Absent, now < disk[s].expires
      PROVE  disk[s].stage = Opened /\ up[s] = "consumed"
  <2>1. disk[s] \in RecordsOf(s) /\ Fits(s, disk[s]) /\ Agree(disk[s], a)
    BY <1>1, <1>2, <1>4, InRecordsOf DEF RecordsInv, RecordsFit, RecordsAgree
  <2>2. CASE Forgotten(s, c)
    BY <1>4, <2>2 DEF Forgotten
  <2>3. CASE c = Held(s)
    <3>1. a.stage >= disk[s].stage
      BY <1>1, <1>4, <2>3 DEF MemoryAhead
    <3>2. disk[s].stage = Opened
      BY <1>3, <1>4, <2>1, <3>1 DEF Agree, Opened
    <3>3. a.stage # Opened
      BY <1>2, <1>3, <1>4, <2>1, <3>2 DEF Agree, Fits
    <3> QED
      BY <1>2, <3>2, <3>3 DEF Fits
  <2> QED
    BY <2>2, <2>3
<1>5. ASSUME now < told[s].until
      PROVE  FALSE
  <2>1. disk[s] # Absent /\ disk[s].stage >= told[s].stage /\ told[s].until # 0 /\ told[s].stage >= 2
    BY <1>1, <1>3, <1>5 DEF Durable, ToldRight, Result
  <2>2. disk[s] \in RecordsOf(s) /\ disk[s].stage # Opened
    BY <1>3, <2>1, InRecordsOf DEF Opened
  <2>3. now < disk[s].expires
    BY <1>1, <1>5, <2>1, <2>2 DEF ToldRight
  <2> QED
    BY <1>4, <2>1, <2>2, <2>3
<1> QED
  BY <1>4, <1>5

LEMMA RemoveStep ==
    ASSUME IInv, NEW s \in Logins, NEW c \in Ctxs, Removes(s, c),
           ctx[c] # None, ctx[c].login = s, ~Locked(c),
           now >= ctx[c].rec.expires, c = Held(s) \/ Forgotten(s, c),
           UNCHANGED <<now, up, store, initErr, crashes>>,
           poll' \in [Polls -> PollRecords], \A q \in Polls : poll'[q] \in {poll[q], Idle}
    PROVE  IInv'
<1>1. /\ TypeOK /\ RecordsInv /\ Mutex /\ \A q \in Polls : PollFits(q)
      /\ ToldRight(s) /\ FreshUntouched(s) /\ MemoryAhead(s) /\ DiskKeeps(s) /\ Durable(s)
      /\ c # None /\ now' = now /\ ctx' = ctx /\ told' = told /\ up' = up
  BY OAuthPendingConstants DEF IInv, LoginFits, Removes
<1>2. Onward
  BY <1>1, StandStill
<1>3. /\ loginStates' \in [Logins -> Ctxs \cup {None}] /\ recent' \in [Logins -> Ctxs \cup {None}]
      /\ \A t \in Logins : /\ loginStates'[t] \in {loginStates[t], None}
                           /\ recent'[t] \in {recent[t], None}
      /\ OneTable'
      /\ \A t \in Logins \ {s} : Held(t)' = Held(t)
      /\ Held(s)' = IF Held(s) = c THEN None ELSE Held(s)
      /\ disk' \in [Logins -> Records] /\ FilesBounded'
      /\ \A t \in Logins \ {s} : disk'[t] = disk[t]
      /\ disk'[s] \in {disk[s], Absent}
      /\ reached' \in [Logins -> Opened..Saved] /\ kept' \in [Logins -> Opened..Saved]
      /\ \A t \in Logins \ {s} : reached'[t] = reached[t] /\ kept'[t] = kept[t]
      /\ reached'[s] = Opened /\ kept'[s] = Opened
      /\ \A t \in Logins : RecordsOf(t)' \subseteq RecordsOf(t)
  BY RemovesEffect
<1>4. /\ disk[s] # Absent /\ now < disk[s].expires => disk[s].stage = Opened /\ up[s] = "consumed"
      /\ ~(now < told[s].until)
  BY EndedRecord
<1>5. RecordsInv'
  BY <1>1, <1>2, <1>3, RecordsStep
<1>6. \A t \in Logins \ {s} : Untouched(t)
  BY <1>1, <1>3 DEF Untouched
<1>7. \A t \in Logins : LoginFits(t)'
  <2>1. LoginFits(s)'
    <3>1. disk[s].stage \in 0..3 /\ (Held(s) # None => ctx[Held(s)].rec.stage \in 0..3)
      BY <1>1, HeldRecord DEF TypeOK, Records, Opened, Saved
    <3>2. ToldRight(s)' /\ Durable(s)'
      BY <1>1, <1>3, <1>4 DEF ToldRight, Durable
    <3>3. FreshUntouched(s)'
      BY <1>3 DEF FreshUntouched
    <3>4. MemoryAhead(s)'
      BY <1>1, <1>3, <3>1 DEF MemoryAhead, Opened
    <3>5. DiskKeeps(s)'
      BY <1>3, <3>1 DEF DiskKeeps, Opened
    <3> QED
      BY <3>2, <3>3, <3>4, <3>5 DEF LoginFits
  <2>2. \A t \in Logins \ {s} : LoginFits(t)'
    BY <1>2, <1>3, <1>6, UntouchedLogin
  <2> QED
    BY <2>1, <2>2
<1>8. ASSUME NEW q \in Polls, poll'[q] = poll[q]
      PROVE  PollFits(q)'
  <2> SUFFICES ASSUME poll[q].pc # "idle"
               PROVE  PollFits(q)'
    BY <1>8 DEF PollFits
  <2>1. PICK t \in Logins, d \in Ctxs :
           /\ t = poll[q].login /\ d = poll[q].ctx /\ PollFits(q) /\ poll[q].pc \in {"waiting"} \cup Holding
    BY <1>1 DEF PollFits, TypeOK
  <2>2. CASE t # s
    <3>1. Untouched(t) /\ ctx'[d] = ctx[d]
      BY <1>1, <1>6, <2>2
    <3> QED
      BY <1>2, <1>8, <2>1, <3>1, UntouchedPoll
  <2>3. CASE t = s /\ d # Held(s)
    <3>1. Forgotten(s, d) /\ poll[q].pc = "waiting"
      BY <2>1, <2>3 DEF PollFits
    <3>2. Forgotten(s, d)'
      BY <1>1, <1>3, <3>1 DEF Forgotten
    <3> QED
      BY <1>8, <2>1, <2>3, <3>1, <3>2 DEF PollFits, At, Holding, Checkpointed
  <2>4. CASE t = s /\ d = Held(s) /\ d = c
    <3>1. poll[q].pc = "waiting"
      BY <2>1, <2>4 DEF Locked
    <3>2. Held(s)' = None
      BY <1>3, <2>4
    <3>3. Forgotten(s, c)'
      BY <1>1, <1>3, <1>4, <3>2 DEF Forgotten
    <3> QED
      BY <1>8, <2>1, <2>4, <3>1, <3>3 DEF PollFits, At, Holding, Checkpointed
  <2>5. CASE t = s /\ d = Held(s) /\ d # c
    <3>1. Held(s)' = Held(s) /\ ctx[d].rec.stage = Opened
      BY <1>3, <2>5, OAuthPendingConstants DEF Forgotten
    <3>2. poll[q].pc \notin {"account", "save"}
      BY <2>1, <3>1 DEF PollFits, At, Opened, Token, Result
    <3>3. At(poll'[q].pc, ctx'[d].rec.stage)
      BY <1>1, <1>8, <2>1 DEF PollFits
    <3> QED
      BY <1>8, <2>1, <2>5, <3>1, <3>2, <3>3 DEF PollFits, Checkpointed
  <2> QED
    BY <2>2, <2>3, <2>4, <2>5
<1>9. \A q \in Polls : PollFits(q)'
  <2>1. \A q \in Polls : poll'[q] = Idle => PollFits(q)'
    BY DEF PollFits, Idle
  <2> QED
    BY <1>8, <2>1
<1>10. Mutex'
  <2>1. \A q \in Polls : poll'[q].pc \in Holding => poll'[q] = poll[q]
    BY DEF Holding, Idle
  <2> QED
    BY <1>1, <2>1 DEF Mutex
<1>11. TypeOK'
  <2>1. \A t \in Logins, d \in Ctxs : loginStates'[t] = d \/ recent'[t] = d => ctx'[d] # None /\ ctx'[d].login = t
    BY <1>1, <1>3, OAuthPendingConstants DEF TypeOK
  <2>2. \A q \in Polls : poll'[q].pc # "idle" => ctx'[poll'[q].ctx] # None /\ ctx'[poll'[q].ctx].login = poll'[q].login
    BY <1>1 DEF TypeOK, Idle
  <2> QED
    BY <1>1, <1>3, <2>1, <2>2 DEF TypeOK, PollRecords
<1> QED
  BY <1>3, <1>5, <1>7, <1>9, <1>10, <1>11 DEF IInv

LEMMA AcquireStep ==
    ASSUME IInv, NEW p \in Polls, Acquire(p)
    PROVE  IInv'
<1>1. /\ TypeOK /\ RecordsInv /\ Mutex /\ PollFits(p) /\ poll[p].pc # "idle"
  BY DEF IInv, Acquire
<1>2. PICK s \in Logins, c \in Ctxs :
         /\ s = poll[p].login /\ c = poll[p].ctx /\ ctx[c] # None /\ ctx[c].login = s
  BY <1>1 DEF PollFits, TypeOK
<1>3. CASE now >= ctx[c].rec.expires
  <2>1. /\ remove(c) /\ Return(p) /\ ~Locked(c) /\ UNCHANGED <<now, up, store, initErr, crashes>>
    BY <1>2, <1>3 DEF Acquire
  <2>2. Removes(s, c)
    BY <1>2, <2>1 DEF remove, Removals, Removes
  <2>3. c = Held(s) \/ Forgotten(s, c)
    BY <1>1, <1>2 DEF PollFits
  <2>4. poll' \in [Polls -> PollRecords] /\ \A q \in Polls : poll'[q] \in {poll[q], Idle}
    BY <1>1, <2>1, ReturnFits
  <2> QED
    BY <1>2, <1>3, <2>1, <2>2, <2>3, <2>4, RemoveStep
<1>4. CASE ~(now >= ctx[c].rec.expires)
  <2>1. now \in Nat /\ ctx[c].rec.expires \in Nat
    BY <1>1, <1>2, PollRecord DEF TypeOK, Records, Times
  <2>2. now < ctx[poll[p].ctx].rec.expires
    BY <1>2, <1>4, <2>1
  <2> QED
    BY <2>2, AcquireLiveStep
<1> QED
  BY <1>3, <1>4

LEMMA PruneStep ==
    ASSUME IInv, NEW c \in Ctxs, Prune(c)
    PROVE  IInv'
<1>1. TypeOK /\ OneTable /\ c # None
  BY OAuthPendingConstants DEF IInv
<1>2. PICK s \in Logins : c = Held(s) /\ ctx[c] # None /\ ctx[c].login = s
  BY <1>1 DEF Prune, TypeOK, OneTable, Held
<1>3. /\ remove(c) /\ ~Locked(c) /\ now >= ctx[c].rec.expires
      /\ UNCHANGED <<now, up, store, initErr, crashes>> /\ poll' = poll
  BY DEF Prune
<1>4. Removes(s, c)
  BY <1>2, <1>3 DEF remove, Removals, Removes
<1>5. poll' \in [Polls -> PollRecords] /\ \A q \in Polls : poll'[q] \in {poll[q], Idle}
  BY <1>1, <1>3 DEF TypeOK, PollRecords
<1> QED
  BY <1>2, <1>3, <1>4, <1>5, RemoveStep

\* A restart forgets the contexts and the polls; what remains known of a login is
\* what the disk has.
LEMMA CrashStep ==
    ASSUME IInv, Crash
    PROVE  IInv'
<1>1. TypeOK /\ RecordsInv /\ FilesBounded /\ \A s \in Logins : LoginFits(s)
  BY DEF IInv
<1>2. /\ loginStates' = [s \in Logins |-> None] /\ recent' = [s \in Logins |-> None]
      /\ ctx' = [c \in Ctxs |-> None] /\ poll' = [p \in Polls |-> Idle]
      /\ crashes' = crashes + 1 /\ crashes < MaxCrashes
      /\ store' = FALSE /\ initErr' = FALSE /\ reached' = kept
      /\ UNCHANGED <<now, up, disk, kept, told>>
  BY DEF Crash
<1>3. Onward
  BY <1>1, <1>2, StandStill
<1>4. \A s \in Logins : RecordsOf(s)' \subseteq RecordsOf(s)
  BY <1>2 DEF RecordsOf
<1>5. RecordsInv'
  BY <1>1, <1>3, <1>4, RecordsStep
<1>6. \A s \in Logins : LoginFits(s)'
  <2> SUFFICES ASSUME NEW s \in Logins
               PROVE  LoginFits(s)'
    OBVIOUS
  <2>1. ToldRight(s) /\ FreshUntouched(s) /\ DiskKeeps(s) /\ Durable(s) /\ kept[s] \in 0..3
    BY <1>1 DEF LoginFits, TypeOK, Opened, Saved
  <2>2. Held(s)' = None
    BY <1>2 DEF Held
  <2>3. ToldRight(s)' /\ Durable(s)'
    BY <1>2, <1>4, <2>1 DEF ToldRight, Durable
  <2>4. FreshUntouched(s)' /\ MemoryAhead(s)'
    BY <1>2, <2>1, <2>2 DEF FreshUntouched, MemoryAhead
  <2>5. DiskKeeps(s)'
    BY <1>2, <2>1 DEF DiskKeeps
  <2> QED
    BY <2>3, <2>4, <2>5 DEF LoginFits
<1>7. \A q \in Polls : poll'[q].pc = "idle"
  BY <1>2 DEF Idle
<1>8. (\A q \in Polls : PollFits(q)') /\ Mutex'
  BY <1>7 DEF PollFits, Mutex, Holding
<1>9. FilesBounded' /\ OneTable'
  BY <1>1, <1>2 DEF FilesBounded, OneTable
<1>10. TypeOK'
  <2>1. /\ now' \in 0..MaxNow /\ store' \in BOOLEAN /\ initErr' \in BOOLEAN
        /\ up' \in [Logins -> {"fresh", "refused", "open", "authorised", "consumed"}]
        /\ disk' \in [Logins -> Records]
        /\ reached' \in [Logins -> Opened..Saved] /\ kept' \in [Logins -> Opened..Saved]
        /\ told' \in [Logins -> [stage: Opened..Saved, until: Times]]
    BY <1>1, <1>2 DEF TypeOK
  <2>5. crashes' \in 0..MaxCrashes
    <3>1. crashes \in 0..MaxCrashes /\ MaxCrashes \in Nat
      BY <1>1, OAuthPendingConstants DEF TypeOK
    <3> QED
      BY <1>2, <3>1
  <2>2. /\ loginStates' \in [Logins -> Ctxs \cup {None}] /\ recent' \in [Logins -> Ctxs \cup {None}]
        /\ ctx' \in [Ctxs -> Contexts \cup {None}]
    BY <1>2
  <2>3. poll' \in [Polls -> PollRecords]
    BY <1>2 DEF PollRecords, Idle
  <2>4. \A s \in Logins, c \in Ctxs : loginStates'[s] = c \/ recent'[s] = c => ctx'[c] # None /\ ctx'[c].login = s
    BY <1>2, OAuthPendingConstants
  <2> QED
    BY <1>7, <2>1, <2>2, <2>3, <2>4, <2>5 DEF TypeOK, PollRecords
<1> QED
  BY <1>5, <1>6, <1>8, <1>9, <1>10 DEF IInv

(***************************************************************************)
(* The theorems.                                                           *)
(***************************************************************************)

LEMMA InitInv ==
    ASSUME Init
    PROVE  IInv
<1>1. \A s \in Logins : RecordsOf(s) = {} /\ Held(s) = None /\ disk[s] = Absent
  BY DEF Init, RecordsOf, Held
<1>2. RecordsInv
  BY <1>1 DEF RecordsInv, RecordsFit, RecordsAgree
<1>3. /\ Untold \in [stage: Opened..Saved, until: Times] /\ Untold.until = 0
      /\ Absent \in Records /\ Idle \in PollRecords /\ Idle.pc = "idle"
  BY DEF Untold, Absent, Records, Times, Opened, Saved, Idle, PollRecords
<1>4. /\ told \in [Logins -> [stage: Opened..Saved, until: Times]]
      /\ disk \in [Logins -> Records] /\ poll \in [Polls -> PollRecords]
      /\ \A q \in Polls : poll[q].pc = "idle"
      /\ \A s \in Logins : told[s].until = 0 /\ reached[s] = Opened /\ kept[s] = Opened
  BY <1>3 DEF Init
<1>5. TypeOK
  <2>4. now \in 0..MaxNow /\ crashes \in 0..MaxCrashes /\ Opened \in Opened..Saved
    BY OAuthPendingConstants DEF Init, Opened, Saved
  <2>1. /\ store \in BOOLEAN /\ initErr \in BOOLEAN
        /\ up \in [Logins -> {"fresh", "refused", "open", "authorised", "consumed"}]
        /\ reached \in [Logins -> Opened..Saved] /\ kept \in [Logins -> Opened..Saved]
    BY <2>4 DEF Init
  <2>2. /\ loginStates \in [Logins -> Ctxs \cup {None}] /\ recent \in [Logins -> Ctxs \cup {None}]
        /\ ctx \in [Ctxs -> Contexts \cup {None}]
    BY DEF Init
  <2>3. \A s \in Logins, c \in Ctxs : loginStates[s] = c \/ recent[s] = c => ctx[c] # None /\ ctx[c].login = s
    BY OAuthPendingConstants DEF Init
  <2> QED
    BY <1>4, <2>1, <2>2, <2>3, <2>4 DEF TypeOK, PollRecords
<1>6. FilesBounded
  <2>1. Files(disk) = {}
    BY <1>1 DEF Files
  <2> QED
    BY <2>1, FS_EmptySet, OAuthPendingConstants DEF FilesBounded
<1>7. \A s \in Logins : LoginFits(s)
  <2> SUFFICES ASSUME NEW s \in Logins
               PROVE  LoginFits(s)
    OBVIOUS
  <2>1. now = 0
    BY DEF Init
  <2> QED
    BY <1>1, <1>4, <2>1 DEF LoginFits, ToldRight, FreshUntouched, MemoryAhead, DiskKeeps, Durable, Opened
<1>8. OneTable /\ Mutex /\ \A q \in Polls : PollFits(q)
  BY <1>4 DEF Init, OneTable, Mutex, PollFits, Holding
<1> QED
  BY <1>2, <1>5, <1>6, <1>7, <1>8 DEF IInv

LEMMA StutterInv ==
    ASSUME IInv, UNCHANGED vars
    PROVE  IInv'
<1>1. TypeOK /\ UNCHANGED <<now, up, loginStates, recent, ctx, disk, store, initErr, crashes, reached, kept, told, poll>>
  BY DEF vars, memory, history, IInv
<1> QED
  BY <1>1, SameDisk, StandStill, QuietStep DEF TypeOK

LEMMA NextInv ==
    ASSUME IInv, Next
    PROVE  IInv'
<1>1. CASE configureOAuthPending \/ PruneScan \/ Crash \/ Tick
  BY <1>1, ConfigureStep, PruneScanStep, CrashStep, TickStep
<1>2. CASE \E s \in Logins : Start(s) \/ Authorise(s)
  BY <1>2, StartStep, AuthoriseStep
<1>3. CASE \E p \in Polls, s \in Polled : Lookup(p, s) \/ Restore(p, s) \/ Discard(p, s)
  BY <1>3, LookupStep, RestoreStep, DiscardStep
<1>4. CASE \E p \in Polls : Acquire(p) \/ Step(p)
  <2> SUFFICES ASSUME NEW p \in Polls, Acquire(p) \/ Step(p)
               PROVE  IInv'
    BY <1>4
  <2>1. CASE Acquire(p)
    BY <2>1, AcquireStep
  <2>2. CASE Step(p)
    BY <2>2, BlockedStep, NoTokenStep, GetTokenStep, KeepStep, AccountUnusableStep,
       AccountFailsStep, GetAccountStep, KeepResultStep, SaveFailsStep, SaveStep, KeepSavedStep
       DEF Step
  <2> QED
    BY <2>1, <2>2
<1>5. CASE \E c \in Ctxs : Prune(c)
  BY <1>5, PruneStep
<1> QED
  BY <1>1, <1>2, <1>3, <1>4, <1>5 DEF Next

\* Whatever the polls, the janitor, the operator and the restarts do, memory, disk
\* and what clients were told stay in agreement (oauth_pending.go,
\* oauth_pending_flow.go, oauth_pending_store_unix.go).
THEOREM PendingInductive == Spec => []IInv
<1>1. Init => IInv
  BY InitInv
<1>2. IInv /\ [Next]_vars => IInv'
  BY NextInv, StutterInv
<1> QED
  BY <1>1, <1>2, PTL DEF Spec

\* Every variable keeps its type, and a context in a table or in use is one of its
\* own login (lookupOAuthPending).
THEOREM PendingTyped == Spec => []TypeOK
<1>1. IInv => TypeOK
  BY DEF IInv
<1> QED
  BY <1>1, PendingInductive, PTL

\* The directory stays usable: no more records than oauthPendingMaxFiles, and every
\* context in memory one that write accepts (registerOAuthPending, write,
\* validOAuthPendingRecord).
THEOREM DirectoryStaysUsable == Spec => []DirectoryUsable
<1>1. IInv => DirectoryUsable
  BY HeldRecord DEF IInv, DirectoryUsable, AlwaysWritable, Fits
<1> QED
  BY <1>1, PendingInductive, PTL

\* Neither the token nor the account is asked for twice, and the credential is not
\* saved twice, by whichever poll, as far as the process or its disk knows of it
\* (pollOAuthPending).
THEOREM NothingRepeated == Spec => []NeverRepeated
<1>1. IInv => NeverRepeated
  <2> SUFFICES ASSUME IInv, NEW p \in Polls
               PROVE  /\ poll[p].pc = "token" => reached[poll[p].login] = Opened
                      /\ poll[p].pc = "account" => reached[poll[p].login] <= Token
                      /\ poll[p].pc = "save" => reached[poll[p].login] <= Result
    BY DEF NeverRepeated
  <2>1. CASE poll[p].pc \in {"token", "account", "save"}
    <3>1. /\ TypeOK /\ PollFits(p) /\ poll[p].pc \in Holding /\ poll[p].pc # "idle"
      BY <2>1 DEF IInv, Holding
    <3>2. PICK s \in Logins, c \in Ctxs : s = poll[p].login /\ c = poll[p].ctx /\ c = Held(s)
      BY <3>1 DEF PollFits
    <3>3. /\ MemoryAhead(s) /\ c # None /\ reached[s] \in 0..3
      BY <3>1, OAuthPendingConstants DEF IInv, LoginFits, TypeOK, Opened, Saved
    <3>4. ctx[c].rec.stage >= reached[s] /\ At(poll[p].pc, ctx[c].rec.stage)
      BY <3>1, <3>2, <3>3 DEF MemoryAhead, PollFits
    <3> QED
      BY <2>1, <3>2, <3>3, <3>4 DEF At, Opened, Token, Result
  <2>2. CASE ~(poll[p].pc \in {"token", "account", "save"})
    BY <2>2
  <2> QED
    BY <2>1, <2>2
<1> QED
  BY <1>1, PendingInductive, PTL

\* One poll at a time acts for a login, also after its context was lost and read
\* back: the mutex is the context's, and the table is the only way to one that still
\* lives (lookupOAuthPending, loginCtx.mu).
THEOREM LoginsHaveOneConsumer == Spec => []OneConsumer
<1>1. IInv => OneConsumer
  <2> SUFFICES ASSUME IInv, NEW p \in Polls, NEW q \in Polls,
                      poll[p].pc \in Holding, poll[q].pc \in Holding, poll[p].login = poll[q].login
               PROVE  p = q
    BY DEF OneConsumer
  <2>1. PollFits(p) /\ PollFits(q) /\ poll[p].pc # "idle" /\ poll[q].pc # "idle" /\ Mutex
    BY DEF IInv, Holding
  <2>2. poll[p].ctx = poll[q].ctx
    BY <2>1 DEF PollFits
  <2> QED
    BY <2>1, <2>2 DEF Mutex
<1> QED
  BY <1>1, PendingInductive, PTL

\* The account is looked up, and the credential saved, only after the stage before
\* was acknowledged on disk (pollOAuthPending).
THEOREM CheckpointsComeFirst == Spec => []CheckpointFirst
<1>1. IInv => CheckpointFirst
  BY DEF IInv, CheckpointFirst, PollFits, Checkpointed
<1> QED
  BY <1>1, PendingInductive, PTL

\* A login reported as successful is on disk, at that stage, for as long as a client
\* may ask for it again, through every restart (persistOAuthPending, lookupOAuthPending).
THEOREM SuccessIsDurable == Spec => []SuccessDurable
<1>1. IInv => SuccessDurable
  BY DEF IInv, LoginFits, Durable, SuccessDurable
<1> QED
  BY <1>1, PendingInductive, PTL
=============================================================================
