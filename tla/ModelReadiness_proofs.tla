------------------------ MODULE ModelReadiness_proofs ------------------------
(***************************************************************************)
(* The inductive invariant of ModelReadiness, and what follows from it for *)
(* any number of discoveries, accounts, tokens, identities and writers.    *)
(*                                                                         *)
(* A step of a call either stays beside the slots and the identities       *)
(* (CalmStep), or numbers or settles the call at its identity              *)
(* (NumbersStep), or changes the slot of its account (SlotStep).           *)
(***************************************************************************)
EXTENDS ModelReadiness, TLAPS

(***************************************************************************)
(* What holds between any two steps.                                       *)
(***************************************************************************)
InFlight == {"identity", "load", "fetch", "save", "shared", "wait", "meta", "look", "mwait",
             "mfetch", "finish"}
Numbered == {"load", "fetch", "save"}

CallRecords ==
    [pc: Phases, auth: Auths \cup {NoToken}, tok: Tokens \cup {Bad, NoToken}, key: Keys, gen: Nat,
     list: Lists \cup {NoList}, seq: Nat, waits: SUBSET Nat, owner: Calls \cup {NoCall},
     model: Sources, cached: BOOLEAN, meta: Sources, mcached: BOOLEAN,
     mcall: Sources \cup {"open", "dropped"}, refresh: BOOLEAN, force: BOOLEAN,
     prev: Snapshots \cup {Nil}]
Commits == [pc: {"idle"}] \cup [pc: {"read"}, prev: Features, next: Features]

Typed == TypeOK /\ call \in [Calls -> CallRecords] /\ commit \in [Writers -> Commits]

\* What a call's record must hold for its next step.
Fits(c) ==
    /\ c.pc \notin {"idle", "done"} => c.auth \in Auths
    /\ c.pc = "enter" => c.tok \in Tokens \cup {Bad}
    /\ c.pc \in InFlight => c.tok \in Tokens
    /\ c.pc \in {"joined", "mwait"} => c.owner \in Calls
    /\ c.pc = "restore" => c.prev \in Snapshots /\ c.prev.state \in Executable
CallFits(p) == Fits(call[p]) /\ (call[p].pc \in InFlight => call[p].key.cfg <= gen)

\* The registered calls of a slot: one to a generation, none of the future.
Registered(a, p) ==
    /\ call[p].pc \in InFlight /\ call[p].auth = a
    /\ call[p].gen <= slot[a].next
OneFlight(a) == \A p, q \in slot[a].calls : call[p].gen = call[q].gen => p = q

\* What a slot shows belongs to its key and auth generation.
Belongs(a) ==
    slot[a].cur # Nil =>
        /\ slot[a].cur.auth = slot[a].next /\ slot[a].cur.cfg = slot[a].key.cfg
        /\ ~slot[a].cur.restored => slot[a].cur.for = slot[a].key

\* Someone is going to replace a "loading" that can be seen.
Owned(a) ==
    slot[a].cur # Nil /\ slot[a].cur.state = "loading" /\ slot[a].cur.cfg = gen =>
        \E p \in slot[a].calls : call[p].key = slot[a].key /\ call[p].gen = slot[a].next

SlotFits(a) ==
    /\ slot[a].key.cfg <= gen /\ Belongs(a) /\ Owned(a) /\ OneFlight(a)
    /\ \A p \in slot[a].calls : Registered(a, p)

\* The identity's calls are numbered in the order they start, and what is on disk
\* is the catalog of one that is over.
IdentFits(i) ==
    /\ disk[i] = [cfg |-> ident[i].cfg, seq |-> ident[i].seq]
    /\ ident[i].cfg <= gen /\ ident[i].seq <= ident[i].next
    /\ ident[i].seq \notin ident[i].active
    /\ \A n \in ident[i].active : n <= ident[i].next

\* A numbered call is active under its own number, and one of a later config
\* generation than the saved catalog started after the call that saved it.
NumberOf(p, i) == call[p].pc \in Numbered /\ IdentityOf[call[p].tok] = i
NumberFits(p, i) ==
    NumberOf(p, i) =>
        /\ call[p].seq \in ident[i].active
        /\ call[p].key.cfg > ident[i].cfg => call[p].seq > ident[i].seq
OneNumber(i) ==
    \A p, q \in Calls : NumberOf(p, i) /\ NumberOf(q, i) /\ call[p].seq = call[q].seq => p = q

CallsFit == \A p \in Calls : CallFits(p)
SlotsFit == \A a \in Auths : SlotFits(a)
NumbersFit == \A i \in Identities : IdentFits(i) /\ OneNumber(i) /\ \A p \in Calls : NumberFits(p, i)
IInv == Typed /\ CallsFit /\ SlotsFit /\ NumbersFit

(***************************************************************************)
(* One writer at a time: the configured list in force.                     *)
(***************************************************************************)
OneWriter == \A v, w \in Writers : v = w

ListOfCalls ==
    \A p \in Calls : call[p].pc \in InFlight /\ call[p].key.cfg = gen => call[p].list = features.list
ListOfSlots ==
    \A a \in Auths :
        LET s == slot[a].cur IN
        s # Nil /\ ~s.restored /\ s.cfg = gen /\ s.state \in Executable => s.list = features.list
ListOfWriters ==
    \A w \in Writers : commit[w].pc = "read" => commit[w].prev = features
ListsFit == ListOfCalls /\ ListOfSlots /\ ListOfWriters

\* What a step has to show.
Kept == IInv' /\ (OneWriter /\ ListsFit => ListsFit')

(***************************************************************************)
(* Records of calls, snapshots and keys.                                   *)
(***************************************************************************)

LEMMA BlankTyped ==
    ASSUME NEW g \in Nat
    PROVE  BlankKey(g) \in Keys /\ BlankKey(g).cfg = g
  BY DEF BlankKey, Keys

LEMMA SnapshotTyped ==
    ASSUME NEW st \in States, NEW g \in Nat, NEW n \in Nat, NEW k \in Keys, NEW l \in Lists \cup {NoList}
    PROVE  LET s == Snapshot(st, g, n, k, l)
           IN  /\ s \in Snapshots /\ s # Nil /\ s.state = st /\ s.cfg = g /\ s.auth = n /\ s.for = k
               /\ s.list = l /\ s.restored = FALSE
<1> DEFINE s == Snapshot(st, g, n, k, l)
<1>1. /\ s \in Snapshots /\ s.state = st /\ s.cfg = g /\ s.auth = n /\ s.for = k
      /\ s.list = l /\ s.restored = FALSE
  BY DEF Snapshot, Snapshots
<1>2. Nil.state = "nil"
  BY DEF Nil
<1>3. s # Nil
  BY <1>1, <1>2 DEF States
<1> QED
  BY <1>1, <1>3

\* A snapshot is none of the missing ones.
LEMMA NilState ==
    /\ Nil.state \notin States /\ Nil \notin Snapshots
    /\ \A s \in Snapshots \cup {Nil} : s.state \in Executable => s \in Snapshots
    /\ Executable \subseteq States
<1>1. Nil.state = "nil"
  BY DEF Nil
<1>2. Nil.state \notin States /\ Executable \subseteq States
  BY <1>1 DEF States, Executable
<1>3. \A s \in Snapshots : s.state \in States
  BY DEF Snapshots
<1> QED
  BY <1>2, <1>3

LEMMA IdleTyped ==
    IdleCall \in CallRecords /\ IdleCall.pc = "idle" /\ IdleCall.seq = 0
<1>1. BlankKey(0) \in Keys
  BY BlankTyped
<1> QED
  BY <1>1 DEF IdleCall, CallRecords, Phases, Sources

\* A call's record with another value in one of its fields.
LEMMA Updates ==
    \A c \in CallRecords :
        /\ \A v \in Phases : [c EXCEPT !.pc = v] \in CallRecords
        /\ \A v \in Auths \cup {NoToken} : [c EXCEPT !.auth = v] \in CallRecords
        /\ \A v \in Tokens \cup {Bad, NoToken} : [c EXCEPT !.tok = v] \in CallRecords
        /\ \A v \in Keys : [c EXCEPT !.key = v] \in CallRecords
        /\ \A v \in Nat : [c EXCEPT !.gen = v] \in CallRecords
        /\ \A v \in Lists \cup {NoList} : [c EXCEPT !.list = v] \in CallRecords
        /\ \A v \in Nat : [c EXCEPT !.seq = v] \in CallRecords
        /\ \A v \in SUBSET Nat : [c EXCEPT !.waits = v] \in CallRecords
        /\ \A v \in Calls \cup {NoCall} : [c EXCEPT !.owner = v] \in CallRecords
        /\ \A v \in Sources : [c EXCEPT !.model = v] \in CallRecords
        /\ \A v \in BOOLEAN : [c EXCEPT !.cached = v] \in CallRecords
        /\ \A v \in Sources : [c EXCEPT !.meta = v] \in CallRecords
        /\ \A v \in BOOLEAN : [c EXCEPT !.mcached = v] \in CallRecords
        /\ \A v \in Sources \cup {"open", "dropped"} : [c EXCEPT !.mcall = v] \in CallRecords
        /\ \A v \in BOOLEAN : [c EXCEPT !.refresh = v] \in CallRecords
        /\ \A v \in BOOLEAN : [c EXCEPT !.force = v] \in CallRecords
        /\ \A v \in Snapshots \cup {Nil} : [c EXCEPT !.prev = v] \in CallRecords
<1> TAKE c \in CallRecords
<1>1. \A v \in Phases : [c EXCEPT !.pc = v] \in CallRecords
  BY DEF CallRecords
<1>2. \A v \in Auths \cup {NoToken} : [c EXCEPT !.auth = v] \in CallRecords
  BY DEF CallRecords
<1>3. \A v \in Tokens \cup {Bad, NoToken} : [c EXCEPT !.tok = v] \in CallRecords
  BY DEF CallRecords
<1>4. \A v \in Keys : [c EXCEPT !.key = v] \in CallRecords
  BY DEF CallRecords
<1>5. \A v \in Nat : [c EXCEPT !.gen = v] \in CallRecords
  BY DEF CallRecords
<1>6. \A v \in Lists \cup {NoList} : [c EXCEPT !.list = v] \in CallRecords
  BY DEF CallRecords
<1>7. \A v \in Nat : [c EXCEPT !.seq = v] \in CallRecords
  BY DEF CallRecords
<1>8. \A v \in SUBSET Nat : [c EXCEPT !.waits = v] \in CallRecords
  BY DEF CallRecords
<1>9. \A v \in Calls \cup {NoCall} : [c EXCEPT !.owner = v] \in CallRecords
  BY DEF CallRecords
<1>10. \A v \in Sources : [c EXCEPT !.model = v] \in CallRecords
  BY DEF CallRecords
<1>11. \A v \in BOOLEAN : [c EXCEPT !.cached = v] \in CallRecords
  BY DEF CallRecords
<1>12. \A v \in Sources : [c EXCEPT !.meta = v] \in CallRecords
  BY DEF CallRecords
<1>13. \A v \in BOOLEAN : [c EXCEPT !.mcached = v] \in CallRecords
  BY DEF CallRecords
<1>14. \A v \in Sources \cup {"open", "dropped"} : [c EXCEPT !.mcall = v] \in CallRecords
  BY DEF CallRecords
<1>15. \A v \in BOOLEAN : [c EXCEPT !.refresh = v] \in CallRecords
  BY DEF CallRecords
<1>16. \A v \in BOOLEAN : [c EXCEPT !.force = v] \in CallRecords
  BY DEF CallRecords
<1>17. \A v \in Snapshots \cup {Nil} : [c EXCEPT !.prev = v] \in CallRecords
  BY DEF CallRecords
<1> QED
  BY <1>1, <1>2, <1>3, <1>4, <1>5, <1>6, <1>7, <1>8, <1>9, <1>10, <1>11, <1>12, <1>13, <1>14, <1>15, <1>16, <1>17

LEMMA OverTyped ==
    ASSUME NEW c \in CallRecords
    PROVE  Over(c) \in CallRecords /\ Over(c).pc = "done"
<1>1. PICK b \in CallRecords : b = [IdleCall EXCEPT !.pc = "done"]
  BY IdleTyped, Updates DEF Phases
<1>2. b.pc = "done"
  BY <1>1, IdleTyped DEF CallRecords
<1>3. c.mcall \in Sources \cup {"open", "dropped"}
  BY DEF CallRecords
<1>4. PICK q \in CallRecords : q = [b EXCEPT !.mcall = c.mcall]
  BY <1>1, <1>3, Updates
<1>5. q.pc = "done"
  BY <1>1, <1>2, <1>4 DEF CallRecords
<1>6. Over(c) = q
  BY <1>1, <1>4 DEF Over
<1> QED
  BY <1>5, <1>6

\* A call that returns is out of flight.
LEMMA ReturnTyped ==
    ASSUME NEW c \in CallRecords, c.auth \in Auths, NEW st
    PROVE  LET q == Return(c, st)
           IN  q \in CallRecords /\ q.pc \in {"restore", "done"} /\ Fits(q)
<1> DEFINE q == Return(c, st)
<1>1. Over(c) \in CallRecords /\ Over(c).pc = "done"
  BY OverTyped
<1>2. CASE c.refresh /\ st \notin Executable /\ c.prev.state \in Executable
  <2>1. c.prev \in Snapshots
    <3>1. c.prev \in Snapshots \cup {Nil}
      BY DEF CallRecords
    <3> QED
      BY <1>2, <3>1, NilState
  <2>2. PICK o \in CallRecords : o = Over(c)
    BY <1>1
  <2>3. PICK b \in CallRecords : b = [o EXCEPT !.pc = "restore"]
    BY <2>2, Updates DEF Phases
  <2>4. b.pc = "restore"
    BY <2>2, <2>3 DEF CallRecords
  <2>10. c.auth \in Auths \cup {NoToken}
    OBVIOUS
  <2>5. PICK d \in CallRecords : d = [b EXCEPT !.auth = c.auth]
    BY <2>3, <2>10, Updates
  <2>6. d.pc = "restore" /\ d.auth = c.auth
    BY <2>3, <2>4, <2>5 DEF CallRecords
  <2>7. PICK e \in CallRecords : e = [d EXCEPT !.prev = c.prev]
    BY <2>1, <2>5, Updates
  <2>8. e.pc = "restore" /\ e.auth = c.auth /\ e.prev = c.prev
    BY <2>5, <2>6, <2>7 DEF CallRecords
  <2>9. q = e
    BY <1>2, <2>2, <2>3, <2>5, <2>7 DEF Return
  <2>11. Fits(e)
    BY <1>2, <2>1, <2>8 DEF Fits, InFlight
  <2> QED
    BY <2>8, <2>9, <2>11
<1>3. CASE ~(c.refresh /\ st \notin Executable /\ c.prev.state \in Executable)
  <2>1. q = Over(c)
    BY <1>3 DEF Return
  <2>2. Fits(Over(c))
    BY <1>1 DEF Fits, InFlight
  <2> QED
    BY <1>1, <2>1, <2>2
<1> QED
  BY <1>2, <1>3

\* What a call in flight is registered with.
Follows(q, c) ==
    q.auth = c.auth /\ q.key = c.key /\ q.gen = c.gen /\ q.list = c.list /\ q.tok = c.tok

LEMMA SetPc ==
    ASSUME NEW c \in CallRecords, NEW v \in Phases
    PROVE  \E q \in CallRecords : /\ q = [c EXCEPT !.pc = v] /\ q.pc = v /\ Follows(q, c)
                                  /\ q.seq = c.seq /\ q.owner = c.owner /\ q.prev = c.prev
<1>1. PICK q \in CallRecords : q = [c EXCEPT !.pc = v]
  BY Updates
<1>2. q.pc = v /\ Follows(q, c) /\ q.seq = c.seq /\ q.owner = c.owner /\ q.prev = c.prev
  BY <1>1 DEF CallRecords, Follows
<1> QED
  BY <1>1, <1>2

\* A source for the models is found; the flight of the catalog is over.
LEMMA ChosenTyped ==
    ASSUME NEW c \in CallRecords, NEW v \in Sources
    PROVE  \E q \in CallRecords : q = Chosen(c, v) /\ q.pc = "meta" /\ Follows(q, c)
<1>1. PICK b \in CallRecords : b = [c EXCEPT !.model = v]
  BY Updates
<1>2. Follows(b, c)
  BY <1>1 DEF CallRecords, Follows
<1>3. PICK d \in CallRecords : d = [b EXCEPT !.cached = FALSE]
  BY <1>1, Updates
<1>4. Follows(d, c)
  BY <1>2, <1>3 DEF CallRecords, Follows
<1>5. PICK e \in CallRecords : e = [d EXCEPT !.seq = 0]
  BY <1>3, Updates
<1>6. Follows(e, c)
  BY <1>4, <1>5 DEF CallRecords, Follows
<1>7. PICK f \in CallRecords : f = [e EXCEPT !.waits = {}]
  BY <1>5, Updates
<1>8. Follows(f, c)
  BY <1>6, <1>7 DEF CallRecords, Follows
<1>9. PICK q \in CallRecords : q = [f EXCEPT !.pc = "meta"] /\ q.pc = "meta" /\ Follows(q, f)
  BY <1>7, SetPc DEF Phases
<1>10. Follows(q, c)
  BY <1>8, <1>9 DEF Follows
<1>11. q = Chosen(c, v)
  BY <1>1, <1>3, <1>5, <1>7, <1>9 DEF Chosen
<1> QED
  BY <1>9, <1>10, <1>11

LEMMA SourceTyped ==
    ASSUME NEW f \in BOOLEAN, NEW o \in BOOLEAN
    PROVE  selectSource(f, o) \in Sources
  BY DEF selectSource, Sources

(***************************************************************************)
(* What a step leaves alone.                                               *)
(***************************************************************************)

\* A call in flight stays in flight under its registration, or it was in none.
Keeps(c, q) ==
    \/ c.pc \in InFlight /\ q.pc \in InFlight /\ Follows(q, c)
    \/ c.pc \notin InFlight /\ q.pc \notin InFlight

\* Call p goes on as q.
Becomes(p, q) ==
    call' \in [Calls -> CallRecords] /\ call'[p] = q /\ \A r \in Calls \ {p} : call'[r] = call[r]

LEMMA BecomesTyped ==
    ASSUME Typed, NEW p \in Calls, NEW q \in CallRecords, call' = [call EXCEPT ![p] = q]
    PROVE  Becomes(p, q)
  BY DEF Typed, Becomes

LEMMA SlotKept ==
    ASSUME Typed, NEW a \in Auths, SlotFits(a), gen' \in {gen, gen + 1}, slot'[a] = slot[a],
           \A r \in slot[a].calls : call'[r].pc \in InFlight /\ Follows(call'[r], call[r])
    PROVE  SlotFits(a)'
<1>1. /\ slot[a].key.cfg \in Nat /\ gen \in Nat /\ gen' \in Nat /\ gen <= gen'
      /\ slot[a].key.cfg <= gen /\ Belongs(a) /\ Owned(a) /\ OneFlight(a)
      /\ \A r \in slot[a].calls : Registered(a, r)
  BY DEF Typed, TypeOK, Keys, SlotFits
<1>2. slot'[a].key.cfg <= gen'
  BY <1>1
<1>3. Belongs(a)'
  BY <1>1 DEF Belongs
<1>4. Owned(a)'
  <2> SUFFICES ASSUME slot[a].cur # Nil, slot[a].cur.state = "loading", slot[a].cur.cfg = gen'
               PROVE  \E r \in slot[a].calls : call'[r].key = slot[a].key /\ call'[r].gen = slot[a].next
    BY DEF Owned
  <2>1. gen' = gen
    BY <1>1 DEF Belongs
  <2>2. PICK r \in slot[a].calls : call[r].key = slot[a].key /\ call[r].gen = slot[a].next
    BY <1>1, <2>1 DEF Owned
  <2> QED
    BY <2>2 DEF Follows
<1>5. OneFlight(a)'
  BY <1>1 DEF OneFlight, Follows
<1>6. \A r \in slot'[a].calls : Registered(a, r)'
  BY <1>1 DEF Registered, Follows
<1> QED
  BY <1>2, <1>3, <1>4, <1>5, <1>6 DEF SlotFits

\* The registered calls of a slot that has nothing to do with p.
LEMMA OthersFollow ==
    ASSUME NEW a \in Auths, SlotFits(a), Typed, NEW p \in Calls, NEW q, Becomes(p, q),
           Keeps(call[p], q) \/ p \notin slot[a].calls
    PROVE  \A r \in slot[a].calls : call'[r].pc \in InFlight /\ Follows(call'[r], call[r])
<1> TAKE r \in slot[a].calls
<1>1. r \in Calls /\ call[r].pc \in InFlight
  BY DEF Typed, TypeOK, SlotFits, Registered
<1> QED
  BY <1>1 DEF Becomes, Keeps, Follows

LEMMA CallsKept ==
    ASSUME Typed, CallsFit, gen' \in {gen, gen + 1}, NEW p \in Calls, NEW q \in CallRecords,
           Becomes(p, q), Fits(q), q.pc \in InFlight => q.key.cfg <= gen
    PROVE  CallsFit'
<1>1. \A r \in Calls : call[r].pc \in InFlight => call[r].key.cfg \in Nat
  BY DEF Typed, CallRecords, Keys
<1>2. q.key.cfg \in Nat /\ gen \in Nat
  BY DEF CallRecords, Keys, Typed, TypeOK
<1> QED
  BY <1>1, <1>2 DEF CallsFit, CallFits, Becomes

LEMMA NumbersKept ==
    ASSUME Typed, NumbersFit, gen' \in {gen, gen + 1}, UNCHANGED <<ident, disk>>,
           NEW p \in Calls, NEW q \in CallRecords, Becomes(p, q),
           q.pc \in Numbered => call[p].pc \in Numbered /\ q.seq = call[p].seq /\ Follows(q, call[p])
    PROVE  NumbersFit'
<1>1. \A i \in Identities : ident[i].cfg \in Nat /\ gen \in Nat
  BY DEF Typed, TypeOK
<1>2. \A r \in Calls : call'[r].pc \in Numbered =>
          /\ call[r].pc \in Numbered /\ call'[r].seq = call[r].seq
          /\ call'[r].key = call[r].key /\ call'[r].tok = call[r].tok
  BY DEF Becomes, Follows
<1> SUFFICES ASSUME NEW i \in Identities
             PROVE  (IdentFits(i) /\ OneNumber(i) /\ \A r \in Calls : NumberFits(r, i))'
  BY DEF NumbersFit
<1>3. IdentFits(i) /\ OneNumber(i) /\ \A r \in Calls : NumberFits(r, i)
  BY DEF NumbersFit
<1>4. IdentFits(i)'
  BY <1>1, <1>3 DEF IdentFits
<1>5. OneNumber(i)'
  BY <1>2, <1>3 DEF OneNumber, NumberOf
<1>6. \A r \in Calls : NumberFits(r, i)'
  BY <1>2, <1>3 DEF NumberFits, NumberOf
<1> QED
  BY <1>4, <1>5, <1>6

LEMMA ListsKept ==
    ASSUME Typed, CallsFit, SlotsFit, ListsFit, gen' \in {gen, gen + 1},
           UNCHANGED <<features, commit, slot>>, NEW p \in Calls, NEW q \in CallRecords,
           Becomes(p, q), Keeps(call[p], q)
    PROVE  ListsFit'
<1>1. gen \in Nat /\ \A r \in Calls : call[r].pc \in InFlight => call[r].key.cfg \in Nat /\ call[r].key.cfg <= gen
  BY DEF Typed, TypeOK, CallRecords, Keys, CallsFit, CallFits
<1>2. \A a \in Auths : slot[a].cur # Nil => slot[a].cur.cfg \in Nat /\ slot[a].cur.cfg <= gen
  BY DEF SlotsFit, SlotFits, Belongs, Typed, TypeOK, Keys
<1>3. ListOfCalls'
  BY <1>1 DEF ListsFit, ListOfCalls, Becomes, Keeps, Follows
<1>4. ListOfSlots'
  BY <1>1, <1>2 DEF ListsFit, ListOfSlots
<1>5. ListOfWriters'
  BY DEF ListsFit, ListOfWriters
<1> QED
  BY <1>3, <1>4, <1>5 DEF ListsFit

LEMMA BecomesTypes ==
    ASSUME Typed, NEW p \in Calls, NEW q \in CallRecords, Becomes(p, q),
           UNCHANGED <<features, commit, storeOK, slot, ident, disk>>, gen' \in {gen, gen + 1},
           meta' \in [result: Sources, cache: BOOLEAN, call: Calls \cup {NoCall}]
    PROVE  Typed'
<1>1. gen' \in Nat
  BY DEF Typed, TypeOK
<1>2. \A r \in Calls : call'[r].pc \in Phases
  BY DEF Becomes, CallRecords
<1> QED
  BY <1>1, <1>2 DEF Typed, TypeOK, Becomes

\* A call goes on and touches neither its slot nor its identity.
LEMMA CalmStep ==
    ASSUME IInv, NEW p \in Calls, NEW q \in CallRecords, call' = [call EXCEPT ![p] = q],
           Keeps(call[p], q), Fits(q),
           q.pc \in Numbered => call[p].pc \in Numbered /\ q.seq = call[p].seq,
           UNCHANGED <<features, commit, storeOK, slot, ident, disk>>, gen' \in {gen, gen + 1},
           meta' \in [result: Sources, cache: BOOLEAN, call: Calls \cup {NoCall}]
    PROVE  Kept
<1>1. Typed /\ CallsFit /\ SlotsFit /\ NumbersFit
  BY DEF IInv
<1>2. Becomes(p, q)
  BY <1>1, BecomesTyped
<1>3. Typed'
  BY <1>1, <1>2, BecomesTypes
<1>4. q.pc \in InFlight => q.key.cfg <= gen
  BY <1>1 DEF Keeps, Follows, CallsFit, CallFits
<1>5. CallsFit'
  BY <1>1, <1>2, <1>4, CallsKept
<1>6. SlotsFit'
  <2> SUFFICES ASSUME NEW a \in Auths PROVE SlotFits(a)'
    BY DEF SlotsFit
  <2>1. SlotFits(a)
    BY <1>1 DEF SlotsFit
  <2>2. \A r \in slot[a].calls : call'[r].pc \in InFlight /\ Follows(call'[r], call[r])
    BY <1>1, <1>2, <2>1, OthersFollow
  <2> QED
    BY <1>1, <2>1, <2>2, SlotKept
<1>7. NumbersFit'
  <2>1. q.pc \in Numbered => q.pc \in InFlight
    BY DEF Numbered, InFlight
  <2>2. q.pc \in Numbered => Follows(q, call[p])
    BY <2>1 DEF Keeps
  <2> QED
    BY <1>1, <1>2, <2>2, NumbersKept
<1>8. ListsFit => ListsFit'
  BY <1>1, <1>2, ListsKept
<1> QED
  BY <1>3, <1>5, <1>6, <1>7, <1>8 DEF Kept, IInv

(***************************************************************************)
(* Calls that go on beside their slots and identities.                     *)
(***************************************************************************)
MetaTyped == meta \in [result: Sources, cache: BOOLEAN, call: Calls \cup {NoCall}]

\* What is known of a call before its step.
LEMMA CallKnown ==
    ASSUME IInv, NEW p \in Calls
    PROVE  /\ call[p] \in CallRecords /\ Fits(call[p]) /\ MetaTyped
           /\ call[p].pc \notin {"idle", "done"} => call[p].auth \in Auths
  BY DEF IInv, CallsFit, CallFits, Fits, Typed, TypeOK, MetaTyped

\* An idle call starts, from its blank record.
LEMMA Starts ==
    ASSUME NEW v \in Phases, NEW a \in Auths
    PROVE  \E q \in CallRecords : /\ q = [IdleCall EXCEPT !.pc = v, !.auth = a]
                                  /\ q.pc = v /\ q.auth = a
<1>1. PICK b \in CallRecords : b = [IdleCall EXCEPT !.pc = v] /\ b.pc = v
  BY IdleTyped, SetPc
<1>2. PICK q \in CallRecords : q = [b EXCEPT !.auth = a]
  BY Updates
<1>3. q.pc = v /\ q.auth = a
  BY <1>1, <1>2 DEF CallRecords
<1> QED
  BY <1>1, <1>2, <1>3

LEMMA BeginEnsureStep ==
    ASSUME IInv, NEW p \in Calls, NEW a \in Auths, NEW t \in Tokens \cup {Bad}, BeginEnsure(p, a, t)
    PROVE  Kept
<1>0. "enter" \in Phases
  BY DEF Phases
<1>1. PICK b \in CallRecords : /\ b = [IdleCall EXCEPT !.pc = "enter", !.auth = a]
                               /\ b.pc = "enter" /\ b.auth = a
  BY <1>0, Starts, Zenon
<1>2. PICK q \in CallRecords : q = [b EXCEPT !.tok = t]
  BY Updates
<1>3. q.pc = "enter" /\ q.auth = a /\ q.tok = t
  BY <1>1, <1>2 DEF CallRecords
<1>4. Fits(q)
  BY <1>3 DEF Fits, InFlight
<1>5. call' = [call EXCEPT ![p] = q] /\ call[p].pc = "idle"
  BY <1>1, <1>2 DEF BeginEnsure
<1>6. Keeps(call[p], q) /\ q.pc \notin Numbered
  BY <1>3, <1>5 DEF Keeps, InFlight, Numbered
<1>7. UNCHANGED <<features, commit, storeOK, slot, ident, disk>> /\ gen' = gen /\ meta' = meta
  BY DEF BeginEnsure
<1> QED
  BY <1>4, <1>5, <1>6, <1>7, CallKnown, CalmStep DEF MetaTyped

\* What a refresh captures is a snapshot.
LEMMA VisibleTyped ==
    ASSUME Typed, NEW a \in Auths
    PROVE  snapshotForAuthID(a) \in Snapshots
<1>1. slot[a].cur \in Snapshots \cup {Nil} /\ gen \in Nat
  BY DEF Typed, TypeOK
<1>2. BlankKey(gen) \in Keys
  BY <1>1, BlankTyped
<1>3. notStartedModelReadinessSnapshot(gen) \in Snapshots
  BY <1>1, <1>2, SnapshotTyped DEF notStartedModelReadinessSnapshot, States
<1> QED
  BY <1>1, <1>3 DEF snapshotForAuthID

LEMMA BeginRefreshStep ==
    ASSUME IInv, NEW p \in Calls, NEW a \in Auths, NEW force \in BOOLEAN, BeginRefresh(p, a, force)
    PROVE  Kept
<1> DEFINE v == IF force THEN "captured" ELSE "read"
<1>0. PICK u \in Phases : u = v /\ u \in {"captured", "read"}
  BY DEF Phases
<1>1. PICK b \in CallRecords : /\ b = [IdleCall EXCEPT !.pc = u, !.auth = a]
                               /\ b.pc = u /\ b.auth = a
  BY Starts, Zenon
<1>2. PICK d \in CallRecords : d = [b EXCEPT !.refresh = TRUE]
  BY Updates
<1>3. d.pc = u /\ d.auth = a
  BY <1>1, <1>2 DEF CallRecords
<1>4. PICK e \in CallRecords : e = [d EXCEPT !.force = force]
  BY Updates
<1>5. e.pc = u /\ e.auth = a
  BY <1>3, <1>4 DEF CallRecords
<1>6. PICK s \in Snapshots : s = snapshotForAuthID(a)
  BY VisibleTyped DEF IInv
<1>7. PICK q \in CallRecords : q = [e EXCEPT !.prev = s]
  BY Updates
<1>8. q.pc = u /\ q.auth = a
  BY <1>5, <1>7 DEF CallRecords
<1>9. Fits(q)
  BY <1>0, <1>8 DEF Fits, InFlight
<1>10. call' = [call EXCEPT ![p] = q] /\ call[p].pc = "idle"
  BY <1>0, <1>1, <1>2, <1>4, <1>6, <1>7 DEF BeginRefresh
<1>11. Keeps(call[p], q) /\ q.pc \notin Numbered
  BY <1>0, <1>8, <1>10 DEF Keeps, InFlight, Numbered
<1>12. UNCHANGED <<features, commit, storeOK, slot, ident, disk>> /\ gen' = gen /\ meta' = meta
  BY DEF BeginRefresh
<1> QED
  BY <1>9, <1>10, <1>11, <1>12, CallKnown, CalmStep DEF MetaTyped

LEMMA JoinedStep ==
    ASSUME IInv, NEW p \in Calls, Joined(p)
    PROVE  Kept
<1>1. call[p].pc = "joined" /\ call[p] \in CallRecords /\ call[p].auth \in Auths /\ MetaTyped
  BY CallKnown DEF Joined
<1>2. PICK st : st = snapshotForAuthID(call[p].auth).state
  OBVIOUS
<1>3. PICK q \in CallRecords : q = Return(call[p], st) /\ q.pc \in {"restore", "done"} /\ Fits(q)
  BY <1>1, ReturnTyped
<1>4. call' = [call EXCEPT ![p] = q]
  BY <1>2, <1>3 DEF Joined
<1>5. Keeps(call[p], q) /\ q.pc \notin Numbered
  BY <1>1, <1>3 DEF Keeps, InFlight, Numbered
<1>6. UNCHANGED <<features, commit, storeOK, slot, ident, disk>> /\ gen' = gen /\ meta' = meta
  BY DEF Joined
<1> QED
  BY <1>1, <1>3, <1>4, <1>5, <1>6, CalmStep DEF MetaTyped

LEMMA ReadAuthStep ==
    ASSUME IInv, NEW p \in Calls, ReadAuth(p)
    PROVE  Kept
<1>1. call[p].pc = "read" /\ call[p] \in CallRecords /\ call[p].auth \in Auths /\ MetaTyped
  BY CallKnown DEF ReadAuth
<1>2. UNCHANGED <<features, commit, storeOK, slot, ident, disk>> /\ gen' = gen /\ meta' = meta
  BY DEF ReadAuth
<1>3. CASE \E t \in Tokens \cup {Bad} :
               call' = [call EXCEPT ![p].tok = t, ![p].pc = "enter"]
  <2>1. PICK t \in Tokens \cup {Bad} : call' = [call EXCEPT ![p].tok = t, ![p].pc = "enter"]
    BY <1>3
  <2>2. PICK b \in CallRecords : b = [call[p] EXCEPT !.tok = t]
    BY <1>1, Updates
  <2>3. b.auth = call[p].auth /\ b.tok = t
    BY <1>1, <2>2 DEF CallRecords
  <2>4. PICK q \in CallRecords : q = [b EXCEPT !.pc = "enter"] /\ q.pc = "enter" /\ Follows(q, b)
    BY SetPc DEF Phases
  <2>5. Fits(q)
    BY <1>1, <2>3, <2>4 DEF Fits, InFlight, Follows
  <2>6. call' = [call EXCEPT ![p] = q]
    BY <2>1, <2>2, <2>4
  <2>7. Keeps(call[p], q) /\ q.pc \notin Numbered
    BY <1>1, <2>4 DEF Keeps, InFlight, Numbered
  <2> QED
    BY <1>1, <1>2, <2>5, <2>6, <2>7, CalmStep DEF MetaTyped
<1>4. CASE call' = [call EXCEPT ![p] = Return(call[p], "failed")]
  <2>1. PICK q \in CallRecords : q = Return(call[p], "failed") /\ q.pc \in {"restore", "done"} /\ Fits(q)
    BY <1>1, ReturnTyped
  <2>2. call' = [call EXCEPT ![p] = q]
    BY <1>4, <2>1
  <2>3. Keeps(call[p], q) /\ q.pc \notin Numbered
    BY <1>1, <2>1 DEF Keeps, InFlight, Numbered
  <2> QED
    BY <1>1, <1>2, <2>1, <2>2, <2>3, CalmStep DEF MetaTyped
<1> QED
  BY <1>3, <1>4 DEF ReadAuth

\* A call that is not in flight goes on to another place where it is not.
LEMMA OutOfFlight ==
    ASSUME IInv, NEW p \in Calls, NEW v \in {"cleared", "read"}, call[p].pc \in {"captured", "cleared"},
           call' = [call EXCEPT ![p].pc = v],
           UNCHANGED <<features, commit, storeOK, slot, ident, disk>>, gen' \in {gen, gen + 1},
           meta' \in [result: Sources, cache: BOOLEAN, call: Calls \cup {NoCall}]
    PROVE  Kept
<1>1. call[p] \in CallRecords /\ call[p].auth \in Auths
  BY CallKnown
<1>5. v \in Phases
  BY DEF Phases
<1>2. PICK q \in CallRecords : q = [call[p] EXCEPT !.pc = v] /\ q.pc = v /\ Follows(q, call[p])
  BY <1>1, <1>5, SetPc
<1>3. Fits(q) /\ Keeps(call[p], q) /\ q.pc \notin Numbered
  BY <1>1, <1>2 DEF Fits, InFlight, Follows, Keeps, Numbered
<1>4. call' = [call EXCEPT ![p] = q]
  BY <1>2
<1> QED
  BY <1>3, <1>4, CalmStep

LEMMA InvalidateStep ==
    ASSUME IInv, NEW p \in Calls, InvalidateMeta(p)
    PROVE  Kept
<1>1. meta' \in [result: Sources, cache: BOOLEAN, call: Calls \cup {NoCall}]
  BY CallKnown DEF InvalidateMeta, MetaTyped, Sources
<1> QED
  BY <1>1, OutOfFlight DEF InvalidateMeta

LEMMA AdvanceStep ==
    ASSUME IInv, NEW p \in Calls, advanceConfigGeneration(p)
    PROVE  Kept
<1>1. meta' \in [result: Sources, cache: BOOLEAN, call: Calls \cup {NoCall}]
  BY CallKnown DEF advanceConfigGeneration, MetaTyped
<1> QED
  BY <1>1, OutOfFlight DEF advanceConfigGeneration

(***************************************************************************)
(* Calls in flight that read the disk or wait for metadata.                *)
(***************************************************************************)

\* A call in flight goes on under its registration, and with its number if it
\* still needs one.
LEMMA FlightStep ==
    ASSUME IInv, NEW p \in Calls, NEW q \in CallRecords, call' = [call EXCEPT ![p] = q],
           call[p].pc \in InFlight, q.pc \in InFlight, Follows(q, call[p]),
           q.pc = "mwait" => q.owner \in Calls,
           q.pc \in Numbered => call[p].pc \in Numbered /\ q.seq = call[p].seq,
           UNCHANGED <<gen, features, commit, storeOK, slot, ident, disk>>, MetaTyped'
    PROVE  Kept
<1>1. Fits(call[p])
  BY CallKnown
<1>2. Fits(q)
  BY <1>1 DEF Fits, InFlight, Follows
<1>3. Keeps(call[p], q)
  BY DEF Keeps
<1> QED
  BY <1>2, <1>3, CalmStep DEF MetaTyped

\* The same record but for a local of the discovery.
Beside(q, c) == Follows(q, c) /\ q.pc = c.pc /\ q.seq = c.seq

LEMMA LocalsBeside ==
    ASSUME NEW c \in CallRecords
    PROVE  /\ \A v \in BOOLEAN : \E q \in CallRecords : q = [c EXCEPT !.cached = v] /\ Beside(q, c)
           /\ \A v \in BOOLEAN : \E q \in CallRecords : q = [c EXCEPT !.mcached = v] /\ Beside(q, c)
           /\ \A v \in Sources : \E q \in CallRecords : q = [c EXCEPT !.meta = v] /\ Beside(q, c)
           /\ \A v \in Sources \cup {"open", "dropped"} :
                 \E q \in CallRecords : q = [c EXCEPT !.mcall = v] /\ Beside(q, c)
           /\ \A v \in Calls \cup {NoCall} :
                 \E q \in CallRecords : q = [c EXCEPT !.owner = v] /\ Beside(q, c) /\ q.owner = v
<1>1. ASSUME NEW v \in BOOLEAN
      PROVE  \E q \in CallRecords : q = [c EXCEPT !.cached = v] /\ Beside(q, c)
  <2>1. PICK q \in CallRecords : q = [c EXCEPT !.cached = v]
    BY Updates
  <2> QED
    BY <2>1 DEF CallRecords, Beside, Follows
<1>2. ASSUME NEW v \in BOOLEAN
      PROVE  \E q \in CallRecords : q = [c EXCEPT !.mcached = v] /\ Beside(q, c)
  <2>1. PICK q \in CallRecords : q = [c EXCEPT !.mcached = v]
    BY Updates
  <2> QED
    BY <2>1 DEF CallRecords, Beside, Follows
<1>3. ASSUME NEW v \in Sources
      PROVE  \E q \in CallRecords : q = [c EXCEPT !.meta = v] /\ Beside(q, c)
  <2>1. PICK q \in CallRecords : q = [c EXCEPT !.meta = v]
    BY Updates
  <2> QED
    BY <2>1 DEF CallRecords, Beside, Follows
<1>4. ASSUME NEW v \in Sources \cup {"open", "dropped"}
      PROVE  \E q \in CallRecords : q = [c EXCEPT !.mcall = v] /\ Beside(q, c)
  <2>1. PICK q \in CallRecords : q = [c EXCEPT !.mcall = v]
    BY Updates
  <2> QED
    BY <2>1 DEF CallRecords, Beside, Follows
<1>5. ASSUME NEW v \in Calls \cup {NoCall}
      PROVE  \E q \in CallRecords : q = [c EXCEPT !.owner = v] /\ Beside(q, c) /\ q.owner = v
  <2>1. PICK q \in CallRecords : q = [c EXCEPT !.owner = v]
    BY Updates
  <2> QED
    BY <2>1 DEF CallRecords, Beside, Follows
<1> QED
  BY <1>1, <1>2, <1>3, <1>4, <1>5

LEMMA LoadCachedStep ==
    ASSUME IInv, NEW p \in Calls, LoadCached(p)
    PROVE  Kept
<1>1. call[p].pc = "load" /\ call[p] \in CallRecords /\ MetaTyped
  BY CallKnown DEF LoadCached, ReadCatalog
<1>2. PICK ok \in BOOLEAN : call' = [call EXCEPT ![p].cached = ok, ![p].pc = "fetch"]
  BY DEF LoadCached, ReadCatalog
<1>3. PICK b \in CallRecords : b = [call[p] EXCEPT !.cached = ok] /\ Beside(b, call[p])
  BY <1>1, LocalsBeside
<1>4. "fetch" \in Phases
  BY DEF Phases
<1>5. PICK q \in CallRecords : /\ q = [b EXCEPT !.pc = "fetch"] /\ q.pc = "fetch"
                               /\ Follows(q, b) /\ q.seq = b.seq
  BY <1>4, SetPc
<1>6. Follows(q, call[p]) /\ q.seq = call[p].seq
  BY <1>3, <1>5 DEF Follows, Beside
<1>7. call' = [call EXCEPT ![p] = q]
  BY <1>2, <1>3, <1>5
<1>8. /\ call[p].pc \in InFlight /\ q.pc \in InFlight /\ call[p].pc \in Numbered
      /\ q.pc # "mwait"
  BY <1>1, <1>5 DEF InFlight, Numbered
<1>9. UNCHANGED <<gen, features, commit, storeOK, slot, ident, disk>> /\ MetaTyped'
  BY <1>1 DEF LoadCached, ReadCatalog, MetaTyped
<1> QED
  BY <1>6, <1>7, <1>8, <1>9, FlightStep

LEMMA FetchOKStep ==
    ASSUME IInv, NEW p \in Calls, FetchOK(p)
    PROVE  Kept
<1>1. call[p].pc = "fetch" /\ call[p] \in CallRecords /\ MetaTyped
  BY CallKnown DEF FetchOK
<1>2. "save" \in Phases
  BY DEF Phases
<1>3. PICK q \in CallRecords : /\ q = [call[p] EXCEPT !.pc = "save"] /\ q.pc = "save"
                               /\ Follows(q, call[p]) /\ q.seq = call[p].seq
  BY <1>1, <1>2, SetPc
<1>4. call' = [call EXCEPT ![p] = q]
  BY <1>3 DEF FetchOK
<1>5. /\ call[p].pc \in InFlight /\ q.pc \in InFlight /\ call[p].pc \in Numbered
      /\ q.pc # "mwait"
  BY <1>1, <1>3 DEF InFlight, Numbered
<1>6. UNCHANGED <<gen, features, commit, storeOK, slot, ident, disk>> /\ MetaTyped'
  BY <1>1 DEF FetchOK, MetaTyped
<1> QED
  BY <1>3, <1>4, <1>5, <1>6, FlightStep

\* The source of the models is settled.
LEMMA ChosenStep ==
    ASSUME IInv, NEW p \in Calls, NEW v \in Sources, call[p].pc \in {"shared", "wait"},
           call' = [call EXCEPT ![p] = Chosen(call[p], v)],
           UNCHANGED <<gen, features, commit, storeOK, slot, ident, disk, meta>>
    PROVE  Kept
<1>1. call[p] \in CallRecords /\ MetaTyped
  BY CallKnown
<1>2. PICK q \in CallRecords : q = Chosen(call[p], v) /\ q.pc = "meta" /\ Follows(q, call[p])
  BY <1>1, ChosenTyped
<1>3. call' = [call EXCEPT ![p] = q]
  BY <1>2
<1>4. /\ call[p].pc \in InFlight /\ q.pc \in InFlight /\ q.pc \notin Numbered /\ q.pc # "mwait"
  BY <1>2 DEF InFlight, Numbered
<1>5. MetaTyped'
  BY <1>1 DEF MetaTyped
<1> QED
  BY <1>2, <1>3, <1>4, <1>5, FlightStep

LEMMA LoadSharedStep ==
    ASSUME IInv, NEW p \in Calls, LoadShared(p)
    PROVE  Kept
<1>1. PICK ok \in BOOLEAN : call' = [call EXCEPT ![p] = Chosen(call[p], selectSource(ok, call[p].cached))]
  BY DEF LoadShared
<1>2. call[p].cached \in BOOLEAN
  BY CallKnown DEF CallRecords
<1>3. PICK v \in Sources : v = selectSource(ok, call[p].cached)
  BY <1>2, SourceTyped
<1> QED
  BY <1>1, <1>3, ChosenStep DEF LoadShared

LEMMA WaitIdentityStep ==
    ASSUME IInv, NEW p \in Calls, WaitIdentity(p)
    PROVE  Kept
<1>1. PICK ok \in BOOLEAN : call' = [call EXCEPT ![p] = Chosen(call[p], selectSource(FALSE, ok))]
  BY DEF WaitIdentity
<1>2. PICK v \in Sources : v = selectSource(FALSE, ok)
  BY SourceTyped
<1> QED
  BY <1>1, <1>2, ChosenStep DEF WaitIdentity

LEMMA MetaCheckStep ==
    ASSUME IInv, NEW p \in Calls, MetaCheck(p)
    PROVE  Kept
<1>1. call[p].pc = "meta" /\ call[p] \in CallRecords /\ MetaTyped
  BY CallKnown DEF MetaCheck
<1>2. PICK v \in {"look", "finish"} : v = IF Current(p) THEN "look" ELSE "finish"
  OBVIOUS
<1>3. v \in Phases /\ v \in InFlight /\ v \notin Numbered /\ v # "mwait" /\ call[p].pc \in InFlight
  BY <1>1 DEF Phases, InFlight, Numbered
<1>4. PICK q \in CallRecords : q = [call[p] EXCEPT !.pc = v] /\ q.pc = v /\ Follows(q, call[p])
  BY <1>1, <1>3, SetPc
<1>5. call' = [call EXCEPT ![p] = q]
  BY <1>2, <1>4 DEF MetaCheck
<1>6. UNCHANGED <<gen, features, commit, storeOK, slot, ident, disk>> /\ MetaTyped'
  BY <1>1 DEF MetaCheck, MetaTyped
<1> QED
  BY <1>3, <1>4, <1>5, <1>6, FlightStep

\* One more local, then the next phase beside the identity.
LEMMA GoesOn ==
    ASSUME IInv, NEW p \in Calls, call[p].pc \in {"look", "mwait", "mfetch"},
           NEW b \in CallRecords, Beside(b, call[p]), NEW v \in {"finish", "mwait", "mfetch", "meta"},
           v = "mwait" => b.owner \in Calls, call' = [call EXCEPT ![p] = [b EXCEPT !.pc = v]],
           UNCHANGED <<gen, features, commit, storeOK, slot, ident, disk>>, MetaTyped'
    PROVE  Kept
<1>1. v \in Phases /\ v \in InFlight /\ v \notin Numbered /\ call[p].pc \in InFlight
  BY DEF Phases, InFlight, Numbered
<1>2. PICK q \in CallRecords : /\ q = [b EXCEPT !.pc = v] /\ q.pc = v /\ Follows(q, b)
                               /\ q.owner = b.owner
  BY <1>1, SetPc
<1>3. Follows(q, call[p])
  BY <1>2 DEF Follows, Beside
<1>4. call' = [call EXCEPT ![p] = q]
  BY <1>2
<1> QED
  BY <1>1, <1>2, <1>3, <1>4, FlightStep

LEMMA MetaLookStep ==
    ASSUME IInv, NEW p \in Calls, MetaLook(p)
    PROVE  Kept
<1>1. call[p].pc = "look" /\ call[p] \in CallRecords /\ MetaTyped
  BY CallKnown DEF MetaLook
<1>2. /\ meta.result \in Sources /\ meta.cache \in BOOLEAN /\ meta.call \in Calls \cup {NoCall}
  BY <1>1 DEF MetaTyped
<1>3. UNCHANGED <<gen, features, commit, storeOK, slot, ident, disk>>
  BY DEF MetaLook
<1>4. CASE /\ meta.result # "none"
           /\ call' = [call EXCEPT ![p].meta = meta.result, ![p].pc = "finish"]
           /\ UNCHANGED meta
  <2>1. PICK b \in CallRecords : b = [call[p] EXCEPT !.meta = meta.result] /\ Beside(b, call[p])
    BY <1>1, <1>2, LocalsBeside
  <2>2. call' = [call EXCEPT ![p] = [b EXCEPT !.pc = "finish"]]
    BY <1>4, <2>1
  <2>3. MetaTyped'
    BY <1>1, <1>4 DEF MetaTyped
  <2> QED
    BY <1>1, <1>3, <2>1, <2>2, <2>3, GoesOn
<1>5. CASE /\ meta.result = "none" /\ meta.call # NoCall
           /\ call' = [call EXCEPT ![p].owner = meta.call, ![p].pc = "mwait"]
           /\ UNCHANGED meta
  <2>1. PICK b \in CallRecords :
           b = [call[p] EXCEPT !.owner = meta.call] /\ Beside(b, call[p]) /\ b.owner = meta.call
    BY <1>1, <1>2, LocalsBeside
  <2>2. call' = [call EXCEPT ![p] = [b EXCEPT !.pc = "mwait"]]
    BY <1>5, <2>1
  <2>3. MetaTyped' /\ b.owner \in Calls
    BY <1>1, <1>2, <1>5, <2>1 DEF MetaTyped
  <2> QED
    BY <1>1, <1>3, <2>1, <2>2, <2>3, GoesOn
<1>6. CASE /\ meta' = [meta EXCEPT !.call = p]
           /\ call' = [call EXCEPT ![p].mcall = "open", ![p].mcached = meta.cache,
                                   ![p].pc = "mfetch"]
  <2>1. PICK d \in CallRecords : d = [call[p] EXCEPT !.mcall = "open"] /\ Beside(d, call[p])
    BY <1>1, LocalsBeside
  <2>2. PICK b \in CallRecords : b = [d EXCEPT !.mcached = meta.cache] /\ Beside(b, d)
    BY <1>2, LocalsBeside
  <2>3. Beside(b, call[p])
    BY <2>1, <2>2 DEF Beside, Follows
  <2>4. call' = [call EXCEPT ![p] = [b EXCEPT !.pc = "mfetch"]]
    BY <1>6, <2>1, <2>2
  <2>5. MetaTyped'
    BY <1>1, <1>6 DEF MetaTyped
  <2> QED
    BY <1>1, <1>3, <2>3, <2>4, <2>5, GoesOn
<1> QED
  BY <1>4, <1>5, <1>6 DEF MetaLook

LEMMA MetaJoinedStep ==
    ASSUME IInv, NEW p \in Calls, MetaJoined(p)
    PROVE  Kept
<1>1. call[p].pc = "mwait" /\ call[p] \in CallRecords /\ MetaTyped
  BY CallKnown DEF MetaJoined
<1>2. call[p].owner \in Calls
  BY <1>1, CallKnown DEF Fits
<1>3. PICK r \in Sources \cup {"open", "dropped"} : r = call[call[p].owner].mcall
  BY <1>2, CallKnown DEF CallRecords
<1>4. r # "open"
  BY <1>3 DEF MetaJoined
<1>5. PICK m \in Sources : m = IF r = "dropped" THEN call[p].meta ELSE r
  BY <1>1, <1>3, <1>4 DEF CallRecords
<1>6. PICK v \in {"meta", "finish"} : v = IF r = "dropped" THEN "meta" ELSE "finish"
  OBVIOUS
<1>7. PICK b \in CallRecords : b = [call[p] EXCEPT !.meta = m] /\ Beside(b, call[p])
  BY <1>1, LocalsBeside
<1>8. call' = [call EXCEPT ![p] = [b EXCEPT !.pc = v]]
  BY <1>3, <1>5, <1>6, <1>7 DEF MetaJoined
<1>9. UNCHANGED <<gen, features, commit, storeOK, slot, ident, disk>> /\ MetaTyped'
  BY <1>1 DEF MetaJoined, MetaTyped
<1> QED
  BY <1>1, <1>7, <1>8, <1>9, GoesOn

LEMMA MetaCommitStep ==
    ASSUME IInv, NEW p \in Calls, MetaCommit(p)
    PROVE  Kept
<1>1. call[p].pc = "mfetch" /\ call[p] \in CallRecords /\ MetaTyped
  BY CallKnown, Zenon DEF MetaCommit
<1>2. /\ meta.result \in Sources /\ meta.cache \in BOOLEAN /\ meta.call \in Calls \cup {NoCall}
      /\ call[p].mcached \in BOOLEAN
  BY <1>1 DEF MetaTyped, CallRecords
<1>3. UNCHANGED <<gen, features, commit, storeOK, slot, ident, disk>>
  BY Zenon DEF MetaCommit
<1>4. PICK released \in Calls \cup {NoCall} : released = IF meta.call = p THEN NoCall ELSE meta.call
  BY <1>2
<1>5. CASE /\ meta' = [meta EXCEPT !.call = released]
           /\ call' = [call EXCEPT ![p].mcall = "dropped", ![p].pc = "finish"]
  <2>1. PICK b \in CallRecords : b = [call[p] EXCEPT !.mcall = "dropped"] /\ Beside(b, call[p])
    BY <1>1, LocalsBeside
  <2>2. call' = [call EXCEPT ![p] = [b EXCEPT !.pc = "finish"]]
    BY <1>5, <2>1
  <2>3. MetaTyped'
    BY <1>1, <1>4, <1>5 DEF MetaTyped
  <2> QED
    BY <1>1, <1>3, <2>1, <2>2, <2>3, GoesOn
<1>6. CASE \E fresh \in BOOLEAN :
               LET r == selectSource(fresh, call[p].mcached)
               IN  /\ meta' = [result |-> r, cache |-> meta.cache \/ r # "none", call |-> released]
                   /\ call' = [call EXCEPT ![p].mcall = r, ![p].meta = r, ![p].pc = "finish"]
  <2>1. PICK fresh \in BOOLEAN :
               LET r == selectSource(fresh, call[p].mcached)
               IN  /\ meta' = [result |-> r, cache |-> meta.cache \/ r # "none", call |-> released]
                   /\ call' = [call EXCEPT ![p].mcall = r, ![p].meta = r, ![p].pc = "finish"]
    BY <1>6, Zenon
  <2>2. PICK r \in Sources : r = selectSource(fresh, call[p].mcached)
    BY <1>2, SourceTyped
  <2>3. PICK d \in CallRecords : d = [call[p] EXCEPT !.mcall = r] /\ Beside(d, call[p])
    BY <1>1, LocalsBeside
  <2>4. PICK b \in CallRecords : b = [d EXCEPT !.meta = r] /\ Beside(b, d)
    BY LocalsBeside
  <2>5. Beside(b, call[p])
    BY <2>3, <2>4 DEF Beside, Follows
  <2>6. call' = [call EXCEPT ![p] = [b EXCEPT !.pc = "finish"]]
    BY <2>1, <2>2, <2>3, <2>4
  <2>7. MetaTyped'
    <3>1. meta' = [result |-> r, cache |-> meta.cache \/ r # "none", call |-> released]
      BY <2>1, <2>2
    <3>2. (meta.cache \/ r # "none") \in BOOLEAN
      OBVIOUS
    <3> QED
      BY <3>1, <3>2, <1>4 DEF MetaTyped
  <2> QED
    BY <1>1, <1>3, <2>5, <2>6, <2>7, GoesOn
<1> QED
  BY <1>4, <1>5, <1>6, Zenon DEF MetaCommit

(***************************************************************************)
(* The calls of an identity.                                               *)
(***************************************************************************)
IdentRecords == [next: Nat, seq: Nat, cfg: Nat, active: SUBSET Nat]
Writes == [cfg: Nat, seq: Nat]
NumbersFitAt(i) == IdentFits(i) /\ OneNumber(i) /\ \A r \in Calls : NumberFits(r, i)

LEMMA NumbersStep ==
    ASSUME IInv, NEW p \in Calls, NEW q \in CallRecords, call' = [call EXCEPT ![p] = q],
           call[p].pc \in InFlight, q.pc \in InFlight, Follows(q, call[p]), q.pc # "mwait",
           UNCHANGED <<gen, features, commit, storeOK, slot, meta>>,
           ident' \in [Identities -> IdentRecords], disk' \in [Identities -> Writes],
           NumbersFit'
    PROVE  Kept
<1>1. Typed /\ CallsFit /\ SlotsFit /\ Fits(call[p])
  BY CallKnown DEF IInv
<1>2. Becomes(p, q)
  BY <1>1, BecomesTyped
<1>3. Typed'
  <2>1. \A r \in Calls : call'[r].pc \in Phases
    BY <1>2 DEF Becomes, CallRecords
  <2> QED
    BY <1>1, <1>2, <2>1 DEF Typed, TypeOK, Becomes, IdentRecords, Writes
<1>4. Fits(q) /\ Keeps(call[p], q) /\ q.key.cfg <= gen
  BY <1>1 DEF Fits, InFlight, Follows, Keeps, CallsFit, CallFits
<1>5. CallsFit'
  BY <1>1, <1>2, <1>4, CallsKept
<1>6. SlotsFit'
  <2> SUFFICES ASSUME NEW a \in Auths PROVE SlotFits(a)'
    BY DEF SlotsFit
  <2>1. SlotFits(a)
    BY <1>1 DEF SlotsFit
  <2>2. \A r \in slot[a].calls : call'[r].pc \in InFlight /\ Follows(call'[r], call[r])
    BY <1>1, <1>2, <1>4, <2>1, OthersFollow
  <2> QED
    BY <1>1, <2>1, <2>2, SlotKept
<1>7. ListsFit => ListsFit'
  BY <1>1, <1>2, <1>4, ListsKept
<1> QED
  BY <1>3, <1>5, <1>6, <1>7 DEF Kept, IInv

\* An identity the call does not belong to.
LEMMA OtherIdentity ==
    ASSUME NumbersFit, NEW p \in Calls, NEW q, Becomes(p, q), Follows(q, call[p]), gen' = gen,
           NEW j \in Identities, j # IdentityOf[call[p].tok], ident'[j] = ident[j], disk'[j] = disk[j]
    PROVE  NumbersFitAt(j)'
<1>1. IdentFits(j) /\ OneNumber(j) /\ \A r \in Calls : NumberFits(r, j)
  BY DEF NumbersFit
<1>2. IdentFits(j)'
  BY <1>1 DEF IdentFits
<1>3. ~NumberOf(p, j) /\ ~NumberOf(p, j)'
  BY DEF NumberOf, Becomes, Follows
<1>4. \A r \in Calls : /\ NumberOf(r, j)' => NumberOf(r, j) /\ call'[r] = call[r]
  BY <1>3 DEF NumberOf, Becomes
<1>5. OneNumber(j)'
  BY <1>1, <1>4 DEF OneNumber
<1>6. \A r \in Calls : NumberFits(r, j)'
  BY <1>1, <1>4 DEF NumberFits
<1> QED
  BY <1>2, <1>5, <1>6 DEF NumbersFitAt

\* What the numbers say of one identity.
LEMMA NumbersKnown ==
    ASSUME Typed, NumbersFit, NEW i \in Identities
    PROVE  /\ ident[i] \in IdentRecords /\ ident[i].next \in Nat /\ ident[i].seq \in Nat
           /\ ident[i].cfg \in Nat /\ ident[i].active \subseteq Nat
           /\ IdentFits(i) /\ OneNumber(i) /\ \A r \in Calls : NumberFits(r, i)
           /\ gen \in Nat /\ IdentityOf \in [Tokens -> Identities]
           /\ \A r \in Calls : call[r] \in CallRecords /\ call[r].seq \in Nat /\ call[r].key.cfg \in Nat
  BY ReadinessConstants DEF Typed, TypeOK, IdentRecords, NumbersFit, CallRecords, Keys

\* A call takes the next number n of its identity.
Opens(i, n) ==
    /\ ident'[i].next = n /\ ident'[i].active = ident[i].active \cup {n}
    /\ ident'[i].cfg = ident[i].cfg /\ ident'[i].seq = ident[i].seq
    /\ \A j \in Identities : j # i => ident'[j] = ident[j]
    /\ disk' = disk

\* The call with number n is over, and its catalog is saved or not.
Closes(i, n) ==
    /\ ident'[i].next = ident[i].next /\ ident'[i].active = ident[i].active \ {n}
    /\ disk'[i] = [cfg |-> ident'[i].cfg, seq |-> ident'[i].seq]
    /\ \/ ident'[i].cfg = ident[i].cfg /\ ident'[i].seq = ident[i].seq
       \/ ident'[i].cfg = gen /\ ident'[i].seq = n
    /\ \A j \in Identities : j # i => ident'[j] = ident[j] /\ disk'[j] = disk[j]

LEMMA NextNumber ==
    ASSUME NEW n \in Nat, NEW s \in Nat, NEW A \in SUBSET Nat, s <= n, \A k \in A : k <= n,
           NEW m, m = n + 1
    PROVE  /\ m \in Nat /\ m > n /\ m > s /\ m \notin A /\ s <= m /\ s # m
           /\ \A k \in A : k <= m
  OBVIOUS

LEMMA StartNumbers ==
    ASSUME Typed, NumbersFit, NEW p \in Calls, NEW q \in CallRecords, Becomes(p, q),
           Follows(q, call[p]), gen' = gen, NEW i \in Identities, i = IdentityOf[call[p].tok],
           q.seq = ident[i].next + 1, Opens(i, q.seq)
    PROVE  NumbersFit'
<1>1. /\ ident[i] \in IdentRecords /\ ident[i].next \in Nat /\ ident[i].seq \in Nat
      /\ ident[i].cfg \in Nat /\ ident[i].active \subseteq Nat
      /\ IdentFits(i) /\ OneNumber(i) /\ \A r \in Calls : NumberFits(r, i)
      /\ gen \in Nat /\ \A r \in Calls : call[r].seq \in Nat
  BY NumbersKnown
<1>2. /\ ident'[i].next = q.seq /\ ident'[i].active = ident[i].active \cup {q.seq}
      /\ ident'[i].cfg = ident[i].cfg /\ ident'[i].seq = ident[i].seq
      /\ disk' = disk /\ \A j \in Identities : j # i => ident'[j] = ident[j]
  BY DEF Opens
<1>8. /\ disk[i] = [cfg |-> ident[i].cfg, seq |-> ident[i].seq]
      /\ ident[i].cfg <= gen /\ ident[i].seq <= ident[i].next
      /\ ident[i].seq \notin ident[i].active
      /\ \A n \in ident[i].active : n \in Nat /\ n <= ident[i].next
  BY <1>1 DEF IdentFits
<1>9. /\ q.seq \in Nat /\ q.seq > ident[i].next /\ q.seq > ident[i].seq
      /\ q.seq \notin ident[i].active /\ ident[i].seq <= q.seq /\ ident[i].seq # q.seq
      /\ \A n \in ident[i].active : n <= q.seq
  <2> DEFINE next == ident[i].next  seq == ident[i].seq  active == ident[i].active
  <2>1. next \in Nat /\ seq \in Nat /\ active \in SUBSET Nat
    BY <1>1
  <2>2. seq <= next /\ (\A n \in active : n <= next) /\ q.seq = next + 1
    BY <1>8
  <2> HIDE DEF next, seq, active
  <2>3. /\ q.seq \in Nat /\ q.seq > next /\ q.seq > seq /\ q.seq \notin active
        /\ seq <= q.seq /\ seq # q.seq
        /\ \A n \in active : n <= q.seq
    BY <2>1, <2>2, NextNumber
  <2> QED
    BY <2>3 DEF next, seq, active
<1>3. IdentFits(i)'
  <2>1. ident'[i].seq <= ident'[i].next /\ ident'[i].seq \notin ident'[i].active
    <3>1. ident[i].seq <= q.seq /\ ident[i].seq # q.seq
      BY <1>9
    <3>2. ident[i].seq \notin ident[i].active \cup {q.seq}
      BY <1>8, <3>1
    <3> QED
      BY <1>2, <3>1, <3>2
  <2>2. \A n \in ident'[i].active : n <= ident'[i].next
    <3>1. \A n \in ident[i].active : n <= q.seq
      BY <1>9
    <3>2. q.seq <= q.seq
      BY <1>9
    <3> QED
      BY <1>2, <3>1, <3>2
  <2> QED
    BY <1>2, <1>8, <2>1, <2>2, Zenon DEF IdentFits
<1>4. \A r \in Calls \ {p} : /\ call'[r] = call[r]
                             /\ NumberOf(r, i) => call[r].seq \in ident[i].active /\ call[r].seq # q.seq
  BY <1>1, <1>9 DEF Becomes, NumberFits
<1>5. OneNumber(i)'
  BY <1>1, <1>4 DEF OneNumber, NumberOf, Becomes
<1>6. \A r \in Calls : NumberFits(r, i)'
  <2> TAKE r \in Calls
  <2>1. CASE r = p
    <3>1. call'[p] = q
      BY DEF Becomes
    <3>2. q.seq \in ident'[i].active /\ q.seq > ident'[i].seq
      BY <1>1, <1>2, <1>9
    <3> QED
      BY <2>1, <3>1, <3>2 DEF NumberFits
  <2>2. CASE r # p
    BY <1>1, <1>2, <1>4, <2>2 DEF NumberFits, NumberOf
  <2> QED
    BY <2>1, <2>2
<1>7. \A j \in Identities : j # i => NumbersFitAt(j)'
  BY <1>2, OtherIdentity
<1> QED
  BY <1>3, <1>5, <1>6, <1>7 DEF NumbersFit, NumbersFitAt

\* The call leaves the active ones, with its catalog saved or without.
LEMMA SettleNumbers ==
    ASSUME Typed, NumbersFit, CallsFit, NEW p \in Calls, NEW q \in CallRecords, Becomes(p, q),
           Follows(q, call[p]), gen' = gen, call[p].pc \in Numbered, q.pc \notin Numbered,
           NEW i \in Identities, i = IdentityOf[call[p].tok],
           Closes(i, call[p].seq)
    PROVE  NumbersFit'
<1>1. /\ ident[i] \in IdentRecords /\ ident[i].next \in Nat /\ ident[i].seq \in Nat
      /\ ident[i].cfg \in Nat /\ ident[i].active \subseteq Nat
      /\ IdentFits(i) /\ OneNumber(i) /\ \A r \in Calls : NumberFits(r, i)
      /\ gen \in Nat /\ \A r \in Calls : call[r].seq \in Nat /\ call[r].key.cfg \in Nat
  BY NumbersKnown
<1>9. /\ ident'[i].next = ident[i].next /\ ident'[i].active = ident[i].active \ {call[p].seq}
      /\ disk'[i] = [cfg |-> ident'[i].cfg, seq |-> ident'[i].seq]
      /\ \/ ident'[i].cfg = ident[i].cfg /\ ident'[i].seq = ident[i].seq
         \/ ident'[i].cfg = gen /\ ident'[i].seq = call[p].seq
      /\ \A j \in Identities : j # i => ident'[j] = ident[j] /\ disk'[j] = disk[j]
  BY DEF Closes
<1>2. NumberOf(p, i) /\ ~NumberOf(p, i)' /\ call[p].seq \in ident[i].active
  BY <1>1 DEF NumberOf, NumberFits, Becomes
<1>8. /\ ident[i].cfg <= gen /\ ident[i].seq <= ident[i].next
      /\ ident[i].seq \notin ident[i].active
      /\ \A n \in ident[i].active : n <= ident[i].next
  BY <1>1 DEF IdentFits
<1>3. IdentFits(i)'
  <2>1. ident'[i].seq <= ident'[i].next /\ ident'[i].seq \notin ident'[i].active
    BY <1>2, <1>8, <1>9
  <2>2. ident'[i].cfg <= gen'
    <3>1. gen <= gen
      BY <1>1
    <3>2. ident'[i].cfg \in {ident[i].cfg, gen}
      BY <1>9
    <3> QED
      BY <1>8, <3>1, <3>2
  <2>3. \A n \in ident'[i].active : n <= ident'[i].next
    BY <1>8, <1>9
  <2> QED
    BY <1>9, <2>1, <2>2, <2>3, Zenon DEF IdentFits
<1>4. \A r \in Calls : NumberOf(r, i)' => r # p /\ call'[r] = call[r] /\ NumberOf(r, i)
  BY <1>2 DEF Becomes, NumberOf
<1>5. OneNumber(i)'
  BY <1>1, <1>4 DEF OneNumber
<1>6. \A r \in Calls : NumberFits(r, i)'
  <2> SUFFICES ASSUME NEW r \in Calls, NumberOf(r, i)' 
               PROVE  /\ call'[r].seq \in ident'[i].active
                      /\ call'[r].key.cfg > ident'[i].cfg => call'[r].seq > ident'[i].seq
    BY DEF NumberFits
  <2>1. r # p /\ call'[r] = call[r] /\ NumberOf(r, i)
    BY <1>4
  <2>2. /\ call[r].seq \in ident[i].active /\ call[r].seq # call[p].seq
        /\ call[r].key.cfg > ident[i].cfg => call[r].seq > ident[i].seq
    BY <1>1, <1>2, <2>1 DEF NumberFits, OneNumber
  <2>3. call[r].key.cfg <= gen
    <3>1. call[r].pc \in InFlight
      BY <2>1 DEF NumberOf, Numbered, InFlight
    <3> QED
      BY <3>1 DEF CallsFit, CallFits
  <2>4. call'[r].seq \in ident'[i].active
    BY <1>9, <2>1, <2>2
  <2>5. CASE ident'[i].cfg = ident[i].cfg /\ ident'[i].seq = ident[i].seq
    BY <2>1, <2>2, <2>4, <2>5
  <2>6. CASE ident'[i].cfg = gen
    <3>1. ~(call[r].key.cfg > gen)
      BY <1>1, <2>3
    <3> QED
      BY <2>1, <2>4, <2>6, <3>1
  <2> QED
    BY <1>9, <2>5, <2>6
<1>7. \A j \in Identities : j # i => NumbersFitAt(j)'
  BY <1>9, OtherIdentity
<1> QED
  BY <1>3, <1>5, <1>6, <1>7 DEF NumbersFit, NumbersFitAt

\* A call that has a token to fetch with, and its identity.
LEMMA IdentityKnown ==
    ASSUME IInv, NEW p \in Calls, call[p].pc \in InFlight
    PROVE  /\ IdentityOf[call[p].tok] \in Identities
           /\ call[p] \in CallRecords /\ Typed /\ CallsFit /\ NumbersFit
           /\ ident \in [Identities -> IdentRecords] /\ disk \in [Identities -> Writes]
<1>1. call[p].tok \in Tokens
  BY CallKnown DEF Fits
<1> QED
  BY <1>1, CallKnown, ReadinessConstants DEF IInv, Typed, TypeOK, IdentRecords, Writes

LEMMA StartStep ==
    ASSUME IInv, NEW p \in Calls, startIdentityCall(p)
    PROVE  Kept
<1>1. call[p].pc = "identity" /\ call[p].pc \in InFlight
  BY DEF startIdentityCall, InFlight
<1>2. PICK i \in Identities : i = IdentityOf[call[p].tok]
  BY <1>1, IdentityKnown
<1>3. /\ call[p] \in CallRecords /\ Typed /\ NumbersFit
      /\ ident \in [Identities -> IdentRecords] /\ disk \in [Identities -> Writes]
  BY <1>1, IdentityKnown
<1>4. PICK n \in Nat : n = ident[i].next + 1
  BY <1>3 DEF IdentRecords
<1>5. /\ ident' = [ident EXCEPT ![i].next = n, ![i].active = ident[i].active \cup {n}]
      /\ call' = [call EXCEPT ![p].seq = n, ![p].pc = "load"]
      /\ UNCHANGED <<gen, features, commit, storeOK, slot, disk, meta>>
  BY <1>2, <1>3, <1>4 DEF startIdentityCall
<1>6. PICK b \in CallRecords : b = [call[p] EXCEPT !.seq = n]
  BY <1>3, Updates
<1>7. Follows(b, call[p]) /\ b.seq = n
  BY <1>3, <1>6 DEF CallRecords, Follows
<1>8. "load" \in Phases
  BY DEF Phases
<1>9. PICK q \in CallRecords : q = [b EXCEPT !.pc = "load"] /\ q.pc = "load" /\ Follows(q, b) /\ q.seq = b.seq
  BY <1>8, SetPc
<1>10. Follows(q, call[p]) /\ q.seq = n
  BY <1>7, <1>9 DEF Follows
<1>11. call' = [call EXCEPT ![p] = q]
  BY <1>5, <1>6, <1>9
<1>12. Becomes(p, q)
  BY <1>3, <1>11, BecomesTyped
<1>13. NumbersFit'
  <2>1. Opens(i, n)
    BY <1>3, <1>5 DEF Opens, IdentRecords
  <2> QED
    BY <1>2, <1>3, <1>4, <1>5, <1>10, <1>12, <2>1, StartNumbers
<1>14. ident' \in [Identities -> IdentRecords] /\ disk' \in [Identities -> Writes]
  <2>1. PICK r \in IdentRecords : r = [ident[i] EXCEPT !.next = n]
    BY <1>3 DEF IdentRecords
  <2>2. r.active = ident[i].active /\ ident[i].active \cup {n} \in SUBSET Nat
    BY <1>3, <2>1 DEF IdentRecords
  <2>3. PICK s \in IdentRecords : s = [r EXCEPT !.active = ident[i].active \cup {n}]
    BY <2>2 DEF IdentRecords
  <2>4. ident' = [ident EXCEPT ![i] = s]
    BY <1>5, <2>1, <2>3
  <2> QED
    BY <1>3, <1>5, <2>4
<1>15. q.pc \in InFlight /\ q.pc # "mwait"
  BY <1>9 DEF InFlight
<1> QED
  BY <1>1, <1>5, <1>10, <1>11, <1>13, <1>14, <1>15, NumbersStep

\* A numbered call is over as a call of its identity.
LEMMA SettleStep ==
    ASSUME IInv, NEW p \in Calls, NEW q \in CallRecords, call' = [call EXCEPT ![p] = q],
           call[p].pc \in {"fetch", "save"}, q.pc \in {"wait", "shared", "meta", "finish"},
           Follows(q, call[p]), NEW i \in Identities, i = IdentityOf[call[p].tok],
           UNCHANGED <<gen, features, commit, storeOK, slot, meta>>,
           \/ ident' = settled(i, call[p].seq) /\ disk' = disk
           \/ /\ gen = call[p].key.cfg
              /\ ident' = [settled(i, call[p].seq) EXCEPT ![i].cfg = call[p].key.cfg, ![i].seq = call[p].seq]
              /\ disk' = [disk EXCEPT ![i] = [cfg |-> call[p].key.cfg, seq |-> call[p].seq]]
    PROVE  Kept
<1>1. /\ call[p].pc \in InFlight /\ call[p].pc \in Numbered
      /\ q.pc \in InFlight /\ q.pc \notin Numbered /\ q.pc # "mwait"
  BY DEF InFlight, Numbered
<1>2. /\ call[p] \in CallRecords /\ Typed /\ CallsFit /\ NumbersFit
      /\ ident \in [Identities -> IdentRecords] /\ disk \in [Identities -> Writes]
  BY <1>1, IdentityKnown
<1>3. PICK n \in Nat : n = call[p].seq
  BY <1>2 DEF CallRecords
<1>4. PICK g \in Nat : g = call[p].key.cfg
  BY <1>2 DEF CallRecords, Keys
<1>12. ident[i] \in IdentRecords /\ ident[i].active \ {n} \in SUBSET Nat
  BY <1>2 DEF IdentRecords
<1>5. PICK left \in IdentRecords : left = [ident[i] EXCEPT !.active = ident[i].active \ {n}]
  <2>1. \A r \in IdentRecords : \A v \in SUBSET Nat : [r EXCEPT !.active = v] \in IdentRecords
    BY DEF IdentRecords
  <2> QED
    BY <1>12, <2>1
<1>6. settled(i, n) = [ident EXCEPT ![i] = left]
  BY <1>2, <1>5, Zenon DEF settled
<1>7. /\ left.next = ident[i].next /\ left.active = ident[i].active \ {n}
      /\ left.cfg = ident[i].cfg /\ left.seq = ident[i].seq
  BY <1>2, <1>5, Zenon DEF IdentRecords
<1>8. disk[i] = [cfg |-> ident[i].cfg, seq |-> ident[i].seq]
  BY <1>2 DEF NumbersFit, IdentFits
<1>9. Becomes(p, q)
  BY <1>2, BecomesTyped
<1>10. CASE ident' = settled(i, call[p].seq) /\ disk' = disk
  <2>1. ident' = [ident EXCEPT ![i] = left]
    BY <1>3, <1>6, <1>10
  <2>2. ident' \in [Identities -> IdentRecords] /\ disk' \in [Identities -> Writes]
    BY <1>2, <1>10, <2>1
  <2>3. ident'[i] = left /\ \A j \in Identities : j # i => ident'[j] = ident[j] /\ disk'[j] = disk[j]
    BY <1>2, <1>10, <2>1
  <2>4. disk'[i] = [cfg |-> ident'[i].cfg, seq |-> ident'[i].seq]
    BY <1>7, <1>8, <1>10, <2>3
  <2>6. Closes(i, call[p].seq)
    BY <1>3, <1>7, <2>3, <2>4 DEF Closes
  <2>5. NumbersFit'
    BY <1>1, <1>2, <1>9, <2>6, SettleNumbers
  <2> QED
    BY <1>1, <2>2, <2>5, NumbersStep
<1>11. CASE /\ gen = call[p].key.cfg
            /\ ident' = [settled(i, call[p].seq) EXCEPT ![i].cfg = call[p].key.cfg, ![i].seq = call[p].seq]
            /\ disk' = [disk EXCEPT ![i] = [cfg |-> call[p].key.cfg, seq |-> call[p].seq]]
  <2>1. PICK b \in IdentRecords : b = [left EXCEPT !.cfg = g]
    BY DEF IdentRecords
  <2>2. PICK d \in IdentRecords : d = [b EXCEPT !.seq = n]
    BY DEF IdentRecords
  <2>3. ident' = [ident EXCEPT ![i] = d]
    <3>1. PICK f \in [Identities -> IdentRecords] : f = [ident EXCEPT ![i] = left]
      BY <1>2
    <3>2. f[i] = left
      BY <1>2, <3>1
    <3>3. ident' = [f EXCEPT ![i].cfg = g, ![i].seq = n]
      BY <1>3, <1>4, <1>6, <1>11, <3>1, Zenon
    <3>4. ident' = [f EXCEPT ![i] = d]
      BY <2>1, <2>2, <3>2, <3>3
    <3> QED
      BY <1>2, <3>1, <3>4
  <2>4. d.cfg = g /\ d.seq = n /\ d.next = left.next /\ d.active = left.active
    BY <2>1, <2>2 DEF IdentRecords
  <2>5. PICK w \in Writes : w = [cfg |-> g, seq |-> n]
    BY DEF Writes
  <2>6. disk' = [disk EXCEPT ![i] = w]
    BY <1>3, <1>4, <1>11, <2>5
  <2>7. ident' \in [Identities -> IdentRecords] /\ disk' \in [Identities -> Writes]
    BY <1>2, <2>3, <2>6
  <2>8. /\ ident'[i] = d /\ disk'[i] = w
        /\ \A j \in Identities : j # i => ident'[j] = ident[j] /\ disk'[j] = disk[j]
    BY <1>2, <2>3, <2>6
  <2>9. disk'[i] = [cfg |-> ident'[i].cfg, seq |-> ident'[i].seq]
    BY <2>4, <2>5, <2>8
  <2>11. ident'[i].cfg = gen /\ ident'[i].seq = call[p].seq
    BY <1>3, <1>4, <1>11, <2>4, <2>8
  <2>12. /\ ident'[i].next = ident[i].next
         /\ ident'[i].active = ident[i].active \ {call[p].seq}
    BY <1>3, <1>7, <2>4, <2>8, Zenon
  <2>13. Closes(i, call[p].seq)
    BY <2>8, <2>9, <2>11, <2>12 DEF Closes
  <2>10. NumbersFit'
    BY <1>1, <1>2, <1>9, <2>13, SettleNumbers
  <2> QED
    BY <1>1, <2>7, <2>10, NumbersStep
<1> QED
  BY <1>10, <1>11

LEMMA FetchFailedStep ==
    ASSUME IInv, NEW p \in Calls, FetchFailed(p)
    PROVE  Kept
<1>1. call[p].pc = "fetch" /\ call[p].pc \in InFlight
  BY DEF FetchFailed, InFlight
<1>2. PICK i \in Identities : i = IdentityOf[call[p].tok]
  BY <1>1, IdentityKnown
<1>3. call[p] \in CallRecords /\ ident \in [Identities -> IdentRecords]
  BY <1>1, IdentityKnown
<1>4. PICK w \in SUBSET Nat : w = ident[i].active \ {call[p].seq}
  BY <1>3 DEF IdentRecords
<1>5. PICK b \in CallRecords : b = [call[p] EXCEPT !.waits = w]
  BY <1>3, Updates
<1>6. Follows(b, call[p])
  BY <1>3, <1>5 DEF CallRecords, Follows
<1>7. "wait" \in Phases
  BY DEF Phases
<1>8. PICK q \in CallRecords : q = [b EXCEPT !.pc = "wait"] /\ q.pc = "wait" /\ Follows(q, b)
  BY <1>7, SetPc
<1>9. Follows(q, call[p])
  BY <1>6, <1>8 DEF Follows
<1>10. call' = [call EXCEPT ![p] = q]
  BY <1>2, <1>4, <1>5, <1>8, Zenon DEF FetchFailed
<1>11. ident' = settled(i, call[p].seq) /\ UNCHANGED <<gen, features, commit, storeOK, slot, disk, meta>>
  BY <1>2 DEF FetchFailed
<1> QED
  BY <1>1, <1>2, <1>8, <1>9, <1>10, <1>11, SettleStep

LEMMA SaveStep ==
    ASSUME IInv, NEW p \in Calls, saveModelsForGeneration(p)
    PROVE  Kept
<1>1. call[p].pc = "save" /\ call[p].pc \in InFlight
  BY DEF saveModelsForGeneration, InFlight
<1>2. PICK i \in Identities : i = IdentityOf[call[p].tok]
  BY <1>1, IdentityKnown
<1>3. call[p] \in CallRecords /\ ident \in [Identities -> IdentRecords]
  BY <1>1, IdentityKnown
<1>4. UNCHANGED <<gen, features, commit, storeOK, slot, meta>>
  BY DEF saveModelsForGeneration
<1>5. "finish" \in Phases /\ "shared" \in Phases /\ "wait" \in Phases
      /\ "none" \in Sources /\ "fresh" \in Sources
  BY DEF Phases, Sources
<1>6. CASE /\ ident' = settled(i, call[p].seq) /\ UNCHANGED disk
           /\ call' = [call EXCEPT ![p] = [Chosen(call[p], "none") EXCEPT !.pc = "finish"]]
  <2>1. PICK b \in CallRecords : b = Chosen(call[p], "none") /\ Follows(b, call[p])
    BY <1>3, <1>5, ChosenTyped
  <2>2. PICK q \in CallRecords : q = [b EXCEPT !.pc = "finish"] /\ q.pc = "finish" /\ Follows(q, b)
    BY <1>5, SetPc
  <2>3. Follows(q, call[p])
    BY <2>1, <2>2 DEF Follows
  <2>4. call' = [call EXCEPT ![p] = q]
    BY <1>6, <2>1, <2>2
  <2> QED
    BY <1>1, <1>2, <1>4, <1>6, <2>2, <2>3, <2>4, SettleStep
<1>7. CASE /\ ident' = settled(i, call[p].seq) /\ UNCHANGED disk
           /\ call' = [call EXCEPT ![p].pc = "shared"]
  <2>1. PICK q \in CallRecords : q = [call[p] EXCEPT !.pc = "shared"] /\ q.pc = "shared" /\ Follows(q, call[p])
    BY <1>3, <1>5, SetPc
  <2>2. call' = [call EXCEPT ![p] = q]
    BY <1>7, <2>1
  <2> QED
    BY <1>1, <1>2, <1>4, <1>7, <2>1, <2>2, SettleStep
<1>8. CASE /\ gen = call[p].key.cfg
           /\ ident' = [settled(i, call[p].seq) EXCEPT ![i].cfg = call[p].key.cfg, ![i].seq = call[p].seq]
           /\ disk' = [disk EXCEPT ![i] = [cfg |-> call[p].key.cfg, seq |-> call[p].seq]]
           /\ call' = [call EXCEPT ![p] = Chosen(call[p], "fresh")]
  <2>1. PICK q \in CallRecords : q = Chosen(call[p], "fresh") /\ q.pc = "meta" /\ Follows(q, call[p])
    BY <1>3, <1>5, ChosenTyped
  <2>2. call' = [call EXCEPT ![p] = q]
    BY <1>8, <2>1
  <2> QED
    BY <1>1, <1>2, <1>4, <1>8, <2>1, <2>2, SettleStep
<1>9. CASE /\ ident' = settled(i, call[p].seq) /\ UNCHANGED disk
           /\ call' = [call EXCEPT ![p].waits = ident[i].active \ {call[p].seq}, ![p].pc = "wait"]
  <2>1. PICK w \in SUBSET Nat : w = ident[i].active \ {call[p].seq}
    BY <1>3 DEF IdentRecords
  <2>2. PICK b \in CallRecords : b = [call[p] EXCEPT !.waits = w]
    BY <1>3, Updates
  <2>3. Follows(b, call[p])
    BY <1>3, <2>2 DEF CallRecords, Follows
  <2>4. PICK q \in CallRecords : q = [b EXCEPT !.pc = "wait"] /\ q.pc = "wait" /\ Follows(q, b)
    BY <1>5, SetPc
  <2>5. Follows(q, call[p])
    BY <2>3, <2>4 DEF Follows
  <2>6. call' = [call EXCEPT ![p] = q]
    BY <1>9, <2>1, <2>2, <2>4
  <2> QED
    BY <1>1, <1>2, <1>4, <1>9, <2>4, <2>5, <2>6, SettleStep
<1> QED
  BY <1>2, <1>6, <1>7, <1>8, <1>9, Zenon DEF saveModelsForGeneration, Current

(***************************************************************************)
(* The slots.                                                              *)
(***************************************************************************)
SlotRecords == [key: Keys, next: Nat, cur: Snapshots \cup {Nil}, calls: SUBSET Calls]

\* A shown snapshot is from the list in force.
Shows(s) == s # Nil /\ ~s.restored /\ s.cfg = gen /\ s.state \in Executable => s.list = features.list

\* The slot of one account changes; the calls of the others go on.
LEMMA SlotStep ==
    ASSUME IInv, NEW a \in Auths, NEW r \in SlotRecords, slot' = [slot EXCEPT ![a] = r],
           UNCHANGED <<gen, features, commit, storeOK, ident, disk, meta>>,
           call' \in [Calls -> CallRecords], CallsFit', NumbersFit', SlotFits(a)',
           \A b \in Auths \ {a} : \A x \in slot[b].calls :
              call'[x].pc \in InFlight /\ Follows(call'[x], call[x]),
           ListsFit => ListOfCalls' /\ Shows(r.cur)
    PROVE  Kept
<1>1. Typed /\ CallsFit /\ SlotsFit /\ slot \in [Auths -> SlotRecords]
  BY DEF IInv, Typed, TypeOK, SlotRecords
<1>2. slot' \in [Auths -> SlotRecords] /\ slot'[a] = r /\ \A b \in Auths \ {a} : slot'[b] = slot[b]
  BY <1>1
<1>3. Typed'
  <2>1. \A x \in Calls : call'[x].pc \in Phases
    BY DEF CallRecords
  <2> QED
    BY <1>1, <1>2, <2>1 DEF Typed, TypeOK, SlotRecords
<1>4. SlotsFit'
  <2> SUFFICES ASSUME NEW b \in Auths, b # a PROVE SlotFits(b)'
    BY DEF SlotsFit
  <2>1. SlotFits(b)
    BY <1>1 DEF SlotsFit
  <2> QED
    BY <1>1, <1>2, <2>1, SlotKept
<1>5. ListsFit => ListsFit'
  <2> SUFFICES ASSUME ListsFit PROVE ListsFit'
    OBVIOUS
  <2>1. ListOfCalls' /\ Shows(r.cur)
    OBVIOUS
  <2>2. ListOfSlots'
    <3> SUFFICES ASSUME NEW b \in Auths PROVE Shows(slot'[b].cur)
      BY DEF ListOfSlots, Shows
    <3>1. Shows(slot[b].cur)
      BY DEF ListsFit, ListOfSlots, Shows
    <3> QED
      BY <1>2, <2>1, <3>1
  <2>3. ListOfWriters'
    BY DEF ListsFit, ListOfWriters
  <2> QED
    BY <2>1, <2>2, <2>3 DEF ListsFit
<1> QED
  BY <1>3, <1>4, <1>5 DEF Kept, IInv

\* A slot that takes in no new call.
LEMMA SlotFitsOn ==
    ASSUME Typed, NEW a \in Auths, SlotFits(a), gen' = gen, slot' \in [Auths -> SlotRecords],
           slot'[a].key.cfg <= gen, slot'[a].next >= slot[a].next, slot'[a].calls \subseteq slot[a].calls,
           call' \in [Calls -> CallRecords],
           \A x \in slot'[a].calls : call'[x].pc \in InFlight /\ Follows(call'[x], call[x]),
           Belongs(a)', Owned(a)'
    PROVE  SlotFits(a)'
<1>1. OneFlight(a)'
  BY DEF SlotFits, OneFlight, Follows
<1>2. \A x \in slot'[a].calls : Registered(a, x)'
  <2> TAKE x \in slot'[a].calls
  <2>1. x \in Calls /\ x \in slot[a].calls /\ Registered(a, x)
    BY DEF Typed, TypeOK, SlotFits
  <2>2. call[x].gen \in Nat /\ slot[a].next \in Nat /\ slot'[a].next \in Nat
    BY <2>1 DEF Typed, TypeOK, CallRecords, SlotRecords
  <2>3. call'[x].gen = call[x].gen /\ call'[x].auth = call[x].auth /\ call'[x].pc \in InFlight
    BY DEF Follows
  <2> QED
    BY <2>1, <2>2, <2>3 DEF Registered
<1> QED
  BY <1>1, <1>2 DEF SlotFits

\* The slot of an account, and the generation a key starts or keeps.
LEMMA SlotKnown ==
    ASSUME IInv, NEW a \in Auths, NEW k \in Keys
    PROVE  /\ Typed /\ SlotFits(a) /\ gen \in Nat /\ features \in Features
           /\ slot \in [Auths -> SlotRecords] /\ slot[a] \in SlotRecords
           /\ slot[a].key \in Keys /\ slot[a].next \in Nat /\ slot[a].calls \subseteq Calls
           /\ nextAuthFor(a, k) \in Nat /\ nextAuthFor(a, k) >= slot[a].next
           /\ nextAuthFor(a, k) <= slot[a].next => slot[a].key = k /\ nextAuthFor(a, k) = slot[a].next
<1>1. /\ Typed /\ SlotFits(a) /\ gen \in Nat /\ features \in Features
      /\ slot \in [Auths -> SlotRecords]
  BY DEF IInv, SlotsFit, Typed, TypeOK, SlotRecords
<1>2. /\ slot[a] \in SlotRecords
      /\ slot[a].key \in Keys /\ slot[a].next \in Nat /\ slot[a].calls \subseteq Calls
  BY <1>1 DEF SlotRecords
<1>3. PICK n \in Nat : n = slot[a].next
  BY <1>2
<1>4. n \in Nat /\ n + 1 \in Nat /\ n >= n /\ n + 1 >= n /\ ~(n + 1 <= n)
  OBVIOUS
<1> QED
  BY <1>1, <1>2, <1>3, <1>4 DEF nextAuthFor

\* A slot under a key, a generation and a snapshot of its own.
Republished(s, k, n, v) == [s EXCEPT !.key = k, !.next = n, !.cur = v]

LEMMA SlotUpdate ==
    ASSUME NEW s \in SlotRecords, NEW k \in Keys, NEW n \in Nat, NEW v \in Snapshots
    PROVE  /\ Republished(s, k, n, v) \in SlotRecords
           /\ Republished(s, k, n, v).key = k /\ Republished(s, k, n, v).next = n
           /\ Republished(s, k, n, v).cur = v /\ Republished(s, k, n, v).calls = s.calls
<1>1. PICK b \in SlotRecords : b = [s EXCEPT !.key = k]
  BY DEF SlotRecords
<1>2. PICK d \in SlotRecords : d = [b EXCEPT !.next = n]
  BY DEF SlotRecords
<1>3. PICK r \in SlotRecords : r = [d EXCEPT !.cur = v]
  BY DEF SlotRecords
<1>4. r.key = k /\ r.next = n /\ r.cur = v /\ r.calls = s.calls
  BY <1>1, <1>2, <1>3 DEF SlotRecords
<1>5. r = Republished(s, k, n, v)
  BY <1>1, <1>2, <1>3 DEF Republished
<1> QED
  BY <1>4, <1>5

\* What a snapshot needs to be shown under a slot's new key: it is of this config
\* generation and of the slot's auth generation.
Fresh(v, k, n) ==
    /\ v \in Snapshots /\ v # Nil /\ v.state # "loading" /\ v.cfg = gen /\ v.auth = n
    /\ ~v.restored => v.for = k

\* A slot starts over with a snapshot; its calls stay registered.
LEMMA Republish ==
    ASSUME IInv, NEW a \in Auths, NEW k \in Keys, k.cfg = gen, NEW v, Fresh(v, k, nextAuthFor(a, k)),
           slot' = [slot EXCEPT ![a].key = k, ![a].next = nextAuthFor(a, k), ![a].cur = v],
           call' \in [Calls -> CallRecords], CallsFit', NumbersFit',
           UNCHANGED <<gen, features, commit, storeOK, ident, disk, meta>>,
           \A b \in Auths : \A x \in slot[b].calls :
              call'[x].pc \in InFlight /\ Follows(call'[x], call[x]),
           ListsFit => ListOfCalls' /\ Shows(v)
    PROVE  Kept
<1>1. /\ Typed /\ SlotFits(a) /\ gen \in Nat
      /\ slot \in [Auths -> SlotRecords] /\ slot[a] \in SlotRecords
  BY SlotKnown
<1>2. PICK n \in Nat : n = nextAuthFor(a, k) /\ n >= slot[a].next
  BY SlotKnown
<1>3. v \in Snapshots /\ Fresh(v, k, n)
  BY <1>2 DEF Fresh
<1>10. PICK s \in SlotRecords : s = slot[a]
  BY <1>1
<1>4. PICK r \in SlotRecords :
         /\ r = Republished(s, k, n, v)
         /\ r.key = k /\ r.next = n /\ r.cur = v /\ r.calls = s.calls
  BY <1>3, SlotUpdate
<1>5. slot' = [slot EXCEPT ![a] = r]
  BY <1>2, <1>4, <1>10 DEF Republished
<1>6. slot' \in [Auths -> SlotRecords] /\ slot'[a] = r
  BY <1>1, <1>5
<1>7. gen <= gen
  BY <1>1
<1>8. Belongs(a)' /\ Owned(a)'
  BY <1>3, <1>4, <1>6 DEF Belongs, Owned, Fresh
<1>9. SlotFits(a)'
  BY <1>1, <1>2, <1>4, <1>6, <1>7, <1>8, <1>10, SlotFitsOn
<1> QED
  BY <1>4, <1>5, <1>9, SlotStep

\* A call that is not in flight goes on out of flight, whatever becomes of its slot.
LEMMA Aside ==
    ASSUME IInv, NEW p \in Calls, NEW q \in CallRecords, call' = [call EXCEPT ![p] = q],
           call[p].pc \notin InFlight, q.pc \notin InFlight, Fits(q),
           UNCHANGED <<gen, features, ident, disk>>
    PROVE  /\ call' \in [Calls -> CallRecords] /\ CallsFit' /\ NumbersFit'
           /\ \A b \in Auths : \A x \in slot[b].calls :
                 call'[x].pc \in InFlight /\ Follows(call'[x], call[x])
           /\ ListsFit => ListOfCalls'
<1>1. Typed /\ CallsFit /\ SlotsFit /\ NumbersFit
  BY DEF IInv
<1>2. Becomes(p, q)
  BY <1>1, BecomesTyped
<1>3. CallsFit'
  BY <1>1, <1>2, CallsKept
<1>4. NumbersFit'
  <2>1. q.pc \notin Numbered
    BY DEF Numbered, InFlight
  <2> QED
    BY <1>1, <1>2, <2>1, NumbersKept
<1>5. \A b \in Auths : \A x \in slot[b].calls :
         call'[x].pc \in InFlight /\ Follows(call'[x], call[x])
  <2> TAKE b \in Auths
  <2>1. SlotFits(b)
    BY <1>1 DEF SlotsFit
  <2> QED
    BY <1>1, <1>2, <2>1, OthersFollow DEF Keeps
<1>6. ListsFit => ListOfCalls'
  BY <1>2 DEF ListsFit, ListOfCalls, Becomes
<1> QED
  BY <1>2, <1>3, <1>4, <1>5, <1>6 DEF Becomes

LEMMA MarkStep ==
    ASSUME IInv, NEW a \in Auths, markAuthNotStarted(a)
    PROVE  Kept
<1> DEFINE k == BlankKey(gen)
           n == nextAuthFor(a, k)
           v == Snapshot("not_started", gen, n, k, NoList)
<1>1. gen \in Nat /\ Typed /\ CallsFit /\ NumbersFit /\ SlotsFit
  BY DEF IInv, Typed, TypeOK
<1>2. k \in Keys /\ k.cfg = gen
  BY <1>1, BlankTyped
<1>3. n \in Nat
  BY <1>2, SlotKnown
<1>4. /\ v \in Snapshots /\ v # Nil /\ v.state = "not_started" /\ v.cfg = gen /\ v.auth = n /\ v.for = k
  <2> HIDE DEF n, k
  <2>1. PICK st \in States : st = "not_started"
    BY DEF States
  <2>2. v \in Snapshots
    BY <1>1, <1>2, <1>3, <2>1 DEF Snapshot, Snapshots
  <2>3. /\ v.state = "not_started" /\ v.cfg = gen /\ v.auth = n /\ v.for = k
    BY DEF Snapshot
  <2> QED
    BY <2>2, <2>3, NilState
<1>5. UNCHANGED <<gen, features, commit, storeOK, ident, disk, meta, call>>
  BY DEF markAuthNotStarted
<1>6. slot' = [slot EXCEPT ![a].key = k, ![a].next = n, ![a].cur = v]
  BY DEF markAuthNotStarted
<1>7. Fresh(v, k, n) /\ Shows(v)
  BY <1>4 DEF Fresh, Shows, Executable
<1>8. call' \in [Calls -> CallRecords] /\ CallsFit' /\ NumbersFit'
  BY <1>1, <1>5 DEF Typed, CallsFit, CallFits, NumbersFit, IdentFits, OneNumber, NumberFits, NumberOf
<1>9. \A b \in Auths : \A x \in slot[b].calls : call'[x].pc \in InFlight /\ Follows(call'[x], call[x])
  BY <1>1, <1>5 DEF SlotsFit, SlotFits, Registered, Follows
<1>10. ListsFit => ListOfCalls'
  BY <1>5 DEF ListsFit, ListOfCalls
<1> HIDE DEF v
<1> QED
  BY <1>2, <1>5, <1>6, <1>7, <1>8, <1>9, <1>10, Republish, Zenon

LEMMA RestoreStep ==
    ASSUME IInv, NEW p \in Calls, restoreModelSnapshot(p)
    PROVE  Kept
<1>1. /\ call[p].pc = "restore" /\ call[p] \in CallRecords
      /\ call[p].prev \in Snapshots /\ call[p].prev.state \in Executable
  BY CallKnown DEF restoreModelSnapshot, Fits
<1>2. PICK a \in Auths : a = call[p].auth
  BY <1>1, CallKnown
<1> DEFINE k == BlankKey(gen)
           n == nextAuthFor(a, k)
           v == [call[p].prev EXCEPT !.cfg = gen, !.auth = n, !.restored = TRUE]
<1>3. gen \in Nat
  BY DEF IInv, Typed, TypeOK
<1>4. k \in Keys /\ k.cfg = gen
  BY <1>3, BlankTyped
<1>5. n \in Nat
  BY <1>4, SlotKnown
<1>6. Fresh(v, k, n) /\ v.restored = TRUE
  <2> HIDE DEF n
  <2>1. PICK s \in Snapshots : s = call[p].prev
    BY <1>1
  <2>2. PICK s1 \in Snapshots : s1 = [s EXCEPT !.cfg = gen]
    BY <1>3 DEF Snapshots
  <2>3. PICK s2 \in Snapshots : s2 = [s1 EXCEPT !.auth = n]
    BY <1>5 DEF Snapshots
  <2>4. PICK s3 \in Snapshots : s3 = [s2 EXCEPT !.restored = TRUE]
    BY DEF Snapshots
  <2>5. s3.cfg = gen /\ s3.auth = n /\ s3.restored = TRUE /\ s3.state = s.state
    BY <1>3, <1>5, <2>2, <2>3, <2>4 DEF Snapshots
  <2>6. v = s3
    BY <2>1, <2>2, <2>3, <2>4
  <2>7. s3.state # "loading" /\ s3 # Nil
    BY <1>1, <2>1, <2>5, NilState DEF Executable
  <2> QED
    BY <2>5, <2>6, <2>7 DEF Fresh
<1>7. slot' = [slot EXCEPT ![a].key = k, ![a].next = n, ![a].cur = v]
  BY <1>2 DEF restoreModelSnapshot
<1>8. PICK q \in CallRecords : q = Over(call[p]) /\ q.pc = "done"
  BY <1>1, OverTyped
<1>9. call' = [call EXCEPT ![p] = q] /\ UNCHANGED <<gen, features, commit, storeOK, ident, disk, meta>>
  BY <1>8 DEF restoreModelSnapshot
<1>10. call[p].pc \notin InFlight /\ q.pc \notin InFlight /\ Fits(q)
  BY <1>1, <1>8 DEF InFlight, Fits
<1>11. Shows(v)
  BY <1>6 DEF Shows
<1> HIDE DEF v
<1> QED
  BY <1>4, <1>6, <1>7, <1>9, <1>10, <1>11, Aside, Republish, Zenon

\* A credential that does not parse is published as a failure.
LEMMA EnterBad ==
    ASSUME IInv, NEW p \in Calls, Enter(p), call[p].tok = Bad
    PROVE  Kept
<1>1. call[p].pc = "enter" /\ call[p] \in CallRecords
  BY CallKnown DEF Enter
<1>2. PICK a \in Auths : a = call[p].auth
  BY <1>1, CallKnown
<1> DEFINE k == [cfg |-> gen, tok |-> NoToken]
           n == nextAuthFor(a, k)
           v == Snapshot("failed", gen, n, k, NoList)
<1>3. gen \in Nat
  BY DEF IInv, Typed, TypeOK
<1>4. k \in Keys /\ k.cfg = gen
  BY <1>3 DEF Keys
<1>5. n \in Nat
  BY <1>4, SlotKnown
<1>6. v \in Snapshots /\ v # Nil /\ v.state = "failed" /\ v.cfg = gen /\ v.auth = n /\ v.for = k
  <2> HIDE DEF n, k
  <2>1. PICK st \in States : st = "failed"
    BY DEF States
  <2>2. v \in Snapshots
    BY <1>3, <1>4, <1>5, <2>1 DEF Snapshot, Snapshots
  <2>3. /\ v.state = "failed" /\ v.cfg = gen /\ v.auth = n /\ v.for = k
    BY DEF Snapshot
  <2> QED
    BY <2>2, <2>3, NilState
<1>7. Fresh(v, k, n) /\ Shows(v)
  BY <1>6 DEF Fresh, Shows, Executable
<1>8. PICK q \in CallRecords : q = Return(call[p], "failed") /\ q.pc \in {"restore", "done"} /\ Fits(q)
  BY <1>1, <1>2, ReturnTyped
<1>9. /\ slot' = [slot EXCEPT ![a].key = k, ![a].next = n, ![a].cur = v]
      /\ call' = [call EXCEPT ![p] = q]
  BY <1>2, <1>8 DEF Enter
<1>10. UNCHANGED <<gen, features, commit, storeOK, ident, disk, meta>>
  BY DEF Enter
<1>11. call[p].pc \notin InFlight /\ q.pc \notin InFlight
  BY <1>1, <1>8 DEF InFlight
<1> HIDE DEF v
<1> QED
  BY <1>4, <1>7, <1>8, <1>9, <1>10, <1>11, Aside, Republish, Zenon

\* A call that finds an answer or a call of its own generation changes no slot.
LEMMA SameSlot ==
    ASSUME IInv, NEW a \in Auths, NEW k \in Keys, nextAuthFor(a, k) <= slot[a].next,
           slot' = [slot EXCEPT ![a].key = k, ![a].next = nextAuthFor(a, k)]
    PROVE  slot' = slot
<1>1. slot \in [Auths -> SlotRecords] /\ slot[a].key = k /\ nextAuthFor(a, k) = slot[a].next
  BY SlotKnown
<1>2. slot' = [slot EXCEPT ![a] = [slot[a] EXCEPT !.key = slot[a].key, !.next = slot[a].next]]
  BY <1>1
<1>3. \A s \in SlotRecords : [s EXCEPT !.key = s.key, !.next = s.next] = s
  BY DEF SlotRecords
<1>4. slot' = [slot EXCEPT ![a] = slot[a]]
  BY <1>1, <1>2, <1>3, Zenon
<1> QED
  BY <1>1, <1>4

LEMMA EnterSettled ==
    ASSUME IInv, NEW p \in Calls, NEW a \in Auths, a = call[p].auth, NEW k \in Keys,
           call[p].pc = "enter", slot[a].cur # Nil, slot[a].cur.auth = nextAuthFor(a, k),
           slot' = [slot EXCEPT ![a].key = k, ![a].next = nextAuthFor(a, k)],
           call' = [call EXCEPT ![p] = Return(call[p], slot[a].cur.state)],
           UNCHANGED <<gen, features, commit, storeOK, ident, disk, meta>>
    PROVE  Kept
<1>1. call[p] \in CallRecords /\ MetaTyped
  BY CallKnown
<1>2. slot[a].cur.auth = slot[a].next /\ slot[a].next \in Nat
  BY SlotKnown DEF SlotFits, Belongs
<1>3. nextAuthFor(a, k) <= slot[a].next
  BY <1>2
<1>4. slot' = slot
  BY <1>3, SameSlot
<1>5. PICK st : st = slot[a].cur.state
  OBVIOUS
<1>6. PICK q \in CallRecords : q = Return(call[p], st) /\ q.pc \in {"restore", "done"} /\ Fits(q)
  BY <1>1, ReturnTyped
<1>7. call' = [call EXCEPT ![p] = q]
  BY <1>5, <1>6
<1>8. Keeps(call[p], q) /\ q.pc \notin Numbered
  BY <1>6 DEF Keeps, InFlight, Numbered
<1> QED
  BY <1>1, <1>4, <1>6, <1>7, <1>8, CalmStep DEF MetaTyped

LEMMA EnterJoin ==
    ASSUME IInv, NEW p \in Calls, NEW a \in Auths, a = call[p].auth, NEW k \in Keys,
           call[p].pc = "enter", NEW x \in callsOf(a, nextAuthFor(a, k)),
           slot' = [slot EXCEPT ![a].key = k, ![a].next = nextAuthFor(a, k)],
           call' = [call EXCEPT ![p].pc = "joined", ![p].owner = x, ![p].tok = NoToken],
           UNCHANGED <<gen, features, commit, storeOK, ident, disk, meta>>
    PROVE  Kept
<1>1. call[p] \in CallRecords /\ MetaTyped
  BY CallKnown
<1>2. x \in slot[a].calls /\ call[x].gen = nextAuthFor(a, k)
  BY DEF callsOf
<1>3. x \in Calls /\ call[x].gen <= slot[a].next
  BY <1>2, SlotKnown DEF SlotFits, Registered
<1>4. slot' = slot
  BY <1>2, <1>3, SameSlot
<1>5. "joined" \in Phases
  BY DEF Phases
<1>6. PICK b \in CallRecords : b = [call[p] EXCEPT !.pc = "joined"] /\ b.pc = "joined" /\ Follows(b, call[p])
  BY <1>1, <1>5, SetPc
<1>7. PICK d \in CallRecords : d = [b EXCEPT !.owner = x] /\ Beside(d, b) /\ d.owner = x
  BY <1>3, LocalsBeside
<1>8. PICK q \in CallRecords : q = [d EXCEPT !.tok = NoToken]
  BY Updates
<1>9. q.pc = "joined" /\ q.owner = x /\ q.auth = a
  BY <1>6, <1>7, <1>8 DEF CallRecords, Beside, Follows
<1>10. call' = [call EXCEPT ![p] = q]
  BY <1>6, <1>7, <1>8
<1>11. Fits(q) /\ Keeps(call[p], q) /\ q.pc \notin Numbered
  BY <1>3, <1>9 DEF Fits, InFlight, Keeps, Numbered
<1> QED
  BY <1>1, <1>4, <1>10, <1>11, CalmStep DEF MetaTyped

\* A call registers for a generation nobody discovers yet.
Registers(p, a, k, n, v, r) ==
    /\ a = call[p].auth /\ call[p].pc = "enter" /\ call[p].tok # Bad
    /\ k \in Keys /\ k.cfg = gen /\ n \in Nat /\ n = nextAuthFor(a, k)
    /\ callsOf(a, n) = {} /\ v \in {"finish", "meta", "identity"}
    /\ r \in SlotRecords /\ r.key = k /\ r.next = n /\ r.calls = slot[a].calls \cup {p}
    /\ r.cur = Snapshot("loading", gen, n, k, features.list)
    /\ slot' = [slot EXCEPT ![a] = r]
    /\ call' = [call EXCEPT ![p].key = k, ![p].gen = n, ![p].list = features.list, ![p].pc = v]
    /\ UNCHANGED <<gen, features, commit, storeOK, ident, disk, meta>>

LEMMA EnterNew ==
    ASSUME IInv, NEW p \in Calls, NEW a \in Auths, NEW k, NEW n, NEW v, NEW r,
           Registers(p, a, k, n, v, r)
    PROVE  Kept
<1>0. /\ a = call[p].auth /\ call[p].pc = "enter" /\ call[p].tok # Bad
      /\ k \in Keys /\ k.cfg = gen /\ n \in Nat /\ n = nextAuthFor(a, k)
      /\ callsOf(a, n) = {} /\ v \in {"finish", "meta", "identity"}
      /\ r \in SlotRecords /\ r.key = k /\ r.next = n /\ r.calls = slot[a].calls \cup {p}
      /\ r.cur = Snapshot("loading", gen, n, k, features.list)
      /\ slot' = [slot EXCEPT ![a] = r]
      /\ call' = [call EXCEPT ![p].key = k, ![p].gen = n, ![p].list = features.list, ![p].pc = v]
      /\ UNCHANGED <<gen, features, commit, storeOK, ident, disk, meta>>
  BY DEF Registers
<1>1. /\ Typed /\ SlotFits(a) /\ gen \in Nat /\ features \in Features /\ n >= slot[a].next
      /\ slot \in [Auths -> SlotRecords] /\ slot[a].next \in Nat /\ slot[a].calls \subseteq Calls
      /\ CallsFit /\ SlotsFit /\ NumbersFit
  BY <1>0, SlotKnown DEF IInv
<1>2. call[p] \in CallRecords /\ call[p].tok \in Tokens
  BY <1>0, CallKnown DEF Fits
<1>3. PICK l \in Lists \cup {NoList} : l = features.list
  BY <1>1 DEF Features
<1>4. PICK b \in CallRecords : b = [call[p] EXCEPT !.key = k]
  BY <1>0, <1>2, Updates
<1>5. b.key = k /\ b.auth = a /\ b.tok = call[p].tok
  BY <1>0, <1>2, <1>4 DEF CallRecords
<1>6. PICK d \in CallRecords : d = [b EXCEPT !.gen = n]
  BY <1>0, Updates
<1>7. d.key = k /\ d.auth = a /\ d.tok = call[p].tok /\ d.gen = n
  BY <1>5, <1>6 DEF CallRecords
<1>8. PICK e \in CallRecords : e = [d EXCEPT !.list = l]
  BY Updates
<1>9. e.key = k /\ e.auth = a /\ e.tok = call[p].tok /\ e.gen = n /\ e.list = l
  BY <1>7, <1>8 DEF CallRecords
<1>10. v \in Phases /\ v \in InFlight /\ v \notin Numbered /\ v \notin {"idle", "done", "enter", "joined", "mwait", "restore"}
  BY <1>0 DEF Phases, InFlight, Numbered
<1>11. PICK q \in CallRecords : q = [e EXCEPT !.pc = v] /\ q.pc = v /\ Follows(q, e)
  BY <1>10, SetPc
<1>12. q.key = k /\ q.auth = a /\ q.tok = call[p].tok /\ q.gen = n /\ q.list = l
  BY <1>9, <1>11 DEF Follows
<1>13. call' = [call EXCEPT ![p] = q]
  BY <1>0, <1>3, <1>4, <1>6, <1>8, <1>11
<1>14. Becomes(p, q)
  BY <1>1, <1>13, BecomesTyped
<1>15. Fits(q)
  BY <1>2, <1>10, <1>11, <1>12 DEF Fits
<1>16. CallsFit'
  <2>1. q.key.cfg <= gen
    BY <1>0, <1>1, <1>12
  <2> QED
    BY <1>0, <1>1, <1>14, <1>15, <2>1, CallsKept
<1>17. NumbersFit'
  BY <1>0, <1>1, <1>10, <1>11, <1>14, NumbersKept
<1>18. \A b0 \in Auths : \A x \in slot[b0].calls :
          x # p /\ call'[x] = call[x] /\ call'[x].pc \in InFlight /\ Follows(call'[x], call[x])
  <2> TAKE b0 \in Auths
  <2> TAKE x \in slot[b0].calls
  <2>1. x \in Calls /\ call[x].pc \in InFlight
    BY <1>1 DEF SlotsFit, SlotFits, Registered, Typed, TypeOK
  <2>2. x # p
    BY <1>0, <2>1 DEF InFlight
  <2> QED
    BY <1>14, <2>1, <2>2 DEF Becomes, Follows
<1>19. slot'[a] = r /\ call'[p] = q
  BY <1>0, <1>1, <1>14 DEF Becomes
<1>20. SlotFits(a)'
  <2>1. slot'[a].key.cfg <= gen'
    BY <1>0, <1>1, <1>19
  <2>2. /\ r.cur.state = "loading" /\ r.cur.cfg = gen /\ r.cur.auth = n /\ r.cur.for = k
    BY <1>0 DEF Snapshot
  <2>3. Belongs(a)'
    BY <1>0, <1>19, <2>2 DEF Belongs
  <2>4. Owned(a)'
    BY <1>0, <1>12, <1>19 DEF Owned
  <2>5. \A x \in slot[a].calls : call[x].gen # n
    BY <1>0 DEF callsOf
  <2>6. OneFlight(a)'
    <3> SUFFICES ASSUME NEW x \in r.calls, NEW y \in r.calls, call'[x].gen = call'[y].gen
                 PROVE  x = y
      BY <1>19 DEF OneFlight
    <3>1. OneFlight(a)
      BY <1>1 DEF SlotFits
    <3>2. \A z \in r.calls : z # p => z \in slot[a].calls /\ call'[z] = call[z] /\ call'[z].gen # n
      BY <1>0, <1>18, <2>5
    <3>3. call'[p].gen = n
      BY <1>12, <1>19
    <3>4. CASE x = p
      BY <3>2, <3>3, <3>4
    <3>5. CASE y = p
      BY <3>2, <3>3, <3>5
    <3>6. CASE x # p /\ y # p
      BY <3>1, <3>2, <3>6 DEF OneFlight
    <3> QED
      BY <3>4, <3>5, <3>6
  <2>7. \A x \in slot'[a].calls : Registered(a, x)'
    <3> SUFFICES ASSUME NEW x \in r.calls
                 PROVE  call'[x].pc \in InFlight /\ call'[x].auth = a /\ call'[x].gen <= n
      BY <1>0, <1>19 DEF Registered
    <3>1. CASE x = p
      <4>1. n <= n
        BY <1>0
      <4> QED
        BY <1>10, <1>11, <1>12, <1>19, <3>1, <4>1
    <3>2. CASE x # p
      <4>1. x \in slot[a].calls /\ Registered(a, x) /\ call'[x] = call[x] /\ x \in Calls
        BY <1>0, <1>1, <1>18, <3>2 DEF SlotFits
      <4>2. call[x].gen \in Nat
        BY <1>1, <4>1 DEF Typed, CallRecords
      <4>3. call[x].pc \in InFlight /\ call[x].auth = a /\ call[x].gen <= slot[a].next
        BY <4>1 DEF Registered
      <4>4. call[x].gen <= n
        BY <1>0, <1>1, <4>2, <4>3
      <4> QED
        BY <4>1, <4>3, <4>4
    <3> QED
      BY <3>1, <3>2
  <2> QED
    BY <2>1, <2>3, <2>4, <2>6, <2>7 DEF SlotFits
<1>21. ListsFit => ListOfCalls' /\ Shows(r.cur)
  <2>1. ListsFit => ListOfCalls'
    BY <1>0, <1>3, <1>12, <1>14 DEF ListsFit, ListOfCalls, Becomes
  <2>2. Shows(r.cur)
    BY <1>0 DEF Snapshot, Shows
  <2> QED
    BY <2>1, <2>2
<1> QED
  BY <1>0, <1>14, <1>16, <1>17, <1>18, <1>20, <1>21, SlotStep DEF Becomes

LEMMA EnterStep ==
    ASSUME IInv, NEW p \in Calls, Enter(p)
    PROVE  Kept
<1>1. call[p].pc = "enter" /\ call[p] \in CallRecords /\ call[p].tok \in Tokens \cup {Bad}
  BY CallKnown, Zenon DEF Enter, Fits
<1>2. PICK a \in Auths : a = call[p].auth
  BY <1>1, CallKnown
<1>3. CASE call[p].tok = Bad
  BY <1>3, EnterBad
<1>4. CASE call[p].tok # Bad
  <2> DEFINE k == [cfg |-> gen, tok |-> call[p].tok]
             n == nextAuthFor(a, k)
             s == Snapshot("loading", gen, n, k, features.list)
  <2>1. /\ Typed /\ gen \in Nat /\ slot \in [Auths -> SlotRecords] /\ slot[a] \in SlotRecords
        /\ features \in Features
    BY DEF IInv, Typed, TypeOK, SlotRecords
  <2>2. k \in Keys /\ k.cfg = gen
    BY <1>1, <1>4, <2>1 DEF Keys
  <2>3. n \in Nat
    BY <2>2, SlotKnown
  <2>4. UNCHANGED <<gen, features, commit, storeOK, ident, disk, meta>>
    BY Zenon DEF Enter
  <2>5. \/ /\ slot[a].cur # Nil /\ slot[a].cur.auth = n
           /\ slot' = [slot EXCEPT ![a].key = k, ![a].next = n]
           /\ call' = [call EXCEPT ![p] = Return(call[p], slot[a].cur.state)]
        \/ \E x \in callsOf(a, n) :
              /\ slot' = [slot EXCEPT ![a].key = k, ![a].next = n]
              /\ call' = [call EXCEPT ![p].pc = "joined", ![p].owner = x, ![p].tok = NoToken]
        \/ \E v \in {"finish", "meta", "identity"} :
              /\ callsOf(a, n) = {}
              /\ slot' = [[slot EXCEPT ![a].key = k, ![a].next = n] EXCEPT
                            ![a].cur = s, ![a].calls = @ \cup {p}]
              /\ call' = [call EXCEPT ![p].key = k, ![p].gen = n, ![p].list = features.list, ![p].pc = v]
    BY <1>2, <1>4, Zenon DEF Enter
  <2>6. CASE /\ slot[a].cur # Nil /\ slot[a].cur.auth = n
             /\ slot' = [slot EXCEPT ![a].key = k, ![a].next = n]
             /\ call' = [call EXCEPT ![p] = Return(call[p], slot[a].cur.state)]
    <3> HIDE DEF k
    <3> QED
      BY <1>1, <1>2, <2>2, <2>4, <2>6, EnterSettled
  <2>7. CASE \E x \in callsOf(a, n) :
              /\ slot' = [slot EXCEPT ![a].key = k, ![a].next = n]
              /\ call' = [call EXCEPT ![p].pc = "joined", ![p].owner = x, ![p].tok = NoToken]
    <3> HIDE DEF k
    <3> QED
      BY <1>1, <1>2, <2>2, <2>4, <2>7, EnterJoin, Zenon
  <2>8. ASSUME NEW v \in {"finish", "meta", "identity"}, callsOf(a, n) = {},
               slot' = [[slot EXCEPT ![a].key = k, ![a].next = n] EXCEPT
                            ![a].cur = s, ![a].calls = @ \cup {p}],
               call' = [call EXCEPT ![p].key = k, ![p].gen = n, ![p].list = features.list, ![p].pc = v]
        PROVE  Kept
    <3>1. s \in Snapshots
      <4> HIDE DEF n, k
      <4>1. "loading" \in States /\ features.list \in Lists \cup {NoList}
        BY <2>1 DEF States, Features
      <4> QED
        BY <2>1, <2>2, <2>3, <4>1 DEF Snapshot, Snapshots
    <3> HIDE DEF n, k, s
    <3>2. PICK t \in SlotRecords : t = slot[a]
      BY <2>1
    <3>3. PICK b \in SlotRecords :
             /\ b = Republished(t, k, n, s) /\ b.key = k /\ b.next = n /\ b.cur = s /\ b.calls = t.calls
      BY <2>2, <2>3, <3>1, SlotUpdate
    <3>4. PICK r \in SlotRecords : r = [b EXCEPT !.calls = t.calls \cup {p}]
      BY DEF SlotRecords
    <3>5. r.key = k /\ r.next = n /\ r.cur = s /\ r.calls = slot[a].calls \cup {p}
      BY <3>2, <3>3, <3>4 DEF SlotRecords
    <3>6. slot' = [slot EXCEPT ![a] = r]
      BY <2>1, <2>8, <3>2, <3>3, <3>4, ZenonT(30) DEF Republished
    <3>7. r.cur = Snapshot("loading", gen, n, k, features.list)
      BY <3>5 DEF s
    <3>8. n = nextAuthFor(a, k)
      BY DEF n
    <3>9. Registers(p, a, k, n, v, r)
      BY <1>1, <1>2, <1>4, <2>2, <2>3, <2>4, <2>8, <3>5, <3>6, <3>7, <3>8 DEF Registers
    <3> QED
      BY <3>9, EnterNew
  <2> QED
    BY <2>5, <2>6, <2>7, <2>8, Zenon
<1> QED
  BY <1>3, <1>4

(***************************************************************************)
(* finishAuthCall                                                          *)
(***************************************************************************)

\* A discovery is over: its call leaves its slot, and the slot shows v.
Leaves(p, a, q, v) ==
    /\ call[p].pc = "finish" /\ a = call[p].auth
    /\ q \in CallRecords /\ q.pc \in {"restore", "done"} /\ Fits(q)
    /\ call' = [call EXCEPT ![p] = q]
    /\ v \in Snapshots \cup {Nil}
    /\ slot' = [slot EXCEPT ![a].calls = slot[a].calls \ {p}, ![a].cur = v]
    /\ UNCHANGED <<gen, features, commit, storeOK, ident, disk, meta>>

LEMMA LeavesStep ==
    ASSUME IInv, NEW p \in Calls, NEW a \in Auths, NEW q, NEW v, Leaves(p, a, q, v),
           v # Nil => /\ v.auth = slot[a].next /\ v.cfg = slot[a].key.cfg
                      /\ ~v.restored => v.for = slot[a].key,
           v # Nil /\ v.state = "loading" => v = slot[a].cur /\ ~Current(p),
           ListsFit => Shows(v)
    PROVE  Kept
<1>1. /\ Typed /\ SlotFits(a) /\ slot \in [Auths -> SlotRecords] /\ slot[a] \in SlotRecords
      /\ gen \in Nat /\ slot[a].next \in Nat /\ slot[a].calls \subseteq Calls
      /\ CallsFit /\ SlotsFit /\ NumbersFit
  BY DEF IInv, SlotsFit, Typed, TypeOK, SlotRecords
<1>2. /\ q \in CallRecords /\ q.pc \in {"restore", "done"} /\ Fits(q)
      /\ call[p].pc = "finish" /\ a = call[p].auth /\ call' = [call EXCEPT ![p] = q]
      /\ UNCHANGED <<gen, features, commit, storeOK, ident, disk, meta>>
  BY DEF Leaves
<1>3. q.pc \notin InFlight /\ q.pc \notin Numbered
  BY <1>2 DEF InFlight, Numbered
<1>4. Becomes(p, q)
  BY <1>1, <1>2, BecomesTyped
<1>5. CallsFit'
  BY <1>1, <1>2, <1>3, <1>4, CallsKept
<1>6. NumbersFit'
  BY <1>1, <1>2, <1>3, <1>4, NumbersKept
<1>7. PICK r \in SlotRecords : /\ slot' = [slot EXCEPT ![a] = r] /\ r.key = slot[a].key /\ r.next = slot[a].next
                               /\ r.calls = slot[a].calls \ {p} /\ r.cur = v
  <2>1. PICK b \in SlotRecords : b = [slot[a] EXCEPT !.calls = slot[a].calls \ {p}]
    <3>1. \A s \in SlotRecords : \A u \in SUBSET Calls : [s EXCEPT !.calls = u] \in SlotRecords
      BY DEF SlotRecords
    <3>2. slot[a].calls \ {p} \in SUBSET Calls
      BY <1>1
    <3> QED
      BY <1>1, <3>1, <3>2
  <2>2. v \in Snapshots \cup {Nil}
    BY DEF Leaves
  <2>3. PICK r \in SlotRecords : r = [b EXCEPT !.cur = v]
    BY <2>2 DEF SlotRecords
  <2>4. r.key = slot[a].key /\ r.next = slot[a].next /\ r.calls = slot[a].calls \ {p} /\ r.cur = v
    BY <1>1, <2>1, <2>3 DEF SlotRecords
  <2>5. slot' = [slot EXCEPT ![a].calls = slot[a].calls \ {p}, ![a].cur = v]
    BY DEF Leaves
  <2>6. slot' = [slot EXCEPT ![a] = r]
    BY <2>1, <2>3, <2>5
  <2> QED
    BY <2>4, <2>6
<1>8. slot' \in [Auths -> SlotRecords] /\ slot'[a] = r
  BY <1>1, <1>7
<1>9. \A b \in Auths : \A x \in slot[b].calls :
         (b # a \/ x # p) => call'[x].pc \in InFlight /\ Follows(call'[x], call[x])
  <2> TAKE b \in Auths
  <2> TAKE x \in slot[b].calls
  <2>1. x \in Calls /\ call[x].pc \in InFlight /\ call[x].auth = b
    BY <1>1 DEF SlotsFit, SlotFits, Registered, Typed, TypeOK
  <2> QED
    BY <1>2, <1>4, <2>1 DEF Becomes, Follows
<1>10. Belongs(a)'
  BY <1>7, <1>8 DEF Belongs
<1>11. Owned(a)'
  <2> SUFFICES ASSUME v # Nil, v.state = "loading", v.cfg = gen
               PROVE  \E x \in r.calls : call'[x].key = slot[a].key /\ call'[x].gen = slot[a].next
    BY <1>2, <1>7, <1>8 DEF Owned
  <2>1. v = slot[a].cur /\ ~Current(p)
    OBVIOUS
  <2>2. PICK x \in slot[a].calls : call[x].key = slot[a].key /\ call[x].gen = slot[a].next
    BY <1>1, <2>1 DEF SlotFits, Owned
  <2>3. x # p
    BY <1>2, <2>1, <2>2 DEF Current
  <2>4. call'[x].key = slot[a].key /\ call'[x].gen = slot[a].next
    BY <1>9, <2>2, <2>3 DEF Follows
  <2> QED
    BY <1>7, <2>2, <2>3, <2>4
<1>12. SlotFits(a)'
  <2>1. slot'[a].key.cfg <= gen
    BY <1>1, <1>7, <1>8 DEF SlotFits
  <2>2. slot'[a].next >= slot[a].next
    <3>1. \A n \in Nat : n >= n
      OBVIOUS
    <3> QED
      BY <1>1, <1>7, <1>8, <3>1
  <2>3. \A x \in slot'[a].calls : x \in slot[a].calls /\ call'[x].pc \in InFlight /\ Follows(call'[x], call[x])
    BY <1>7, <1>8, <1>9
  <2>4. call' \in [Calls -> CallRecords] /\ gen' = gen
    BY <1>2, <1>4 DEF Becomes
  <2> QED
    BY <1>1, <1>8, <1>10, <1>11, <2>1, <2>2, <2>3, <2>4, SlotFitsOn
<1>13. ListsFit => ListOfCalls' /\ Shows(r.cur)
  <2>1. ListsFit => ListOfCalls'
    BY <1>2, <1>3, <1>4 DEF ListsFit, ListOfCalls, Becomes
  <2> QED
    BY <1>7, <2>1
<1> QED
  BY <1>2, <1>4, <1>5, <1>6, <1>7, <1>9, <1>12, <1>13, SlotStep DEF Becomes

LEMMA FinishStep ==
    ASSUME IInv, NEW p \in Calls, finishAuthCall(p)
    PROVE  Kept
<1>1. call[p].pc = "finish" /\ call[p].pc \in InFlight /\ call[p] \in CallRecords
  BY CallKnown DEF finishAuthCall, InFlight
<1>2. PICK a \in Auths : a = call[p].auth
  BY <1>1, CallKnown
<1>3. /\ Typed /\ SlotFits(a) /\ slot \in [Auths -> SlotRecords] /\ slot[a] \in SlotRecords
      /\ gen \in Nat
  BY DEF IInv, SlotsFit, Typed, TypeOK, SlotRecords
<1>4. UNCHANGED <<gen, features, commit, storeOK, ident, disk, meta>>
  BY DEF finishAuthCall
<1> DEFINE s == Snapshot(outcome(call[p]), call[p].key.cfg, call[p].gen, call[p].key, call[p].list)
<1>5. CASE Current(p)
  <2>1. /\ slot[a].key = call[p].key /\ slot[a].next = call[p].gen /\ gen = call[p].key.cfg
    BY <1>2, <1>5 DEF Current
  <2>2. PICK st : st = outcome(call[p])
    OBVIOUS
  <2>3. st \in {"failed", "ready", "stale"}
    BY <2>2 DEF outcome
  <2>4. s \in Snapshots
    <3>1. /\ call[p].key \in Keys /\ call[p].key.cfg \in Nat /\ call[p].gen \in Nat
          /\ call[p].list \in Lists \cup {NoList}
      BY <1>1 DEF CallRecords, Keys
    <3>2. st \in States
      BY <2>3 DEF States
    <3> QED
      BY <2>2, <3>1, <3>2 DEF Snapshot, Snapshots
  <2>5. /\ s.state = st /\ s.cfg = call[p].key.cfg /\ s.auth = call[p].gen /\ s.for = call[p].key
        /\ s.list = call[p].list
    BY <2>2 DEF Snapshot
  <2>6. /\ slot' = [[slot EXCEPT ![a].calls = @ \ {p}] EXCEPT ![a].cur = s]
        /\ call' = [call EXCEPT ![p] = Return(call[p], st)]
    BY <1>2, <1>5, <2>2, <2>5 DEF finishAuthCall
  <2> HIDE DEF s
  <2>7. PICK q \in CallRecords : q = Return(call[p], st) /\ q.pc \in {"restore", "done"} /\ Fits(q)
    BY <1>1, <1>2, ReturnTyped
  <2>8. slot' = [slot EXCEPT ![a].calls = slot[a].calls \ {p}, ![a].cur = s]
    BY <1>3, <2>6 DEF SlotRecords
  <2>9. Leaves(p, a, q, s)
    BY <1>1, <1>2, <1>4, <2>4, <2>6, <2>7, <2>8 DEF Leaves
  <2>10. ListsFit => Shows(s)
    BY <1>1, <2>1, <2>5 DEF ListsFit, ListOfCalls, Shows
  <2>11. s.state # "loading"
    BY <2>3, <2>5
  <2>12. s.auth = slot[a].next /\ s.cfg = slot[a].key.cfg /\ s.for = slot[a].key
    BY <2>1, <2>5
  <2> QED
    BY <2>9, <2>10, <2>11, <2>12, LeavesStep
<1>6. CASE ~Current(p)
  <2>1. PICK st : st = snapshotForAuthID(a).state
    OBVIOUS
  <2>2. /\ slot' = [slot EXCEPT ![a].calls = @ \ {p}]
        /\ call' = [call EXCEPT ![p] = Return(call[p], st)]
    BY <1>2, <1>6, <2>1 DEF finishAuthCall
  <2>3. PICK q \in CallRecords : q = Return(call[p], st) /\ q.pc \in {"restore", "done"} /\ Fits(q)
    BY <1>1, <1>2, ReturnTyped
  <2>4. PICK v \in Snapshots \cup {Nil} : v = slot[a].cur
    BY <1>3 DEF SlotRecords
  <2>5. slot' = [slot EXCEPT ![a].calls = slot[a].calls \ {p}, ![a].cur = v]
    <3>1. \A r \in SlotRecords : \A u : [r EXCEPT !.calls = u, !.cur = r.cur] = [r EXCEPT !.calls = u]
      BY DEF SlotRecords
    <3>2. slot' = [slot EXCEPT ![a] = [slot[a] EXCEPT !.calls = slot[a].calls \ {p}]]
      BY <2>2
    <3>3. slot' = [slot EXCEPT ![a] = [slot[a] EXCEPT !.calls = slot[a].calls \ {p}, !.cur = v]]
      BY <1>3, <2>4, <3>1, <3>2, Zenon
    <3> QED
      BY <3>3
  <2>6. Leaves(p, a, q, v)
    BY <1>1, <1>2, <1>4, <2>2, <2>3, <2>4, <2>5 DEF Leaves
  <2>7. ListsFit => Shows(v)
    BY <2>4 DEF ListsFit, ListOfSlots, Shows
  <2>8. v # Nil => /\ v.auth = slot[a].next /\ v.cfg = slot[a].key.cfg
                   /\ ~v.restored => v.for = slot[a].key
    BY <1>3, <2>4 DEF SlotFits, Belongs
  <2> QED
    BY <1>6, <2>4, <2>6, <2>7, <2>8, LeavesStep
<1> QED
  BY <1>5, <1>6

(***************************************************************************)
(* The writers of the configuration.                                       *)
(***************************************************************************)

\* A configuration is read or committed: calls, slots and identities are not touched.
LEMMA WriterStep ==
    ASSUME IInv, UNCHANGED <<storeOK, slot, ident, disk, meta, call>>, gen' \in {gen, gen + 1},
           features' \in Features, commit' \in [Writers -> Commits],
           OneWriter /\ ListsFit => ListOfWriters' /\ (gen' = gen => features'.list = features.list)
    PROVE  Kept
<1>1. Typed /\ CallsFit /\ SlotsFit /\ NumbersFit /\ gen \in Nat /\ gen' \in Nat /\ gen <= gen'
  BY DEF IInv, Typed, TypeOK
<1>2. Typed'
  BY <1>1 DEF Typed, TypeOK
<1>3. \A p \in Calls : call[p].key.cfg \in Nat
  BY <1>1 DEF Typed, CallRecords, Keys
<1>4. CallsFit'
  BY <1>1, <1>3 DEF CallsFit, CallFits
<1>5. SlotsFit'
  <2> SUFFICES ASSUME NEW a \in Auths PROVE SlotFits(a)'
    BY DEF SlotsFit
  <2>1. SlotFits(a)
    BY <1>1 DEF SlotsFit
  <2>2. \A x \in slot[a].calls : call'[x].pc \in InFlight /\ Follows(call'[x], call[x])
    BY <2>1 DEF SlotFits, Registered, Follows
  <2> QED
    BY <1>1, <2>1, <2>2, SlotKept
<1>6. NumbersFit'
  <2> SUFFICES ASSUME NEW i \in Identities PROVE NumbersFitAt(i)'
    BY DEF NumbersFit, NumbersFitAt
  <2>1. IdentFits(i) /\ OneNumber(i) /\ (\A p \in Calls : NumberFits(p, i)) /\ ident[i].cfg \in Nat
    BY <1>1, NumbersKnown
  <2>2. IdentFits(i)'
    BY <1>1, <2>1 DEF IdentFits
  <2>3. OneNumber(i)' /\ \A p \in Calls : NumberFits(p, i)'
    BY <2>1 DEF OneNumber, NumberFits, NumberOf
  <2> QED
    BY <2>2, <2>3 DEF NumbersFitAt
<1>7. OneWriter /\ ListsFit => ListsFit'
  <2> SUFFICES ASSUME OneWriter, ListsFit PROVE ListsFit'
    OBVIOUS
  <2>1. gen' = gen => features'.list = features.list
    OBVIOUS
  <2>2. ListOfCalls'
    <3>1. \A p \in Calls : call[p].pc \in InFlight => call[p].key.cfg <= gen
      BY <1>1 DEF CallsFit, CallFits
    <3>2. \A p \in Calls : call[p].pc \in InFlight /\ call[p].key.cfg = gen' => gen' = gen
      BY <1>1, <1>3, <3>1
    <3> QED
      BY <2>1, <3>2 DEF ListsFit, ListOfCalls
  <2>3. ListOfSlots'
    <3>1. \A a \in Auths : slot[a].cur # Nil => slot[a].cur.cfg \in Nat /\ slot[a].cur.cfg <= gen
      BY <1>1 DEF SlotsFit, SlotFits, Belongs, Typed, TypeOK, Keys
    <3>2. \A a \in Auths : slot[a].cur # Nil /\ slot[a].cur.cfg = gen' => gen' = gen
      BY <1>1, <3>1
    <3> QED
      BY <2>1, <3>2 DEF ListsFit, ListOfSlots
  <2> QED
    BY <2>2, <2>3 DEF ListsFit
<1> QED
  BY <1>2, <1>4, <1>5, <1>6, <1>7 DEF Kept, IInv

LEMMA CommitReadStep ==
    ASSUME IInv, NEW w \in Writers, NEW f \in Features, CommitRead(w, f)
    PROVE  Kept
<1>1. commit \in [Writers -> Commits] /\ features \in Features
  BY DEF IInv, Typed, TypeOK
<1>2. PICK r \in Commits : r = [pc |-> "read", prev |-> features, next |-> f]
  BY <1>1 DEF Commits
<1>3. commit' = [commit EXCEPT ![w] = r]
  BY <1>2 DEF CommitRead
<1>4. UNCHANGED <<gen, features, storeOK, slot, ident, disk, meta, call>>
  BY DEF CommitRead
<1>5. commit' \in [Writers -> Commits]
  BY <1>1, <1>3
<1>6. ListsFit => ListOfWriters'
  BY <1>1, <1>2, <1>3, <1>4 DEF ListsFit, ListOfWriters
<1> QED
  BY <1>1, <1>4, <1>5, <1>6, WriterStep

LEMMA CommitStep ==
    ASSUME IInv, NEW w \in Writers, commitFeatureRuntime(w)
    PROVE  Kept
<1>1. commit \in [Writers -> Commits] /\ gen \in Nat /\ commit[w].pc = "read"
  BY DEF IInv, Typed, TypeOK, commitFeatureRuntime
<1>2. commit[w].next \in Features /\ commit[w].prev \in Features
  BY <1>1 DEF Commits
<1>3. PICK r \in Commits : r = [pc |-> "idle"]
  BY DEF Commits
<1>4. commit' = [commit EXCEPT ![w] = r]
  BY <1>3 DEF commitFeatureRuntime
<1>5. commit' \in [Writers -> Commits] /\ commit'[w].pc = "idle"
  BY <1>1, <1>3, <1>4
<1>6. features' = commit[w].next /\ UNCHANGED <<storeOK, slot, ident, disk, meta, call>>
  BY DEF commitFeatureRuntime
<1>7. \/ gen' = gen /\ onlyTierChanged(commit[w].prev, commit[w].next)
      \/ gen' = gen + 1
  BY DEF commitFeatureRuntime
<1>8. OneWriter /\ ListsFit => ListOfWriters' /\ (gen' = gen => features'.list = features.list)
  <2> SUFFICES ASSUME OneWriter, ListsFit
               PROVE  ListOfWriters' /\ (gen' = gen => features'.list = features.list)
    OBVIOUS
  <2>1. \A u \in Writers : u = w
    BY DEF OneWriter
  <2>2. ListOfWriters'
    BY <1>5, <2>1 DEF ListOfWriters
  <2>3. commit[w].prev = features
    BY <1>1 DEF ListsFit, ListOfWriters
  <2>4. gen' = gen => features'.list = features.list
    <3>1. gen # gen + 1
      BY <1>1
    <3> QED
      BY <1>6, <1>7, <2>3, <3>1 DEF onlyTierChanged
  <2> QED
    BY <2>2, <2>4
<1> QED
  BY <1>2, <1>5, <1>6, <1>7, <1>8, WriterStep

(***************************************************************************)
(* The invariant.                                                          *)
(***************************************************************************)
LEMMA InitFits ==
    ASSUME Init
    PROVE  IInv /\ ListsFit
<1>1. BlankKey(0) \in Keys /\ BlankKey(0).cfg = 0
  BY BlankTyped
<1>2. /\ gen = 0 /\ features = [list |-> NoList, tier |-> 0] /\ storeOK \in BOOLEAN
      /\ commit = [w \in Writers |-> [pc |-> "idle"]]
      /\ slot = [a \in Auths |-> [key |-> BlankKey(0), next |-> 0, cur |-> Nil, calls |-> {}]]
      /\ ident = [i \in Identities |-> [next |-> 0, seq |-> 0, cfg |-> 0, active |-> {}]]
      /\ disk = [i \in Identities |-> [cfg |-> 0, seq |-> 0]]
      /\ \E c \in BOOLEAN : meta = [result |-> "none", cache |-> c, call |-> NoCall]
      /\ call = [p \in Calls |-> IdleCall]
  BY DEF Init, NoWrite
<1>3. \A p \in Calls : call[p] \in CallRecords /\ call[p].pc = "idle"
  BY <1>2, IdleTyped
<1>4. Typed
  <2>1. TypeOK
    <3>1. slot \in [Auths -> SlotRecords]
      BY <1>1, <1>2 DEF SlotRecords
    <3>2. ident \in [Identities -> IdentRecords] /\ disk \in [Identities -> Writes]
      BY <1>2 DEF IdentRecords, Writes
    <3>3. features \in Features
      BY <1>2 DEF Features
    <3>4. meta \in [result: Sources, cache: BOOLEAN, call: Calls \cup {NoCall}]
      BY <1>2 DEF Sources
    <3>5. \A p \in Calls : call[p].pc \in Phases
      BY <1>3 DEF Phases
    <3> QED
      BY <1>2, <3>1, <3>2, <3>3, <3>4, <3>5 DEF TypeOK, SlotRecords, IdentRecords, Writes
  <2>2. commit \in [Writers -> Commits]
    BY <1>2 DEF Commits
  <2>3. call \in [Calls -> CallRecords]
    BY <1>2, IdleTyped
  <2> QED
    BY <2>1, <2>2, <2>3 DEF Typed
<1>5. CallsFit
  BY <1>3 DEF CallsFit, CallFits, Fits, InFlight
<1>6. SlotsFit
  <2> SUFFICES ASSUME NEW a \in Auths PROVE SlotFits(a)
    BY DEF SlotsFit
  <2>1. slot[a].key.cfg <= gen /\ slot[a].cur = Nil /\ slot[a].calls = {}
    BY <1>1, <1>2
  <2> QED
    BY <2>1 DEF SlotFits, Belongs, Owned, OneFlight
<1>7. NumbersFit
  <2> SUFFICES ASSUME NEW i \in Identities PROVE NumbersFitAt(i)
    BY DEF NumbersFit, NumbersFitAt
  <2>1. IdentFits(i)
    BY <1>2 DEF IdentFits
  <2>2. \A p \in Calls : ~NumberOf(p, i)
    BY <1>3 DEF NumberOf, Numbered
  <2> QED
    BY <2>1, <2>2 DEF NumbersFitAt, OneNumber, NumberFits
<1>8. ListsFit
  <2>1. ListOfCalls
    BY <1>3 DEF ListOfCalls, InFlight
  <2>2. ListOfSlots
    BY <1>2 DEF ListOfSlots
  <2>3. ListOfWriters
    BY <1>2 DEF ListOfWriters
  <2> QED
    BY <2>1, <2>2, <2>3 DEF ListsFit
<1> QED
  BY <1>4, <1>5, <1>6, <1>7, <1>8 DEF IInv

\* Every step keeps the invariant, and what one writer keeps besides.
LEMMA NextKeeps ==
    ASSUME IInv, [Next]_vars
    PROVE  Kept
<1>1. ASSUME NEW p \in Calls, Step(p) PROVE Kept
  BY <1>1, EnterStep, JoinedStep, StartStep, LoadCachedStep, FetchOKStep, FetchFailedStep, SaveStep,
     LoadSharedStep, WaitIdentityStep, MetaCheckStep, MetaLookStep, MetaJoinedStep, MetaCommitStep,
     FinishStep, InvalidateStep, AdvanceStep, ReadAuthStep, RestoreStep DEF Step
<1>2. CASE UNCHANGED vars
  <2>1. UNCHANGED <<storeOK, slot, ident, disk, meta, call>> /\ gen' = gen /\ features' = features /\ commit' = commit
    BY <1>2 DEF vars
  <2>2. features \in Features /\ commit \in [Writers -> Commits]
    BY DEF IInv, Typed, TypeOK
  <2>3. ListsFit => ListOfWriters'
    BY <2>1 DEF ListsFit, ListOfWriters
  <2> QED
    BY <2>1, <2>2, <2>3, WriterStep
<1> QED
  BY <1>1, <1>2, BeginEnsureStep, BeginRefreshStep, MarkStep, CommitReadStep, CommitStep DEF Next

\* Types, the fields a call's next step reads, the slots with their registered
\* calls and the numbers of the identities' calls, whatever the steps' order
\* (model_readiness.go).
THEOREM ReadinessInductive == Spec => []IInv
<1>1. Init => IInv
  BY InitFits
<1>2. IInv /\ [Next]_vars => IInv'
  BY NextKeeps DEF Kept
<1> QED
  BY <1>1, <1>2, PTL DEF Spec

\* What the executor may run on was discovered for exactly the config generation
\* and token the account's slot stands for, however late a discovery finishes
\* (finishAuthCall); what restoreModelSnapshot put back is excepted.
THEOREM GateHolds == Spec => []GenerationGate
<1>1. IInv => GenerationGate
  <2> SUFFICES ASSUME IInv, NEW a \in Auths, snapshotForAuthID(a).state \in Executable,
                      ~snapshotForAuthID(a).restored
               PROVE  snapshotForAuthID(a).for = slot[a].key
    BY DEF GenerationGate
  <2>1. notStartedModelReadinessSnapshot(gen).state \notin Executable
    BY DEF notStartedModelReadinessSnapshot, Snapshot, Executable
  <2>2. slot[a].cur # Nil /\ snapshotForAuthID(a) = slot[a].cur
    BY <2>1 DEF snapshotForAuthID
  <2> QED
    BY <2>2 DEF IInv, SlotsFit, SlotFits, Belongs
<1> QED
  BY <1>1, ReadinessInductive, PTL

\* An account never has two discoveries of one generation in flight, and a visible
\* "loading" always has a registered call of the present generation that will
\* replace it (ensureForAuth, finishAuthCall).
THEOREM FlightsAreOwned == Spec => []FlightsOwned
<1>1. IInv => FlightsOwned
  <2> SUFFICES ASSUME IInv PROVE FlightsOwned
    OBVIOUS
  <2>1. TypeOK
    BY DEF IInv, Typed
  <2>2. LoadingHasOwner
    <3> SUFFICES ASSUME NEW a \in Auths, snapshotForAuthID(a).state = "loading"
                 PROVE  \E p \in slot[a].calls : Current(p)
      BY DEF LoadingHasOwner
    <3>1. notStartedModelReadinessSnapshot(gen).state # "loading"
      BY DEF notStartedModelReadinessSnapshot, Snapshot
    <3>2. slot[a].cur # Nil /\ slot[a].cur.state = "loading" /\ slot[a].cur.cfg = gen
      BY <3>1 DEF snapshotForAuthID
    <3>3. SlotFits(a)
      BY DEF IInv, SlotsFit
    <3>4. PICK p \in slot[a].calls : call[p].key = slot[a].key /\ call[p].gen = slot[a].next
      BY <3>2, <3>3 DEF SlotFits, Owned
    <3>5. call[p].auth = a /\ slot[a].key.cfg = gen
      BY <3>2, <3>3 DEF SlotFits, Registered, Belongs
    <3>6. Current(p)
      BY <3>4, <3>5 DEF Current
    <3> QED
      BY <3>6
  <2>3. OneFlightPerGeneration
    BY DEF IInv, SlotsFit, SlotFits, OneFlight, OneFlightPerGeneration
  <2> QED
    BY <2>1, <2>2, <2>3 DEF FlightsOwned
<1> QED
  BY <1>1, ReadinessInductive, PTL

\* While commits do not overlap, what the executor may run on was built from the
\* configured list in force, although a change of order or tier keeps the
\* generation (commitFeatureRuntime).
THEOREM OneWriterFollows ==
    ASSUME OneWriter
    PROVE  Spec => []CatalogFollowsConfig
<1>1. Init => IInv /\ ListsFit
  BY InitFits
<1>2. IInv /\ ListsFit /\ [Next]_vars => (IInv /\ ListsFit)'
  BY NextKeeps DEF Kept
<1>3. ListsFit => CatalogFollowsConfig
  <2> SUFFICES ASSUME ListsFit, NEW a \in Auths, snapshotForAuthID(a).state \in Executable,
                      ~snapshotForAuthID(a).restored
               PROVE  snapshotForAuthID(a).list = features.list
    BY DEF CatalogFollowsConfig
  <2>1. notStartedModelReadinessSnapshot(gen).state \notin Executable
    BY DEF notStartedModelReadinessSnapshot, Snapshot, Executable
  <2>2. slot[a].cur # Nil /\ slot[a].cur.cfg = gen /\ snapshotForAuthID(a) = slot[a].cur
    BY <2>1 DEF snapshotForAuthID
  <2> QED
    BY <2>2 DEF ListsFit, ListOfSlots
<1> QED
  BY <1>1, <1>2, <1>3, PTL DEF Spec

\* A saved catalog is only replaced by that of a call which started later and
\* belongs to no earlier config generation, in whatever order answers arrive
\* (saveModelsForGeneration).
THEOREM CatalogsAdvance == Spec => CatalogNeverRegresses
<1> DEFINE Forward == \A i \in Identities :
             disk'[i] # disk[i] => disk'[i].seq > disk[i].seq /\ disk'[i].cfg >= disk[i].cfg
<1>1. ASSUME IInv, NEW p \in Calls, saveModelsForGeneration(p), NEW i \in Identities, disk'[i] # disk[i]
      PROVE  disk'[i].seq > disk[i].seq /\ disk'[i].cfg >= disk[i].cfg
  <2>1. call[p].pc = "save" /\ call[p].pc \in InFlight /\ call[p].pc \in Numbered
    BY <1>1 DEF saveModelsForGeneration, InFlight, Numbered
  <2>2. call[p] \in CallRecords /\ Typed /\ NumbersFit /\ CallsFit /\ disk \in [Identities -> Writes]
    BY <1>1, <2>1, IdentityKnown
  <2>3. Current(p) /\ ~newerCommitted(call[p])
        /\ disk' = [disk EXCEPT ![IdentityOf[call[p].tok]] = [cfg |-> call[p].key.cfg, seq |-> call[p].seq]]
    BY <1>1 DEF saveModelsForGeneration
  <2>4. i = IdentityOf[call[p].tok]
    BY <1>1, <2>2, <2>3
  <2>5. disk'[i] = [cfg |-> call[p].key.cfg, seq |-> call[p].seq]
    BY <2>2, <2>3, <2>4
  <2>6. /\ ident[i].seq \in Nat /\ ident[i].cfg \in Nat /\ gen \in Nat
        /\ IdentFits(i) /\ NumberFits(p, i) /\ call[p].seq \in Nat /\ call[p].key.cfg \in Nat
    BY <2>2, NumbersKnown
  <2>7. /\ disk[i].seq = ident[i].seq /\ disk[i].cfg = ident[i].cfg /\ ident[i].cfg <= gen
        /\ call[p].seq # ident[i].seq
        /\ call[p].key.cfg > ident[i].cfg => call[p].seq > ident[i].seq
    BY <2>1, <2>4, <2>6 DEF IdentFits, NumberFits, NumberOf
  <2>8. gen = call[p].key.cfg /\ ~(ident[i].cfg = call[p].key.cfg /\ call[p].seq < ident[i].seq)
    BY <2>3, <2>4 DEF Current, newerCommitted
  <2>9. call[p].seq > ident[i].seq /\ call[p].key.cfg >= ident[i].cfg
    BY <2>6, <2>7, <2>8
  <2> QED
    BY <2>5, <2>7, <2>9
<1>2. IInv /\ [Next]_vars => [Forward]_vars
  <2> SUFFICES ASSUME IInv, Next PROVE Forward
    OBVIOUS
  <2>1. CASE \E p \in Calls : saveModelsForGeneration(p)
    BY <1>1, <2>1
  <2>2. CASE ~ \E p \in Calls : saveModelsForGeneration(p)
    <3>1. ASSUME NEW p \in Calls, Step(p) PROVE disk' = disk
      <4>1. CASE \/ Enter(p) \/ Joined(p) \/ startIdentityCall(p) \/ LoadCached(p)
                 \/ FetchOK(p) \/ FetchFailed(p) \/ LoadShared(p) \/ WaitIdentity(p)
        BY <4>1, Zenon DEF Enter, Joined, startIdentityCall, LoadCached, ReadCatalog, FetchOK,
                           FetchFailed, LoadShared, WaitIdentity
      <4>2. CASE \/ MetaCheck(p) \/ MetaLook(p) \/ MetaJoined(p) \/ MetaCommit(p)
                 \/ finishAuthCall(p) \/ InvalidateMeta(p) \/ advanceConfigGeneration(p)
                 \/ ReadAuth(p) \/ restoreModelSnapshot(p)
        BY <4>2, Zenon DEF MetaCheck, MetaLook, MetaJoined, MetaCommit, finishAuthCall,
                           InvalidateMeta, advanceConfigGeneration, ReadAuth, restoreModelSnapshot
      <4> QED
        BY <2>2, <3>1, <4>1, <4>2 DEF Step
    <3>2. ASSUME NEW p \in Calls, NEW a \in Auths, NEW t \in Tokens \cup {Bad},
                 BeginEnsure(p, a, t)
          PROVE  disk' = disk
      BY <3>2, Zenon DEF BeginEnsure
    <3>3. ASSUME NEW p \in Calls, NEW a \in Auths, NEW force \in BOOLEAN,
                 BeginRefresh(p, a, force)
          PROVE  disk' = disk
      BY <3>3, Zenon DEF BeginRefresh
    <3>4. ASSUME NEW a \in Auths, markAuthNotStarted(a) PROVE disk' = disk
      BY <3>4, Zenon DEF markAuthNotStarted
    <3>5. ASSUME NEW w \in Writers, NEW f \in Features, CommitRead(w, f) PROVE disk' = disk
      BY <3>5, Zenon DEF CommitRead
    <3>6. ASSUME NEW w \in Writers, commitFeatureRuntime(w) PROVE disk' = disk
      BY <3>6, Zenon DEF commitFeatureRuntime
    <3> QED
      BY <3>1, <3>2, <3>3, <3>4, <3>5, <3>6, Zenon DEF Next
  <2> QED
    BY <2>1, <2>2
<1> QED
  BY <1>2, ReadinessInductive, PTL DEF Spec, CatalogNeverRegresses
=============================================================================
