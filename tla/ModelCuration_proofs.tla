------------------------- MODULE ModelCuration_proofs -------------------------
(***************************************************************************)
(* Proofs about ModelCuration: what the parsers, the merge and the overlay *)
(* make of their lists, the inductive invariants behind the properties,    *)
(* and the properties themselves.                                          *)
(***************************************************************************)
EXTENDS ModelCuration, FiniteSetTheorems, WellFoundedInduction, TLAPS

-----------------------------------------------------------------------------
(* Numbers and lists.                                                       *)

\* A set of numbers that is not empty has a least one.
LEMMA LeastOf ==
    ASSUME NEW T \in SUBSET Nat, T # {}
    PROVE  \E n \in T : \A m \in T : n <= m
<1> DEFINE R == OpToRel(<, Nat)
<1>1. \A a, b \in Nat : a < b => <<a, b>> \in R
  BY DEF OpToRel
<1>2. IsWellFoundedOn(R, Nat)
  BY NatLessThanWellFounded
<1> HIDE DEF R
<1>3. PICK n \in T : \A m \in T : ~(<<m, n>> \in R)
  BY <1>2, WFMin
<1>4. \A m \in T : ~(m < n)
  BY <1>1, <1>3
<1> QED
  BY <1>3, <1>4

\* The entry that is found under an ID is one of the list.
LEMMA EntryFound ==
    ASSUME NEW list, DOMAIN list \subseteq Nat, NEW id \in Named(list)
    PROVE  \E i \in DOMAIN list : list[i].id = id /\ Entry(list, id) = list[i]
<1> DEFINE at == Under(list, id)
           first == CHOOSE i \in at : \A j \in at : i <= j
<1>1. at \in SUBSET Nat /\ at # {}
  BY DEF Named, Under
<1>2. \E i \in at : \A j \in at : i <= j
  BY <1>1, LeastOf
<1>3. first \in at
  BY <1>2
<1> QED
  BY <1>3 DEF Entry, Under

\* What holds of 0 and of the next number holds up to N.
LEMMA UpTo ==
    ASSUME NEW N \in Nat, NEW G, 0 \in G, \A k \in 0 .. N : k < N /\ k \in G => k + 1 \in G
    PROVE  \A k \in 0 .. N : k \in G
<1> DEFINE bad == {k \in 0 .. N : k \notin G}
<1> SUFFICES ASSUME bad # {} PROVE FALSE
  OBVIOUS
<1>1. bad \in SUBSET Nat
  OBVIOUS
<1>2. PICK n \in bad : \A m \in bad : n <= m
  BY <1>1, LeastOf
<1>3. n # 0 /\ n - 1 \in 0 .. N /\ n - 1 < N /\ n - 1 \notin bad
  BY <1>2
<1> QED
  BY <1>3

\* The loop of EntriesAt, step by step.
LEMMA EntriesSteps ==
    ASSUME NEW s, Len(s) \in Nat, NEW I
    PROVE  \E f : /\ f[0] = <<>>
                  /\ \A n \in 1 .. Len(s) : f[n] = IF n \in I THEN Append(f[n - 1], s[n]) ELSE f[n - 1]
                  /\ EntriesAt(s, I) = f[Len(s)]
<1> DEFINE N == Len(s)
           Step(f, n) == IF n = 0 THEN <<>> ELSE IF n \in I THEN Append(f[n - 1], s[n]) ELSE f[n - 1]
           G == {k \in 0 .. N : \E f : f = [n \in 0 .. k |-> Step(f, n)]}
<1>0. N \in Nat /\ N \in 0 .. N /\ 0 \in 0 .. N
  OBVIOUS
<1>1. 0 \in G
  <2> DEFINE g == [n \in 0 .. 0 |-> <<>>]
  <2>1. g = [n \in 0 .. 0 |-> Step(g, n)]
    OBVIOUS
  <2> HIDE DEF g, Step
  <2> QED
    BY <1>0, <2>1, Zenon
<1>2. ASSUME NEW k \in 0 .. N, k < N, k \in G PROVE k + 1 \in G
  <2>1. PICK f : f = [n \in 0 .. k |-> Step(f, n)]
    BY <1>2
  <2> DEFINE g == [n \in 0 .. k + 1 |-> IF n = k + 1 THEN Step(f, n) ELSE f[n]]
  <2>2. ASSUME NEW n \in 0 .. k + 1 PROVE g[n] = Step(g, n)
    <3>1. n # 0 => n - 1 \in 0 .. k /\ g[n - 1] = f[n - 1]
      OBVIOUS
    <3>2. g[n] = Step(f, n)
      <4>1. CASE n = k + 1
        BY <4>1
      <4>2. CASE n # k + 1
        <5>1. n \in 0 .. k /\ g[n] = f[n]
          BY <4>2
        <5> QED
          BY <2>1, <5>1
      <4> QED
        BY <4>1, <4>2
    <3> QED
      BY <3>1, <3>2
  <2>3. g = [n \in 0 .. k + 1 |-> Step(g, n)]
    BY <2>2
  <2>4. k + 1 \in 0 .. N
    BY <1>0, <1>2
  <2> HIDE DEF g, Step
  <2> QED
    BY <2>3, <2>4, Zenon
<1>3. N \in G
  <2> HIDE DEF G, N
  <2> QED
    BY <1>0, <1>1, <1>2, UpTo
<1> DEFINE f == CHOOSE f : f = [n \in 0 .. N |-> Step(f, n)]
<1>4. f = [n \in 0 .. N |-> Step(f, n)]
  BY <1>3
<1>5. EntriesAt(s, I) = f[N]
  BY Zenon DEF EntriesAt
<1> HIDE DEF f
<1>6. ASSUME NEW n \in 0 .. N PROVE f[n] = Step(f, n)
  <2> HIDE DEF Step, N
  <2> QED
    BY <1>4
<1>7. \A n \in 1 .. N : n \in 0 .. N /\ n # 0
  BY <1>0
<1> HIDE DEF N
<1> QED
  BY <1>0, <1>5, <1>6, <1>7, Zenon DEF N

\* at says where the entries of r stand among the entries of s at the indexes of I.
Picks(at, r, s, I) ==
    /\ at \in [1 .. Len(r) -> I \cap (1 .. Len(s))]
    /\ \A i \in 1 .. Len(r) : r[i] = s[at[i]]
    /\ \A i, j \in 1 .. Len(r) : i < j => at[i] < at[j]
    /\ \A n \in I \cap (1 .. Len(s)) : \E i \in 1 .. Len(r) : at[i] = n

\* What is picked is picked once and in order, and nothing else is.
LEMMA Picked ==
    ASSUME NEW X, NEW s \in Seq(X), NEW I
    PROVE  LET r == EntriesAt(s, I)
           IN  /\ r \in Seq(X)
               /\ \E at \in [1 .. Len(r) -> I \cap (1 .. Len(s))] :
                    /\ \A i \in 1 .. Len(r) : r[i] = s[at[i]]
                    /\ \A i, j \in 1 .. Len(r) : i < j => at[i] < at[j]
                    /\ \A n \in I \cap (1 .. Len(s)) : \E i \in 1 .. Len(r) : at[i] = n
<1> DEFINE N == Len(s)
           Fits(r, k) ==
             /\ r \in Seq(X)
             /\ \E at \in [1 .. Len(r) -> I \cap (1 .. k)] :
                  /\ \A i \in 1 .. Len(r) : r[i] = s[at[i]]
                  /\ \A i, j \in 1 .. Len(r) : i < j => at[i] < at[j]
                  /\ \A n \in I \cap (1 .. k) : \E i \in 1 .. Len(r) : at[i] = n
<1>1. N \in Nat /\ 0 \in 0 .. N /\ N \in 0 .. N
  OBVIOUS
<1>2. PICK f : /\ f[0] = <<>>
               /\ \A n \in 1 .. N : f[n] = IF n \in I THEN Append(f[n - 1], s[n]) ELSE f[n - 1]
               /\ EntriesAt(s, I) = f[N]
  BY <1>1, EntriesSteps
<1> DEFINE G == {k \in 0 .. N : Fits(f[k], k)}
<1>3. 0 \in G
  <2>1. <<>> \in Seq(X) /\ [i \in {} |-> 0] \in [1 .. Len(<<>>) -> I \cap (1 .. 0)]
    OBVIOUS
  <2>2. Fits(<<>>, 0)
    BY <2>1
  <2> HIDE DEF Fits
  <2> QED
    BY <1>1, <1>2, <2>2
<1>4. ASSUME NEW k \in 0 .. N, k < N, k \in G PROVE k + 1 \in G
  <2> DEFINE r == f[k]
  <2>1. k + 1 \in 1 .. N /\ k + 1 \in 0 .. N /\ (k + 1) - 1 = k
    BY <1>1, <1>4
  <2>2. PICK at \in [1 .. Len(r) -> I \cap (1 .. k)] :
          /\ \A i \in 1 .. Len(r) : r[i] = s[at[i]]
          /\ \A i, j \in 1 .. Len(r) : i < j => at[i] < at[j]
          /\ \A n \in I \cap (1 .. k) : \E i \in 1 .. Len(r) : at[i] = n
    BY <1>4
  <2>3. r \in Seq(X)
    BY <1>4
  <2>4. CASE k + 1 \in I
    <3> DEFINE q == Append(r, s[k + 1])
               to == [i \in 1 .. Len(q) |-> IF i = Len(q) THEN k + 1 ELSE at[i]]
    <3>1. f[k + 1] = q
      BY <1>2, <2>1, <2>4
    <3>2. s[k + 1] \in X
      BY <2>1
    <3> HIDE DEF r
    <3>3. q \in Seq(X) /\ Len(q) = Len(r) + 1 /\ Len(r) \in Nat /\ q[Len(q)] = s[k + 1]
          /\ \A i \in 1 .. Len(r) : q[i] = r[i] /\ i # Len(q)
      BY <2>3, <3>2
    <3> HIDE DEF q
    <3>4. to \in [1 .. Len(q) -> I \cap (1 .. k + 1)]
      BY <1>1, <2>1, <2>2, <2>4, <3>3
    <3>5. \A i \in 1 .. Len(q) : q[i] = s[to[i]]
      BY <2>2, <3>3
    <3>6. ASSUME NEW i \in 1 .. Len(q), NEW j \in 1 .. Len(q), i < j PROVE to[i] < to[j]
      <4>1. i \in 1 .. Len(r) /\ to[i] = at[i] /\ at[i] \in 1 .. k
        BY <2>2, <3>3, <3>6
      <4>2. CASE j = Len(q)
        BY <1>4, <4>1, <4>2
      <4>3. CASE j # Len(q)
        <5>1. j \in 1 .. Len(r) /\ to[j] = at[j]
          BY <3>3, <4>3
        <5> QED
          BY <2>2, <3>6, <4>1, <5>1
      <4> QED
        BY <4>2, <4>3
    <3>7. ASSUME NEW n \in I \cap (1 .. k + 1) PROVE \E i \in 1 .. Len(q) : to[i] = n
      <4>1. CASE n = k + 1
        <5>1. Len(q) \in 1 .. Len(q) /\ to[Len(q)] = n
          BY <3>3, <4>1
        <5> QED
          BY <5>1
      <4>2. CASE n # k + 1
        <5>1. n \in I \cap (1 .. k)
          BY <1>4, <4>2
        <5>2. PICK i \in 1 .. Len(r) : at[i] = n
          BY <2>2, <5>1
        <5>3. i \in 1 .. Len(q) /\ to[i] = n
          BY <3>3, <5>2
        <5> QED
          BY <5>3
      <4> QED
        BY <4>1, <4>2
    <3> HIDE DEF to
    <3>8. Fits(q, k + 1)
      BY <3>3, <3>4, <3>5, <3>6, <3>7
    <3> HIDE DEF Fits
    <3> QED
      BY <2>1, <3>1, <3>8
  <2>5. CASE k + 1 \notin I
    <3>1. f[k + 1] = r
      BY <1>2, <2>1, <2>5
    <3>2. I \cap (1 .. k + 1) = I \cap (1 .. k)
      BY <1>4, <2>5
    <3>3. Fits(r, k + 1)
      BY <2>2, <2>3, <3>2
    <3> HIDE DEF Fits, r
    <3> QED
      BY <2>1, <3>1, <3>3
  <2> QED
    BY <2>4, <2>5
<1>5. N \in G
  <2> HIDE DEF G, N
  <2> QED
    BY <1>1, <1>3, <1>4, UpTo
<1> QED
  BY <1>2, <1>5

LEMMA PickedAt ==
    ASSUME NEW X, NEW s \in Seq(X), NEW I
    PROVE  EntriesAt(s, I) \in Seq(X) /\ \E at : Picks(at, EntriesAt(s, I), s, I)
<1> DEFINE r == EntriesAt(s, I)
<1>1. /\ r \in Seq(X)
      /\ \E at \in [1 .. Len(r) -> I \cap (1 .. Len(s))] :
           /\ \A i \in 1 .. Len(r) : r[i] = s[at[i]]
           /\ \A i, j \in 1 .. Len(r) : i < j => at[i] < at[j]
           /\ \A n \in I \cap (1 .. Len(s)) : \E i \in 1 .. Len(r) : at[i] = n
  BY Picked
<1> QED
  BY <1>1 DEF Picks

\* The picked entries, as a set.
LEMMA EntriesSet ==
    ASSUME NEW X, NEW s \in Seq(X), NEW I
    PROVE  /\ EntriesAt(s, I) \in Seq(X)
           /\ \A i \in DOMAIN EntriesAt(s, I) : \E n \in I \cap DOMAIN s : EntriesAt(s, I)[i] = s[n]
           /\ \A n \in I \cap DOMAIN s : \E i \in DOMAIN EntriesAt(s, I) : EntriesAt(s, I)[i] = s[n]
<1> DEFINE r == EntriesAt(s, I)
<1>1. DOMAIN s = 1 .. Len(s)
  OBVIOUS
<1>2. /\ r \in Seq(X)
      /\ \E at \in [1 .. Len(r) -> I \cap (1 .. Len(s))] :
           /\ \A i \in 1 .. Len(r) : r[i] = s[at[i]]
           /\ \A i, j \in 1 .. Len(r) : i < j => at[i] < at[j]
           /\ \A n \in I \cap (1 .. Len(s)) : \E i \in 1 .. Len(r) : at[i] = n
  BY Picked
<1>3. PICK at \in [1 .. Len(r) -> I \cap (1 .. Len(s))] :
        /\ \A i \in 1 .. Len(r) : r[i] = s[at[i]]
        /\ \A n \in I \cap (1 .. Len(s)) : \E i \in 1 .. Len(r) : at[i] = n
  BY <1>2
<1> HIDE DEF r
<1>4. DOMAIN r = 1 .. Len(r)
  BY <1>2
<1>5. ASSUME NEW i \in DOMAIN r PROVE \E n \in I \cap DOMAIN s : r[i] = s[n]
  BY <1>1, <1>3, <1>4
<1>6. ASSUME NEW n \in I \cap DOMAIN s PROVE \E i \in DOMAIN r : r[i] = s[n]
  <2>1. PICK i \in 1 .. Len(r) : at[i] = n
    BY <1>1, <1>3
  <2> QED
    BY <1>3, <1>4, <2>1
<1> QED
  BY <1>2, <1>5, <1>6 DEF r

\* The entries of a list that are in a set are the list's and the set's.
LEMMA ThoseFacts ==
    ASSUME NEW X, NEW s \in Seq(X), NEW T
    PROVE  Those(s, T) \in Seq(X) /\ ToSet(Those(s, T)) = ToSet(s) \cap T
<1> DEFINE I == {i \in DOMAIN s : s[i] \in T}
           r == EntriesAt(s, I)
<1>1. DOMAIN s = 1 .. Len(s)
  OBVIOUS
<1>2. /\ r \in Seq(X)
      /\ \E at \in [1 .. Len(r) -> I \cap (1 .. Len(s))] :
           /\ \A i \in 1 .. Len(r) : r[i] = s[at[i]]
           /\ \A n \in I \cap (1 .. Len(s)) : \E i \in 1 .. Len(r) : at[i] = n
  <2> HIDE DEF I
  <2> QED
    BY Picked
<1>3. PICK at \in [1 .. Len(r) -> I \cap (1 .. Len(s))] :
        /\ \A i \in 1 .. Len(r) : r[i] = s[at[i]]
        /\ \A n \in I \cap (1 .. Len(s)) : \E i \in 1 .. Len(r) : at[i] = n
  BY <1>2
<1> HIDE DEF r
<1>4. DOMAIN r = 1 .. Len(r)
  BY <1>2
<1>5. ASSUME NEW x \in ToSet(r) PROVE x \in ToSet(s) \cap T
  <2>1. PICK i \in 1 .. Len(r) : x = r[i]
    BY <1>4 DEF ToSet
  <2>2. at[i] \in I
    BY <1>3
  <2> QED
    BY <1>3, <2>1, <2>2 DEF ToSet
<1>6. ASSUME NEW x \in ToSet(s) \cap T PROVE x \in ToSet(r)
  <2>1. PICK n \in DOMAIN s : x = s[n]
    BY DEF ToSet
  <2>2. n \in I \cap (1 .. Len(s))
    BY <1>1, <2>1
  <2>3. PICK i \in 1 .. Len(r) : at[i] = n
    BY <1>3, <2>2
  <2> QED
    BY <1>3, <1>4, <2>1, <2>3 DEF ToSet
<1>7. Those(s, T) = r
  BY DEF Those, r
<1> QED
  BY <1>2, <1>5, <1>6, <1>7

\* at numbers the indexes in I of a list of length L, from 1 to M, in their order.
Counts(at, M, I, L) ==
    /\ at \in [1 .. M -> I \cap (1 .. L)]
    /\ \A i, j \in 1 .. M : i < j => at[i] < at[j]
    /\ \A n \in I \cap (1 .. L) : \E i \in 1 .. M : at[i] = n

\* I starts with the first K indexes.
Leads(K, I) == 1 .. K \subseteq I

\* The first K numbers are those indexes.
Follows(at, M, K) == K <= M /\ \A i \in 1 .. K : at[i] = i

\* What leads is picked where it stands.
LEMMA Leading ==
    ASSUME NEW I, NEW L, NEW M, NEW K, L \in Nat, M \in Nat, K \in 0 .. L, Leads(K, I),
           NEW at, Counts(at, M, I, L)
    PROVE  Follows(at, M, K)
<1> USE DEF Counts, Leads, Follows
<1> DEFINE G == {k \in 0 .. K : k <= M /\ \A i \in 1 .. k : at[i] = i}
<1>1. K \in Nat /\ K \in 0 .. K
  OBVIOUS
<1>2. 0 \in G
  OBVIOUS
<1>3. ASSUME NEW k \in 0 .. K, k < K, k \in G PROVE k + 1 \in G
  <2>1. k + 1 \in I \cap (1 .. L) /\ k + 1 \in 0 .. K
    BY <1>3
  <2>2. PICK i \in 1 .. M : at[i] = k + 1
    BY <2>1
  <2>3. i > k
    BY <1>3, <2>2
  <2>4. k + 1 \in 1 .. M /\ at[k + 1] \in 1 .. L /\ at[k + 1] <= k + 1
    <3>1. k + 1 \in 1 .. M /\ k + 1 <= i
      BY <1>3, <2>3
    <3>2. at[k + 1] \in 1 .. L
      BY <3>1
    <3> QED
      BY <2>2, <3>1, <3>2
  <2>5. at[k + 1] > k
    <3>1. CASE k = 0
      BY <2>4, <3>1
    <3>2. CASE k # 0
      <4>1. k \in 1 .. M /\ at[k] = k
        BY <1>3, <3>2
      <4> QED
        BY <2>4, <4>1
    <3> QED
      BY <3>1, <3>2
  <2>6. at[k + 1] = k + 1
    BY <2>4, <2>5
  <2> QED
    BY <1>3, <2>1, <2>4, <2>6
<1>4. K \in G
  <2> HIDE DEF G
  <2> QED
    BY <1>1, <1>2, <1>3, UpTo
<1> QED
  BY <1>4

\* FirstSeen repeats nothing, loses nothing, and keeps what leads the list.
LEMMA FirstSeenFacts ==
    ASSUME NEW X, NEW s \in Seq(X)
    PROVE  /\ FirstSeen(s) \in Seq(X)
           /\ ToSet(FirstSeen(s)) = ToSet(s)
           /\ Distinct(FirstSeen(s))
           /\ \A K \in 0 .. Len(s) :
                (\A i, j \in 1 .. K : s[i] = s[j] => i = j) =>
                  K <= Len(FirstSeen(s)) /\ \A i \in 1 .. K : FirstSeen(s)[i] = s[i]
<1> DEFINE I == {i \in DOMAIN s : \A j \in DOMAIN s : j < i => s[j] # s[i]}
           r == EntriesAt(s, I)
<1>1. DOMAIN s = 1 .. Len(s) /\ Len(s) \in Nat
  OBVIOUS
<1>2. r \in Seq(X) /\ \E at : Picks(at, r, s, I)
  <2> HIDE DEF I
  <2> QED
    BY PickedAt
<1>3. PICK at \in [1 .. Len(r) -> I \cap (1 .. Len(s))] :
        /\ \A i \in 1 .. Len(r) : r[i] = s[at[i]]
        /\ \A i, j \in 1 .. Len(r) : i < j => at[i] < at[j]
        /\ \A n \in I \cap (1 .. Len(s)) : \E i \in 1 .. Len(r) : at[i] = n
  BY <1>2 DEF Picks
<1> HIDE DEF r
<1>4. DOMAIN r = 1 .. Len(r) /\ Len(r) \in Nat
  BY <1>2
<1>5. ASSUME NEW x \in ToSet(r) PROVE x \in ToSet(s)
  <2>1. PICK i \in 1 .. Len(r) : x = r[i]
    BY <1>4 DEF ToSet
  <2>2. at[i] \in DOMAIN s
    BY <1>1, <1>3
  <2> QED
    BY <1>3, <2>1, <2>2 DEF ToSet
<1>6. ASSUME NEW x \in ToSet(s) PROVE x \in ToSet(r)
  <2> DEFINE same == {i \in DOMAIN s : s[i] = x}
  <2>1. same \in SUBSET Nat /\ same # {}
    BY <1>1 DEF ToSet
  <2>2. PICK n \in same : \A m \in same : n <= m
    BY <2>1, LeastOf
  <2>3. n \in I \cap (1 .. Len(s)) /\ s[n] = x
    BY <1>1, <2>2
  <2>4. PICK i \in 1 .. Len(r) : at[i] = n
    BY <1>3, <2>3
  <2> QED
    BY <1>3, <1>4, <2>3, <2>4 DEF ToSet
<1>7. ASSUME NEW i \in 1 .. Len(r), NEW j \in 1 .. Len(r), r[i] = r[j], i < j PROVE FALSE
  <2>1. at[i] \in DOMAIN s /\ at[j] \in I /\ at[i] < at[j] /\ s[at[i]] = s[at[j]]
    BY <1>1, <1>3, <1>7
  <2> QED
    BY <2>1
<1>8. Distinct(r)
  BY <1>4, <1>7 DEF Distinct
<1>9. ASSUME NEW K \in 0 .. Len(s), \A i, j \in 1 .. K : s[i] = s[j] => i = j
      PROVE  K <= Len(r) /\ \A i \in 1 .. K : r[i] = s[i]
  <2>1. 1 .. K \subseteq I
    BY <1>1, <1>9
  <2>2. K <= Len(r) /\ \A i \in 1 .. K : at[i] = i
    <3> DEFINE L == Len(s)
               M == Len(r)
    <3>1. Counts(at, M, I, L) /\ L \in Nat /\ M \in Nat /\ K \in 0 .. L /\ Leads(K, I)
      BY <1>1, <1>3, <1>4, <2>1 DEF Counts, Leads
    <3>2. Follows(at, M, K)
      <4> HIDE DEF I, L, M
      <4> QED
        BY <3>1, Leading
    <3> QED
      BY <3>2 DEF Follows
  <2> QED
    BY <1>3, <1>4, <2>2
<1>10. FirstSeen(s) = r
  BY DEF FirstSeen, r
<1> QED
  BY <1>2, <1>5, <1>6, <1>8, <1>9, <1>10

LEMMA LastOf ==
    ASSUME NEW N \in Nat, NEW T \in SUBSET (1 .. N), T # {}
    PROVE  \E n \in T : \A m \in T : m <= n
<1> DEFINE back == {N - i : i \in T}
<1>0. \A i \in T : N - i \in Nat /\ N - i \in back
  OBVIOUS
<1>1. back \in SUBSET Nat /\ back # {}
  <2>1. \A b \in back : b \in Nat
    BY <1>0
  <2>2. back # {}
    BY <1>0
  <2> HIDE DEF back
  <2> QED
    BY <2>1, <2>2
<1>2. PICK b \in back : \A c \in back : b <= c
  BY <1>1, LeastOf
<1>3. PICK n \in T : b = N - n
  OBVIOUS
<1>4. ASSUME NEW m \in T PROVE m <= n
  <2>1. N - n <= N - m
    BY <1>2, <1>3
  <2> QED
    BY <2>1
<1> QED
  BY <1>4

LEMMA ConcatSet ==
    ASSUME NEW X, NEW s \in Seq(X), NEW t \in Seq(X)
    PROVE  /\ s \o t \in Seq(X) /\ Len(s \o t) = Len(s) + Len(t)
           /\ \A i \in 1 .. Len(s) : (s \o t)[i] = s[i]
           /\ \A i \in 1 .. Len(t) : (s \o t)[Len(s) + i] = t[i]
           /\ ToSet(s \o t) = ToSet(s) \cup ToSet(t)
<1>1. /\ s \o t \in Seq(X) /\ Len(s \o t) = Len(s) + Len(t)
      /\ \A i \in 1 .. Len(s) : (s \o t)[i] = s[i]
      /\ \A i \in 1 .. Len(t) : (s \o t)[Len(s) + i] = t[i]
  OBVIOUS
<1>2. DOMAIN s = 1 .. Len(s) /\ DOMAIN t = 1 .. Len(t) /\ DOMAIN (s \o t) = 1 .. Len(s) + Len(t)
      /\ Len(s) \in Nat /\ Len(t) \in Nat
  BY <1>1
<1>3. ASSUME NEW x \in ToSet(s \o t) PROVE x \in ToSet(s) \cup ToSet(t)
  <2>1. PICK i \in 1 .. Len(s) + Len(t) : x = (s \o t)[i]
    BY <1>2 DEF ToSet
  <2>2. CASE i <= Len(s)
    <3>1. i \in DOMAIN s /\ x = s[i]
      BY <1>1, <1>2, <2>1, <2>2
    <3> QED
      BY <3>1 DEF ToSet
  <2>3. CASE i > Len(s)
    <3>1. i - Len(s) \in DOMAIN t /\ Len(s) + (i - Len(s)) = i
      BY <1>2, <2>3
    <3>2. x = t[i - Len(s)]
      BY <1>1, <1>2, <2>1, <3>1
    <3> QED
      BY <3>1, <3>2 DEF ToSet
  <2> QED
    BY <1>2, <2>2, <2>3
<1>4. ASSUME NEW x \in ToSet(s) PROVE x \in ToSet(s \o t)
  <2>1. PICK i \in DOMAIN s : x = s[i]
    BY DEF ToSet
  <2>2. i \in DOMAIN (s \o t) /\ x = (s \o t)[i]
    BY <1>1, <1>2, <2>1
  <2> QED
    BY <2>2 DEF ToSet
<1>5. ASSUME NEW x \in ToSet(t) PROVE x \in ToSet(s \o t)
  <2>1. PICK i \in DOMAIN t : x = t[i]
    BY DEF ToSet
  <2>2. Len(s) + i \in DOMAIN (s \o t) /\ x = (s \o t)[Len(s) + i]
    BY <1>1, <1>2, <2>1
  <2> QED
    BY <2>2 DEF ToSet
<1> QED
  BY <1>1, <1>3, <1>4, <1>5

-----------------------------------------------------------------------------
(* What a body of /v3/config puts on offer.                                 *)

LEMMA RichTyped ==
    ASSUME NEW rich \in Seq(WireModel), NEW id \in STRING
    PROVE  richFacts(id, rich) \in Fact /\ richFacts(id, rich).id = id
<1> DEFINE T == Under(rich, id)
           k == CHOOSE i \in T : \A j \in T : j <= i
           last == rich[k]
<1>1. CASE id \notin Named(rich)
  <2>1. richFacts(id, rich) = [id |-> id, name |-> Blank, ctx |-> 0]
    BY <1>1 DEF richFacts
  <2> QED
    BY <2>1 DEF Fact
<1>2. CASE id \in Named(rich)
  <2>1. T \in SUBSET (1 .. Len(rich)) /\ T # {} /\ Len(rich) \in Nat
    BY <1>2 DEF Named, Under
  <2>2. \E i \in T : \A j \in T : j <= i
    BY <2>1, LastOf
  <2>3. k \in T
    BY <2>2
  <2>4. last \in WireModel
    <3> HIDE DEF T, k
    <3> QED
      BY <2>1, <2>3
  <2>5. richFacts(id, rich) = [id |-> id, name |-> last.name,
              ctx |-> IF last.input # 0 THEN last.input ELSE last.window]
    BY <1>2 DEF richFacts
  <2> HIDE DEF last
  <2> QED
    BY <2>4, <2>5 DEF WireModel, Fact
<1> QED
  BY <1>1, <1>2

LEMMA IdsTyped ==
    ASSUME NEW list, DOMAIN list = 1 .. Len(list), Len(list) \in Nat,
           \A i \in DOMAIN list : list[i].id \in STRING
    PROVE  /\ IdsOf(list) \in Seq(STRING) /\ Len(IdsOf(list)) = Len(list)
           /\ DOMAIN IdsOf(list) = DOMAIN list
           /\ \A i \in DOMAIN list : IdsOf(list)[i] = list[i].id
           /\ ToSet(IdsOf(list)) = Named(list)
<1>1. IdsOf(list) = [i \in 1 .. Len(list) |-> list[i].id]
  BY DEF IdsOf
<1>2. IdsOf(list) \in Seq(STRING) /\ Len(IdsOf(list)) = Len(list)
  BY <1>1
<1>3. DOMAIN IdsOf(list) = DOMAIN list /\ \A i \in DOMAIN list : IdsOf(list)[i] = list[i].id
  BY <1>1
<1>4. ToSet(IdsOf(list)) = Named(list)
  BY <1>3, Zenon DEF ToSet, Named
<1> QED
  BY <1>2, <1>3, <1>4

\* unionOf loses and repeats nothing, and the entitlement leads.
LEMMA UnionFacts ==
    ASSUME NEW body \in WireBody
    PROVE  /\ unionOf(body) \in Seq(STRING) /\ Distinct(unionOf(body))
           /\ ToSet(unionOf(body)) = offers(body)
           /\ Distinct(body.agent) =>
                /\ Len(body.agent) <= Len(unionOf(body))
                /\ \A i \in 1 .. Len(body.agent) : unionOf(body)[i] = body.agent[i]
<1> DEFINE U == ChatUsable \ {Blank}
           I == {i \in DOMAIN body.rich : ~body.rich[i].off}
           on == EntriesAt(body.rich, I)
           rest == Those(IdsOf(on), U)
           all == body.agent \o rest
<1>1. body.agent \in Seq(STRING) /\ body.rich \in Seq(WireModel)
  BY DEF WireBody
<1>2. /\ on \in Seq(WireModel)
      /\ \A i \in DOMAIN on : \E n \in I \cap DOMAIN body.rich : on[i] = body.rich[n]
      /\ \A n \in I \cap DOMAIN body.rich : \E i \in DOMAIN on : on[i] = body.rich[n]
  <2> HIDE DEF I
  <2> QED
    BY <1>1, EntriesSet
<1> HIDE DEF on
<1>3. IdsOf(on) \in Seq(STRING) /\ ToSet(IdsOf(on)) = Named(on)
  <2>1. DOMAIN on = 1 .. Len(on) /\ Len(on) \in Nat /\ \A i \in DOMAIN on : on[i].id \in STRING
    <3>1. DOMAIN on = 1 .. Len(on) /\ Len(on) \in Nat /\ \A i \in DOMAIN on : on[i] \in WireModel
      BY <1>2
    <3> QED
      BY <3>1 DEF WireModel
  <2> QED
    BY <2>1, IdsTyped
<1>4. rest \in Seq(STRING) /\ ToSet(rest) = Named(on) \cap U
  <2> HIDE DEF U
  <2> QED
    BY <1>3, ThoseFacts
<1> HIDE DEF rest
<1>5. /\ all \in Seq(STRING) /\ Len(all) = Len(body.agent) + Len(rest)
      /\ \A i \in 1 .. Len(body.agent) : all[i] = body.agent[i]
      /\ ToSet(all) = ToSet(body.agent) \cup ToSet(rest)
  BY <1>1, <1>4, ConcatSet
<1> HIDE DEF all
<1>6. unionOf(body) = FirstSeen(all)
  BY DEF unionOf, all, rest, on, I, U
<1>7. /\ FirstSeen(all) \in Seq(STRING) /\ ToSet(FirstSeen(all)) = ToSet(all)
      /\ Distinct(FirstSeen(all))
      /\ \A K \in 0 .. Len(all) :
           (\A i, j \in 1 .. K : all[i] = all[j] => i = j) =>
             K <= Len(FirstSeen(all)) /\ \A i \in 1 .. K : FirstSeen(all)[i] = all[i]
  BY <1>5, FirstSeenFacts
<1>8. ToSet(all) = offers(body)
  <2>1. Named(on) = {body.rich[i].id : i \in I}
    <3>1. ASSUME NEW i \in DOMAIN on PROVE \E n \in I : on[i].id = body.rich[n].id
      BY <1>2
    <3>2. ASSUME NEW n \in I PROVE \E i \in DOMAIN on : on[i].id = body.rich[n].id
      BY <1>2
    <3> HIDE DEF I
    <3>3. ASSUME NEW x, x \in Named(on) PROVE x \in {body.rich[i].id : i \in I}
      BY <3>1, <3>3 DEF Named
    <3>4. ASSUME NEW x, x \in {body.rich[i].id : i \in I} PROVE x \in Named(on)
      BY <3>2, <3>4 DEF Named
    <3> QED
      BY <3>3, <3>4
  <2>2. Named(on) \cap U = {body.rich[i].id : i \in {j \in DOMAIN body.rich :
                                  ~body.rich[j].off /\ body.rich[j].id \in U}}
    <3>1. ASSUME NEW x, x \in Named(on) \cap U
          PROVE  \E i \in DOMAIN body.rich : ~body.rich[i].off /\ body.rich[i].id \in U /\ x = body.rich[i].id
      <4> HIDE DEF U
      <4> QED
        BY <2>1, <3>1
    <3>2. ASSUME NEW i \in DOMAIN body.rich, ~body.rich[i].off, body.rich[i].id \in U
          PROVE  body.rich[i].id \in Named(on) \cap U
      <4> HIDE DEF U
      <4> QED
        BY <2>1, <3>2
    <3> HIDE DEF U, I
    <3> DEFINE W == {j \in DOMAIN body.rich : ~body.rich[j].off /\ body.rich[j].id \in U}
    <3>3. ASSUME NEW x, x \in Named(on) \cap U PROVE x \in {body.rich[i].id : i \in W}
      BY <3>1, <3>3
    <3>4. ASSUME NEW x, x \in {body.rich[i].id : i \in W} PROVE x \in Named(on) \cap U
      BY <3>2, <3>4
    <3> QED
      BY <3>3, <3>4
  <2> QED
    BY <1>4, <1>5, <2>2 DEF offers
<1>9. ASSUME Distinct(body.agent)
      PROVE  /\ Len(body.agent) <= Len(FirstSeen(all))
             /\ \A i \in 1 .. Len(body.agent) : FirstSeen(all)[i] = body.agent[i]
  <2> DEFINE K == Len(body.agent)
  <2>1. K \in 0 .. Len(all)
    BY <1>1, <1>4, <1>5
  <2>2. \A i, j \in 1 .. K : all[i] = all[j] => i = j
    BY <1>1, <1>5, <1>9 DEF Distinct
  <2> HIDE DEF K
  <2>3. K <= Len(FirstSeen(all)) /\ \A i \in 1 .. K : FirstSeen(all)[i] = all[i]
    BY <1>7, <2>1, <2>2
  <2> QED
    BY <1>5, <2>3 DEF K
<1> QED
  BY <1>6, <1>7, <1>8, <1>9

-----------------------------------------------------------------------------
(* What is made of one answer.                                              *)

\* parseWorkBuddyV3Config: the facts of the union, in its order.
LEMMA ParsedFacts ==
    ASSUME NEW body \in WireBody, parseWorkBuddyV3Config(body) # Error
    PROVE  LET m == parseWorkBuddyV3Config(body)
           IN  /\ m \in Seq(Fact) /\ Len(m) = Len(unionOf(body)) /\ IdsOf(m) = unionOf(body)
               /\ Named(m) = offers(body) /\ Distinct(body.agent)
               /\ \A i \in DOMAIN m : m[i] = richFacts(m[i].id, body.rich)
<1> DEFINE ids == unionOf(body)
           list == [i \in DOMAIN ids |-> richFacts(ids[i], body.rich)]
           m == parseWorkBuddyV3Config(body)
<1>1. ids \in Seq(STRING) /\ ToSet(ids) = offers(body)
  BY UnionFacts
<1>2. m = validateModelFacts(list) /\ Distinct(body.agent)
  BY DEF parseWorkBuddyV3Config
<1>3. m = list
  BY <1>2 DEF validateModelFacts
<1> HIDE DEF m, ids
<1>4. body.rich \in Seq(WireModel)
  BY DEF WireBody
<1>5. \A i \in DOMAIN ids : list[i] \in Fact /\ list[i].id = ids[i]
  <2> SUFFICES ASSUME NEW i \in DOMAIN ids PROVE list[i] \in Fact /\ list[i].id = ids[i]
    OBVIOUS
  <2>1. ids[i] \in STRING
    BY <1>1
  <2> QED
    BY <1>4, <2>1, RichTyped
<1>6. DOMAIN ids = 1 .. Len(ids) /\ Len(ids) \in Nat
  BY <1>1
<1>7. DOMAIN list = DOMAIN ids /\ \A i \in DOMAIN ids : list[i] = richFacts(ids[i], body.rich)
  OBVIOUS
<1>8. list \in Seq(Fact) /\ Len(list) = Len(ids)
  BY <1>5, <1>6
<1> HIDE DEF list
<1>9. IdsOf(list) = ids
  <2>1. IdsOf(list) = [i \in DOMAIN ids |-> ids[i]]
    BY <1>5, <1>7 DEF IdsOf
  <2> QED
    BY <1>1, <2>1
<1>10. Named(list) = ToSet(ids)
  BY <1>5, <1>7, Zenon DEF Named, ToSet
<1>11. \A i \in DOMAIN list : list[i] = richFacts(list[i].id, body.rich)
  BY <1>5, <1>7
<1> QED
  BY <1>1, <1>2, <1>3, <1>8, <1>9, <1>10, <1>11 DEF m, ids

\* The merged list m starts with the primary p, whose names stand where it has any.
Keeps(m, p) ==
    /\ Len(p) <= Len(m)
    /\ \A i \in 1 .. Len(p) : m[i].id = p[i].id /\ (p[i].name # Blank => m[i].name = p[i].name)

\* mergeModelCatalog: the union of the two, the primary's own part first.
LEMMA Merged ==
    ASSUME NEW p \in Seq(Fact), NEW t \in Seq(Fact), Distinct(IdsOf(p)), Distinct(IdsOf(t))
    PROVE  LET m == mergeModelCatalog(p, t)
           IN  /\ m \in Seq(Fact) /\ Keeps(m, p)
               /\ \A i \in DOMAIN m : i > Len(p) => m[i].id \notin Named(p)
               /\ Named(m) = Named(p) \cup Named(t)
               /\ Distinct(IdsOf(m))
<1> DEFINE filled(x) == IF x.id \notin Named(t) THEN x ELSE fillMissingModelFacts(x, Entry(t, x.id))
           lead == [i \in DOMAIN p |-> filled(p[i])]
           I == {i \in DOMAIN t : t[i].id \notin Named(p)}
           rest == EntriesAt(t, I)
           m == lead \o rest
<1>1. mergeModelCatalog(p, t) = m
  BY DEF mergeModelCatalog
<1>2. DOMAIN p = 1 .. Len(p) /\ Len(p) \in Nat /\ DOMAIN t = 1 .. Len(t) /\ Len(t) \in Nat
      /\ \A i \in DOMAIN t : t[i] \in Fact
  OBVIOUS
<1>3. ASSUME NEW x \in Fact
      PROVE  /\ filled(x) \in Fact /\ filled(x).id = x.id
             /\ x.name # Blank => filled(x).name = x.name
  <2>1. CASE x.id \notin Named(t)
    BY <2>1
  <2>2. CASE x.id \in Named(t)
    <3> DEFINE e == Entry(t, x.id)
    <3>1. e \in Fact
      BY <1>2, <2>2, EntryFound
    <3>2. filled(x) = [x EXCEPT !.name = IF x.name = Blank THEN e.name ELSE x.name,
                                !.ctx = IF x.ctx = 0 THEN e.ctx ELSE x.ctx]
      BY <2>2 DEF fillMissingModelFacts
    <3> HIDE DEF e, filled
    <3> QED
      BY <3>1, <3>2 DEF Fact
  <2> QED
    BY <2>1, <2>2
<1>4. \A i \in DOMAIN p : p[i] \in Fact
  OBVIOUS
<1>5. \A i \in 1 .. Len(p) : lead[i] \in Fact /\ lead[i].id = p[i].id
                              /\ (p[i].name # Blank => lead[i].name = p[i].name)
  <2> HIDE DEF filled
  <2> QED
    BY <1>2, <1>3, <1>4
<1>6. lead \in Seq(Fact) /\ Len(lead) = Len(p)
  <2> HIDE DEF filled
  <2>1. lead = [i \in 1 .. Len(p) |-> filled(p[i])]
    BY <1>2
  <2> HIDE DEF lead
  <2> QED
    BY <1>2, <1>5, <2>1
<1> HIDE DEF lead, filled
<1>7. rest \in Seq(Fact) /\ \E at : Picks(at, rest, t, I)
  <2> HIDE DEF I
  <2> QED
    BY PickedAt
<1>8. PICK at : Picks(at, rest, t, I)
  BY <1>7
<1> HIDE DEF rest
<1>9. /\ m \in Seq(Fact) /\ Len(m) = Len(p) + Len(rest) /\ Len(rest) \in Nat
      /\ \A i \in 1 .. Len(p) : m[i] = lead[i]
      /\ \A i \in 1 .. Len(rest) : m[Len(p) + i] = rest[i]
  BY <1>6, <1>7, ConcatSet
<1> HIDE DEF m
<1>10. /\ DOMAIN m = 1 .. Len(m) /\ Len(m) \in Nat
       /\ \A i \in DOMAIN m : i <= Len(p) => i \in 1 .. Len(p) /\ m[i].id = p[i].id
  <2>1. m \in Seq(Fact)
    BY <1>9
  <2>2. DOMAIN m = 1 .. Len(m) /\ Len(m) \in Nat
    BY <2>1
  <2>3. \A i \in DOMAIN m : i <= Len(p) => i \in 1 .. Len(p)
    BY <1>2, <2>2
  <2>4. \A i \in 1 .. Len(p) : m[i].id = p[i].id
    BY <1>5, <1>9
  <2> QED
    BY <2>2, <2>3, <2>4
<1>11. ASSUME NEW i \in DOMAIN m, i > Len(p)
       PROVE  \E n \in I : /\ i - Len(p) \in 1 .. Len(rest) /\ n = at[i - Len(p)] /\ m[i].id = t[n].id
  <2>1. i - Len(p) \in 1 .. Len(rest) /\ m[i] = rest[i - Len(p)]
    BY <1>2, <1>9, <1>10, <1>11
  <2> QED
    BY <1>8, <2>1 DEF Picks
<1>12. Keeps(m, p)
  BY <1>2, <1>5, <1>9 DEF Keeps
<1>13. \A i \in DOMAIN m : i > Len(p) => m[i].id \notin Named(p)
  BY <1>11
<1>14. Named(m) = Named(p) \cup Named(t)
  <2>1. ASSUME NEW i \in DOMAIN m PROVE m[i].id \in Named(p) \cup Named(t)
    <3>1. CASE i <= Len(p)
      BY <1>2, <1>10, <3>1 DEF Named
    <3>2. CASE i > Len(p)
      BY <1>11, <3>2 DEF Named
    <3> QED
      BY <1>2, <1>10, <3>1, <3>2
  <2>2. ASSUME NEW i \in DOMAIN p PROVE p[i].id \in Named(m)
    <3>1. i \in DOMAIN m /\ i <= Len(p)
      BY <1>2, <1>9, <1>10
    <3>2. m[i].id = p[i].id
      BY <1>10, <3>1
    <3> QED
      BY <3>1, <3>2 DEF Named
  <2>3. ASSUME NEW i \in DOMAIN t PROVE t[i].id \in Named(m)
    <3>1. CASE t[i].id \in Named(p)
      BY <2>2, <3>1 DEF Named
    <3>2. CASE t[i].id \notin Named(p)
      <4>1. PICK j \in 1 .. Len(rest) : at[j] = i
        BY <1>2, <1>8, <3>2 DEF Picks
      <4>2. Len(p) + j \in DOMAIN m /\ m[Len(p) + j] = t[i]
        BY <1>2, <1>8, <1>9, <1>10, <4>1 DEF Picks
      <4> QED
        BY <4>2 DEF Named
    <3> QED
      BY <3>1, <3>2
  <2> QED
    BY <2>1, <2>2, <2>3 DEF Named
<1>15. ASSUME NEW i \in DOMAIN m, NEW j \in DOMAIN m, m[i].id = m[j].id, i < j PROVE FALSE
  <2>1. i \in Nat /\ j \in Nat
    BY <1>10
  <2>2. CASE j <= Len(p)
    <3>1. i \in DOMAIN p /\ j \in DOMAIN p /\ p[i].id = p[j].id
      BY <1>2, <1>10, <1>15, <2>1, <2>2
    <3> QED
      BY <1>15, <2>1, <3>1 DEF Distinct, IdsOf
  <2>3. CASE i <= Len(p) /\ j > Len(p)
    <3>1. m[i].id \in Named(p)
      BY <1>2, <1>10, <2>3 DEF Named
    <3> QED
      BY <1>13, <1>15, <2>3, <3>1
  <2>4. CASE i > Len(p)
    <3>1. j > Len(p)
      BY <1>2, <1>15, <2>1, <2>4
    <3>2. /\ i - Len(p) \in 1 .. Len(rest) /\ at[i - Len(p)] \in I /\ m[i].id = t[at[i - Len(p)]].id
      BY <1>11, <2>4
    <3>3. /\ j - Len(p) \in 1 .. Len(rest) /\ at[j - Len(p)] \in I /\ m[j].id = t[at[j - Len(p)]].id
      BY <1>11, <3>1
    <3>4. at[i - Len(p)] < at[j - Len(p)]
      <4>1. i - Len(p) < j - Len(p)
        BY <1>2, <1>15, <2>1
      <4> QED
        BY <1>8, <3>2, <3>3, <4>1 DEF Picks
    <3> DEFINE x == at[i - Len(p)]
               y == at[j - Len(p)]
    <3> HIDE DEF x, y
    <3>5. x \in DOMAIN t /\ y \in DOMAIN t /\ t[x].id = t[y].id /\ x < y
      BY <1>15, <3>2, <3>3, <3>4 DEF x, y
    <3>6. x = y
      BY <3>5, Zenon DEF Distinct, IdsOf
    <3> QED
      BY <1>2, <3>5, <3>6
  <2> QED
    BY <1>2, <2>1, <2>2, <2>3, <2>4
<1>16. Distinct(IdsOf(m))
  <2>1. DOMAIN IdsOf(m) = DOMAIN m /\ \A i \in DOMAIN m : IdsOf(m)[i] = m[i].id
    BY DEF IdsOf
  <2>2. \A i \in DOMAIN m : i \in Nat
    BY <1>10
  <2>3. ASSUME NEW i \in DOMAIN m, NEW j \in DOMAIN m, m[i].id = m[j].id PROVE i = j
    BY <1>15, <2>2, <2>3
  <2> QED
    BY <2>1, <2>3 DEF Distinct
<1> QED
  BY <1>1, <1>9, <1>12, <1>13, <1>14, <1>16

\* normalizeModelPromotions: the usable campaigns, as many as are kept.
LEMMA CampaignFacts ==
    ASSUME NEW entries \in Seq(WireCampaign)
    PROVE  LET kept == normalizeModelPromotions(entries)
               usable == {p \in ToSet(entries) : normalizeOnePromotion(p)}
           IN  /\ kept \in Seq(WireCampaign) /\ Len(kept) <= MaxPromotions
               /\ ToSet(kept) \subseteq usable
               /\ Len(kept) < MaxPromotions => usable \subseteq ToSet(kept)
<1> DEFINE I == {i \in DOMAIN entries : normalizeOnePromotion(entries[i])}
           all == EntriesAt(entries, I)
           n == IF Len(all) < MaxPromotions THEN Len(all) ELSE MaxPromotions
           kept == SubSeq(all, 1, n)
           usable == {p \in ToSet(entries) : normalizeOnePromotion(p)}
<1>1. /\ all \in Seq(WireCampaign)
      /\ \A i \in DOMAIN all : \E k \in I \cap DOMAIN entries : all[i] = entries[k]
      /\ \A k \in I \cap DOMAIN entries : \E i \in DOMAIN all : all[i] = entries[k]
  <2> HIDE DEF I
  <2> QED
    BY EntriesSet
<1>2. normalizeModelPromotions(entries) = kept
  BY DEF normalizeModelPromotions
<1> HIDE DEF all
<1>3. DOMAIN all = 1 .. Len(all) /\ Len(all) \in Nat
  BY <1>1
<1>4. MaxPromotions \in Nat
  BY CurationConstants
<1>5. n \in Nat /\ n <= Len(all)
  BY <1>3, <1>4
<1>6. n <= MaxPromotions /\ (n < MaxPromotions => n = Len(all))
  <2>1. CASE Len(all) < MaxPromotions
    <3>1. n = Len(all)
      BY <2>1
    <3> HIDE DEF n
    <3> QED
      BY <1>3, <1>4, <2>1, <3>1
  <2>2. CASE ~(Len(all) < MaxPromotions)
    <3>1. n = MaxPromotions
      BY <2>2
    <3> HIDE DEF n
    <3> QED
      BY <1>4, <3>1
  <2> QED
    BY <2>1, <2>2
<1> HIDE DEF n
<1>7. kept \in Seq(WireCampaign) /\ Len(kept) = n /\ \A i \in 1 .. n : kept[i] = all[i]
  <2>1. kept = [i \in 1 .. n |-> all[i]]
    BY <1>5
  <2>2. ASSUME NEW i \in 1 .. n PROVE all[i] \in WireCampaign
    <3>1. i \in DOMAIN all
      BY <1>3, <1>5
    <3> QED
      BY <1>1, <3>1
  <2> HIDE DEF kept
  <2>3. kept \in Seq(WireCampaign)
    BY <1>5, <2>1, <2>2
  <2> QED
    BY <1>5, <2>1, <2>3
<1> HIDE DEF kept
<1>8. DOMAIN kept = 1 .. n
  BY <1>7
<1>9. ASSUME NEW x \in ToSet(kept) PROVE x \in usable
  <2>1. PICK i \in 1 .. n : x = all[i]
    BY <1>7, <1>8 DEF ToSet
  <2>2. i \in DOMAIN all
    BY <1>3, <1>5
  <2>3. PICK k \in I : x = entries[k]
    BY <1>1, <2>1, <2>2
  <2> QED
    BY <2>3 DEF ToSet
<1>10. ASSUME n < MaxPromotions, NEW x \in usable PROVE x \in ToSet(kept)
  <2>1. PICK k \in DOMAIN entries : x = entries[k] /\ normalizeOnePromotion(x)
    BY DEF ToSet
  <2>2. PICK i \in DOMAIN all : all[i] = x
    BY <1>1, <2>1
  <2>3. i \in 1 .. n /\ kept[i] = x
    BY <1>6, <1>7, <1>10, <1>3, <2>2
  <2> QED
    BY <1>8, <2>3 DEF ToSet
<1> HIDE DEF usable
<1> QED
  BY <1>2, <1>6, <1>7, <1>9, <1>10 DEF usable

LEMMA PrefixOf ==
    ASSUME NEW X, NEW s \in Seq(X), NEW t \in Seq(X), Len(s) <= Len(t),
           \A i \in 1 .. Len(s) : t[i] = s[i]
    PROVE  IsPrefix(s, t)
<1>1. Len(s) \in Nat /\ Len(t) \in Nat /\ DOMAIN s = 1 .. Len(s)
  OBVIOUS
<1>2. SubSeq(s, 1, Len(s)) = [i \in 1 .. Len(s) |-> s[i]]
  BY <1>1
<1>3. SubSeq(t, 1, Len(s)) = [i \in 1 .. Len(s) |-> t[i]]
  BY <1>1
<1> QED
  BY <1>2, <1>3 DEF IsPrefix

\* parseWorkBuddyLegacyModels
LEMMA LegacyFacts ==
    ASSUME NEW body \in WireBody
    PROVE  parseWorkBuddyLegacyModels(body) \in Seq(Fact)
<1> DEFINE facts(e) == [id |-> e.id, name |-> e.name, ctx |-> e.input]
           I == {i \in DOMAIN body.rich : ~body.rich[i].off}
           kept == EntriesAt(body.rich, I)
           list == [i \in DOMAIN kept |-> facts(kept[i])]
<1>1. body.rich \in Seq(WireModel)
  BY DEF WireBody
<1>2. kept \in Seq(WireModel)
  <2> HIDE DEF I
  <2> QED
    BY <1>1, EntriesSet
<1>3. parseWorkBuddyLegacyModels(body) \in {list, Error}
  BY DEF parseWorkBuddyLegacyModels
<1> HIDE DEF kept
<1>4. DOMAIN kept = 1 .. Len(kept) /\ Len(kept) \in Nat /\ \A i \in DOMAIN kept : kept[i] \in WireModel
  BY <1>2
<1>5. \A i \in DOMAIN kept : facts(kept[i]) \in Fact
  BY <1>4 DEF WireModel, Fact
<1>6. list \in Seq(Fact)
  <2> HIDE DEF facts
  <2>1. list = [i \in 1 .. Len(kept) |-> facts(kept[i])]
    BY <1>4
  <2> HIDE DEF list
  <2> QED
    BY <1>4, <1>5, <2>1
<1>7. Error \in Seq(Fact)
  BY DEF Error
<1> QED
  BY <1>3, <1>6, <1>7

\* What a catalog owes an answer whose desktop identity was served.
Complete(answer, models, facts, promos) ==
    LET desktop == answer.desktop.body
        cli == answer.cli.body
        second == IF answer.cli.status = "ok" /\ parseWorkBuddyV3Config(cli) # Error
                  THEN offers(cli) ELSE {}
        usable == {p \in ToSet(desktop.promos) : normalizeOnePromotion(p)}
    IN  /\ Distinct(models)
        /\ IsPrefix(desktop.agent, models)
        /\ ToSet(models) = offers(desktop) \cup second
        /\ \A i \in DOMAIN facts :
             facts[i].id \in named(desktop) =>
               facts[i].name = richFacts(facts[i].id, desktop.rich).name
        /\ ToSet(promos) \subseteq usable
        /\ Len(promos) <= MaxPromotions
        /\ desktop.campaigns = "ok" /\ Len(promos) < MaxPromotions => usable \subseteq ToSet(promos)

Replies == [desktop : Reply, cli : Reply, legacy : Reply]

LEMMA CampaignsComplete ==
    ASSUME NEW answer \in Replies
    PROVE  LET promos == campaigns(answer).promos
               desktop == answer.desktop.body
               usable == {p \in ToSet(desktop.promos) : normalizeOnePromotion(p)}
           IN  /\ promos \in Seq(WireCampaign) /\ Len(promos) <= MaxPromotions
               /\ ToSet(promos) \subseteq usable
               /\ desktop.campaigns = "ok" /\ Len(promos) < MaxPromotions => usable \subseteq ToSet(promos)
<1> DEFINE desktop == answer.desktop.body
<1>1. desktop \in WireBody
  BY DEF Replies, Reply
<1> HIDE DEF desktop
<1>2. desktop.promos \in Seq(WireCampaign) /\ desktop.campaigns \in {"ok", "malformed"}
  BY <1>1 DEF WireBody
<1>3. CASE desktop.campaigns = "malformed"
  <2>1. campaigns(answer).promos = <<>>
    BY <1>3 DEF campaigns, parseWorkBuddyV3Promotions, desktop
  <2>2. ToSet(<<>>) = {} /\ Len(<<>>) = 0 /\ <<>> \in Seq(WireCampaign) /\ 0 <= MaxPromotions
    BY CurationConstants DEF ToSet
  <2> QED
    BY <1>3, <2>1, <2>2 DEF desktop
<1>4. CASE desktop.campaigns = "ok"
  <2>1. campaigns(answer).promos = normalizeModelPromotions(desktop.promos)
    BY <1>4 DEF campaigns, parseWorkBuddyV3Promotions, desktop
  <2> QED
    BY <1>2, <2>1, CampaignFacts DEF desktop
<1> QED
  BY <1>2, <1>3, <1>4

LEMMA IdsOfFacts ==
    ASSUME NEW list \in Seq(Fact)
    PROVE  /\ IdsOf(list) \in Seq(STRING) /\ Len(IdsOf(list)) = Len(list)
           /\ ToSet(IdsOf(list)) = Named(list)
           /\ \A i \in DOMAIN list : IdsOf(list)[i] = list[i].id
<1>1. DOMAIN list = 1 .. Len(list) /\ Len(list) \in Nat /\ \A i \in DOMAIN list : list[i] \in Fact
  OBVIOUS
<1>2. \A i \in DOMAIN list : list[i].id \in STRING
  BY <1>1 DEF Fact
<1> QED
  BY <1>1, <1>2, IdsTyped

\* The catalog of the two identities.
LEMMA DesktopComplete ==
    ASSUME NEW answer \in Replies, answer.desktop.status = "ok",
           parseWorkBuddyV3Config(answer.desktop.body) # Error
    PROVE  LET got == fetchWorkBuddyCatalog(answer)
           IN  /\ got.models \in Seq(Fact) /\ got.promos \in Seq(WireCampaign)
               /\ Complete(answer, IdsOf(got.models), got.models, got.promos)
<1> DEFINE desktop == answer.desktop.body
           cli == answer.cli.body
           p == parseWorkBuddyV3Config(desktop)
           t == IF answer.cli.status = "ok" THEN parseWorkBuddyV3Config(cli) ELSE Error
           second == IF answer.cli.status = "ok" /\ parseWorkBuddyV3Config(cli) # Error
                     THEN offers(cli) ELSE {}
           got == fetchWorkBuddyCatalog(answer)
           m == mergeModelCatalog(p, t)
<1>1. desktop \in WireBody /\ cli \in WireBody
  BY DEF Replies, Reply
<1>2. got.models = m /\ got.promos = campaigns(answer).promos
  BY DEF fetchWorkBuddyCatalog
<1>3. /\ p \in Seq(Fact) /\ Len(p) = Len(unionOf(desktop)) /\ IdsOf(p) = unionOf(desktop)
      /\ Named(p) = offers(desktop) /\ Distinct(desktop.agent)
      /\ \A i \in DOMAIN p : p[i] = richFacts(p[i].id, desktop.rich)
  BY <1>1, ParsedFacts
<1>4. t \in Seq(Fact) /\ Distinct(IdsOf(t)) /\ Named(t) = second
  <2>1. CASE answer.cli.status = "ok" /\ parseWorkBuddyV3Config(cli) # Error
    <3>1. t = parseWorkBuddyV3Config(cli) /\ second = offers(cli)
      BY <2>1
    <3>2. t \in Seq(Fact) /\ IdsOf(t) = unionOf(cli) /\ Named(t) = offers(cli)
      BY <1>1, <2>1, <3>1, ParsedFacts
    <3> HIDE DEF t
    <3> QED
      BY <1>1, <3>1, <3>2, UnionFacts
  <2>2. CASE ~(answer.cli.status = "ok" /\ parseWorkBuddyV3Config(cli) # Error)
    <3>1. t = <<>> /\ second = {}
      BY <2>2 DEF Error
    <3> HIDE DEF t, second
    <3>2. IdsOf(t) = <<>> /\ Named(t) = {}
      BY <3>1 DEF IdsOf, Named
    <3> QED
      BY <3>1, <3>2 DEF Distinct
  <2> QED
    BY <2>1, <2>2
<1>5. Distinct(unionOf(desktop)) /\ unionOf(desktop) \in Seq(STRING)
      /\ Len(desktop.agent) <= Len(unionOf(desktop))
      /\ \A i \in 1 .. Len(desktop.agent) : unionOf(desktop)[i] = desktop.agent[i]
  BY <1>1, <1>3, UnionFacts
<1>6. desktop.agent \in Seq(STRING)
  BY <1>1 DEF WireBody
<1> HIDE DEF p, t, second
<1>7. /\ m \in Seq(Fact) /\ Keeps(m, p)
      /\ \A i \in DOMAIN m : i > Len(p) => m[i].id \notin Named(p)
      /\ Named(m) = Named(p) \cup Named(t)
      /\ Distinct(IdsOf(m))
  <2>1. Distinct(IdsOf(p))
    BY <1>3, <1>5
  <2> QED
    BY <1>3, <1>4, <2>1, Merged
<1> HIDE DEF m
<1>8. /\ IdsOf(m) \in Seq(STRING) /\ Len(IdsOf(m)) = Len(m) /\ ToSet(IdsOf(m)) = Named(m)
      /\ \A i \in DOMAIN m : IdsOf(m)[i] = m[i].id
  BY <1>7, IdsOfFacts
<1>9. DOMAIN m = 1 .. Len(m) /\ Len(m) \in Nat /\ DOMAIN p = 1 .. Len(p) /\ Len(p) \in Nat
      /\ Len(desktop.agent) \in Nat
  BY <1>3, <1>6, <1>7
<1>10. IsPrefix(desktop.agent, IdsOf(m))
  <2>1. Len(desktop.agent) <= Len(p) /\ Len(p) <= Len(m)
    BY <1>3, <1>5, <1>7 DEF Keeps
  <2>2. ASSUME NEW i \in 1 .. Len(desktop.agent) PROVE IdsOf(m)[i] = desktop.agent[i]
    <3>1. i \in 1 .. Len(p) /\ i \in DOMAIN m /\ i \in DOMAIN p
      BY <1>9, <2>1
    <3>2. m[i].id = p[i].id
      BY <1>7, <3>1 DEF Keeps
    <3>3. p[i].id = unionOf(desktop)[i]
      BY <1>3, <3>1, IdsOfFacts
    <3> QED
      BY <1>5, <1>8, <3>1, <3>2, <3>3
  <2>3. Len(desktop.agent) <= Len(IdsOf(m))
    BY <1>8, <1>9, <2>1
  <2> QED
    BY <1>6, <1>8, <2>2, <2>3, PrefixOf
<1>11. ASSUME NEW i \in DOMAIN m, m[i].id \in named(desktop)
       PROVE  m[i].name = richFacts(m[i].id, desktop.rich).name
  <2>1. m[i].id \in offers(desktop) /\ richFacts(m[i].id, desktop.rich).name # Blank
    BY <1>11 DEF named
  <2>2. i \in 1 .. Len(p)
    BY <1>3, <1>7, <1>9, <2>1
  <2>3. m[i].id = p[i].id /\ (p[i].name # Blank => m[i].name = p[i].name)
    BY <1>7, <2>2 DEF Keeps
  <2> QED
    BY <1>3, <1>9, <2>1, <2>2, <2>3
<1>12. ToSet(IdsOf(m)) = offers(desktop) \cup second
  BY <1>3, <1>4, <1>7, <1>8
<1> DEFINE promos == campaigns(answer).promos
           usable == {q \in ToSet(desktop.promos) : normalizeOnePromotion(q)}
<1>13. /\ promos \in Seq(WireCampaign) /\ Len(promos) <= MaxPromotions
       /\ ToSet(promos) \subseteq usable
       /\ desktop.campaigns = "ok" /\ Len(promos) < MaxPromotions => usable \subseteq ToSet(promos)
  BY CampaignsComplete
<1> HIDE DEF promos, got
<1>14. Complete(answer, IdsOf(m), m, promos)
  BY <1>7, <1>10, <1>11, <1>12, <1>13 DEF Complete, second
<1> QED
  BY <1>2, <1>7, <1>13, <1>14 DEF promos, got

\* fetchWorkBuddyCatalog, whichever answer decides.
LEMMA FetchedFacts ==
    ASSUME NEW answer \in Replies, fetchWorkBuddyCatalog(answer).models # Error
    PROVE  LET got == fetchWorkBuddyCatalog(answer)
           IN  /\ got.models \in Seq(Fact) /\ got.promos \in Seq(WireCampaign)
               /\ answer.desktop.status = "ok" =>
                    Complete(answer, IdsOf(got.models), got.models, got.promos)
<1> DEFINE got == fetchWorkBuddyCatalog(answer)
<1>1. CASE answer.desktop.status = "ok" /\ parseWorkBuddyV3Config(answer.desktop.body) # Error
  BY <1>1, DesktopComplete
<1>2. CASE ~(answer.desktop.status = "ok" /\ parseWorkBuddyV3Config(answer.desktop.body) # Error)
  <2>1. /\ answer.desktop.status = "absent" /\ answer.legacy.status = "ok"
        /\ got = [NoCatalog EXCEPT !.models = parseWorkBuddyLegacyModels(answer.legacy.body)]
    BY <1>2 DEF fetchWorkBuddyCatalog, NoCatalog
  <2>2. got.models = parseWorkBuddyLegacyModels(answer.legacy.body) /\ got.promos = <<>>
    BY <2>1 DEF NoCatalog
  <2>3. answer.legacy.body \in WireBody
    BY DEF Replies, Reply
  <2>4. got.models \in Seq(Fact)
    BY <2>2, <2>3, LegacyFacts
  <2>5. answer.desktop.status # "ok"
    BY <2>1
  <2>6. <<>> \in Seq(WireCampaign)
    OBVIOUS
  <2>7. got.promos \in Seq(WireCampaign)
    BY <2>2, <2>6, Zenon
  <2> HIDE DEF got
  <2> QED
    BY <2>4, <2>5, <2>7 DEF got
<1> QED
  BY <1>1, <1>2

-----------------------------------------------------------------------------
(* The configuration, the overlay and the context tiers.                    *)

Procs == Panels \cup {Host}
Tiers == {NoTier, Tier}

ConfigFields == {"models", "hidden", "order", "tier"}
OverlayFields == {"hide", "order", "add"}
JobFields == {"pc", "kind", "id", "overlay", "next", "prev", "todo", "read"}
SnapFields == {"state", "gen", "realm", "at", "models", "facts", "promos", "len", "of", "late"}
FlightFields == {"pc", "gen", "list", "tier", "built"}

Committing == {"previous", "hidden", "order", "commit", "reapply"}

\* A list that the configuration holds: empty, or an operator's.
Listed == Lists \cup {<<>>}

IsConfig(c) ==
    /\ DOMAIN c = ConfigFields /\ c.tier \in [Tiered -> Tiers] /\ c.models \in Listed
    /\ c.order \in Seq(STRING)

\* The pins are a list, and only so many models are added.
IsOverlay(o) == DOMAIN o = OverlayFields /\ o.order \in Seq(STRING) /\ IsFiniteSet(o.add)

\* A tier and a recorded length that were read for the snapshot of an account.
IsRead(r) == r[1] \in Tiered /\ r[2] \in Accounts /\ r[3] \in Tiers /\ r[4] # Tier

IsJob(p, j) ==
    /\ DOMAIN j = JobFields
    /\ IsConfig(j.next)
    /\ IsOverlay(j.overlay)
    /\ j.todo \subseteq Tiered \X Accounts
    /\ j.pc \notin {"reapply", "again"} => j.todo = {} /\ j.read = <<>>
    /\ j.read # <<>> => IsRead(j.read)
    /\ p = Host => j.pc \in Committing \cup {"idle"}
    /\ p # Host /\ j.pc \in Committing => j.id \in Tiered

OwnLengths(list) == \A id \in Named(list) : Entry(list, id).ctx # Tier

\* The length shows the tier, or no tier at all.
Agrees(length, tier) == (length = Tier) <=> (tier = Tier)

IsFlight(f) ==
    /\ DOMAIN f = FlightFields /\ f.list \in Listed
    /\ f.pc = "publish" =>
         /\ DOMAIN f.built = SnapFields /\ f.tier \in [Tiered -> Tiers]
         /\ \A m \in Tiered \cap DOMAIN f.built.len : Agrees(f.built.len[m], f.tier[m])

Jobs == DOMAIN job = Procs /\ \A p \in Procs : IsJob(p, job[p])
Configs == IsConfig(file) /\ IsConfig(features) /\ IsOverlay(overlay)
Flights == DOMAIN flight = Accounts /\ \A a \in Accounts : IsFlight(flight[a])
Upstream ==
    /\ DOMAIN cache = Accounts /\ \A a \in Accounts : OwnLengths(cache[a].models)
    /\ \A m \in Tiered : base[m] # Tier

\* The length of m in a's snapshot is still to be written by p.
Owed(p, m, a) ==
    \/ <<m, a>> \in job[p].todo
    \/ job[p].read # <<>> /\ job[p].read[1] = m /\ job[p].read[2] = a

Shown(a) == (Tiered \cap DOMAIN snap[a].len) \ snap[a].late

\* Every length that was not overtaken shows the tier in force, or will.
Lengths ==
    /\ DOMAIN snap = Accounts
    /\ \A a \in Accounts :
         /\ DOMAIN snap[a] = SnapFields
         /\ \A m \in Shown(a) :
              Agrees(snap[a].len[m], features.tier[m]) \/ \E p \in Procs : Owed(p, m, a)

Settled(p) == job[p].pc \in {"idle", "done"}
Clean == ~changed /\ ~unsaved /\ \A p \in Panels : Settled(p)

\* While no panel has anything to do or to save, the host's commit is carrying the
\* file into the overlay and the configuration, or has.
Carried ==
    LET h == job[Host]
    IN  /\ h.pc \in {"previous", "hidden", "order", "commit"} => h.next = file
        /\ h.pc \in {"order", "commit", "reapply", "idle"} => overlay.hide = file.hidden
        /\ h.pc \in {"commit", "reapply", "idle"} => overlay.order = file.order
        /\ h.pc \in {"reapply", "idle"} => features = file

IInv == Jobs /\ Configs /\ Flights /\ Upstream /\ Lengths /\ (Clean => Carried)

-----------------------------------------------------------------------------
LEMMA PlainFits == IsConfig(Plain) /\ IsOverlay(NoOverlay)
<1>1. IsConfig(Plain)
  BY DEF IsConfig, Plain, ConfigFields, Tiers, Listed
<1>2. DOMAIN NoOverlay = OverlayFields /\ NoOverlay.order = <<>> /\ NoOverlay.add = {}
  BY DEF NoOverlay, OverlayFields
<1>3. <<>> \in Seq(STRING) /\ IsFiniteSet({})
  BY FS_EmptySet
<1> QED
  BY <1>1, <1>2, <1>3 DEF IsOverlay

LEMMA InitFits == Init => IInv
<1> SUFFICES ASSUME Init PROVE IInv
  OBVIOUS
<1>1. IsConfig(Plain) /\ IsOverlay(NoOverlay)
  BY PlainFits
<1>2. \A p \in Procs : IsJob(p, NoJob)
  BY <1>1 DEF IsJob, NoJob, JobFields, Committing
<1>3. IsFlight(NoFlight)
  BY DEF IsFlight, NoFlight, FlightFields, Listed
<1>4. DOMAIN NotStarted = SnapFields /\ DOMAIN NotStarted.len = {}
  BY DEF NotStarted, SnapFields
<1>5. Jobs /\ Configs /\ Flights
  BY <1>1, <1>2, <1>3 DEF Init, Jobs, Configs, Flights, Procs
<1>6. OwnLengths(NoCache.models)
  BY DEF OwnLengths, NoCache, Named, Error
<1>7. Upstream
  BY <1>6, TierUnlikeLengths DEF Init, Upstream, NoTier
<1>8. Lengths
  BY <1>4 DEF Init, Lengths, Shown
<1>9. Carried
  BY DEF Init, Carried, NoJob, Plain, NoOverlay
<1> QED
  BY <1>5, <1>7, <1>8, <1>9 DEF IInv

-----------------------------------------------------------------------------
LEMMA Actors == Host \in Procs /\ Panels \subseteq Procs /\ Host \notin Panels
  BY CurationConstants DEF Procs

\* A step of p replaces its job and drops none of the lengths it owes.
LEMMA JobStep ==
    ASSUME Jobs, NEW p \in Procs, NEW j, IsJob(p, j), job' = [job EXCEPT ![p] = j],
           \A m \in Tiered, a \in Accounts :
             Owed(p, m, a) => \/ <<m, a>> \in j.todo
                              \/ j.read # <<>> /\ j.read[1] = m /\ j.read[2] = a
    PROVE  /\ Jobs' /\ job'[p] = j /\ \A q \in Procs \ {p} : job'[q] = job[q]
           /\ \A q \in Procs, m \in Tiered, a \in Accounts : Owed(q, m, a) => Owed(q, m, a)'
<1>1. DOMAIN job' = Procs /\ job'[p] = j /\ \A q \in Procs \ {p} : job'[q] = job[q]
  BY DEF Jobs
<1>2. Jobs'
  BY <1>1 DEF Jobs
<1>3. ASSUME NEW q \in Procs, NEW m \in Tiered, NEW a \in Accounts, Owed(q, m, a)
      PROVE  Owed(q, m, a)'
  <2>1. CASE q = p
    BY <1>1, <1>3, <2>1 DEF Owed
  <2>2. CASE q # p
    BY <1>1, <1>3, <2>2 DEF Owed
  <2> QED
    BY <2>1, <2>2
<1> QED
  BY <1>1, <1>2, <1>3

LEMMA NothingOwed ==
    ASSUME Jobs, NEW p \in Procs, job[p].pc \notin {"reapply", "again"}
    PROVE  \A m, a : ~Owed(p, m, a)
  BY DEF Jobs, IsJob, Owed

\* Nothing that bears on the lengths changes.
LEMMA LengthsKept ==
    ASSUME Lengths, snap' = snap, features' = features,
           \A q \in Procs, m \in Tiered, a \in Accounts : Owed(q, m, a) => Owed(q, m, a)'
    PROVE  Lengths'
<1> SUFFICES ASSUME NEW a \in Accounts, NEW m \in Shown(a)
             PROVE  Agrees(snap[a].len[m], features.tier[m]) \/ \E p \in Procs : Owed(p, m, a)'
  BY DEF Lengths, Shown
<1>1. m \in Tiered
  BY DEF Shown
<1> QED
  BY <1>1 DEF Lengths

LEMMA BusyPanel ==
    ASSUME NEW p \in Panels, job'[p].pc \notin {"idle", "done"}
    PROVE  ~Clean'
  BY DEF Clean, Settled

LEMMA FlightsKept == ASSUME Flights, flight' = flight PROVE Flights'
  BY DEF Flights

LEMMA UpstreamKept == ASSUME Upstream, cache' = cache, base' = base PROVE Upstream'
  BY DEF Upstream

-----------------------------------------------------------------------------
(* The panels' changes. *)

LEMMA EditedFits ==
    ASSUME NEW o, IsOverlay(o), NEW kind \in {"hide", "restore", "add", "reset"}, NEW id
    PROVE  IsOverlay(edited(kind, id, o))
<1> DEFINE e == edited(kind, id, o)
<1>1. DOMAIN o = OverlayFields /\ o.order \in Seq(STRING) /\ IsFiniteSet(o.add)
  BY DEF IsOverlay
<1>2. IsFiniteSet(o.add \ {id}) /\ IsFiniteSet(o.add \cup {id})
  BY <1>1, FS_RemoveElement, FS_AddElement
<1>3. CASE kind = "hide"
  <2>1. Without(o.order, {id}) \in Seq(STRING)
    BY <1>1, ThoseFacts DEF Without
  <2>2. e = [hide |-> o.hide \cup {id}, order |-> Without(o.order, {id}), add |-> o.add \ {id}]
    BY <1>3 DEF edited
  <2>3. DOMAIN e = OverlayFields /\ e.order = Without(o.order, {id}) /\ e.add = o.add \ {id}
    BY <2>2 DEF OverlayFields
  <2> QED
    BY <1>2, <2>1, <2>3 DEF IsOverlay
<1>4. CASE kind = "restore"
  <2>1. e = [o EXCEPT !.hide = o.hide \ {id}]
    BY <1>4 DEF edited
  <2>2. DOMAIN e = OverlayFields /\ e.order = o.order /\ e.add = o.add
    BY <1>1, <2>1, Zenon DEF OverlayFields
  <2> QED
    BY <1>1, <2>2 DEF IsOverlay
<1>5. CASE kind = "add"
  <2>1. e = [o EXCEPT !.add = o.add \cup {id}, !.hide = o.hide \ {id}]
    BY <1>5 DEF edited
  <2>2. DOMAIN e = OverlayFields /\ e.order = o.order /\ e.add = o.add \cup {id}
    BY <1>1, <2>1, Zenon DEF OverlayFields
  <2> QED
    BY <1>1, <1>2, <2>2 DEF IsOverlay
<1>6. CASE kind = "reset"
  BY <1>6, PlainFits DEF edited
<1> QED
  BY <1>3, <1>4, <1>5, <1>6

LEMMA EditKeeps ==
    ASSUME IInv, NEW p \in Panels, NEW kind \in {"hide", "restore", "add", "reset"}, NEW id,
           BeginEdit(p, kind, id)
    PROVE  IInv'
<1> DEFINE o == edited(kind, id, overlay)
           j == [NoJob EXCEPT !.pc = "store", !.kind = kind, !.id = id, !.overlay = o]
<1>1. p \in Procs /\ p # Host /\ job[p].pc = "idle" /\ job' = [job EXCEPT ![p] = j]
      /\ UNCHANGED <<file, changed, unsaved, features, overlay, base, snap, cache, flight>>
  BY Actors DEF BeginEdit, Begin, found
<1>2. IsOverlay(o)
  BY EditedFits DEF IInv, Configs
<1>3. IsConfig(Plain)
  BY PlainFits
<1> HIDE DEF o
<1>4. /\ DOMAIN j = JobFields /\ j.pc = "store" /\ j.overlay = o /\ j.next = Plain
      /\ j.todo = {} /\ j.read = <<>>
  BY DEF NoJob, JobFields
<1> HIDE DEF j
<1>5. IsJob(p, j)
  BY <1>1, <1>2, <1>3, <1>4 DEF IsJob, Committing
<1>6. Jobs' /\ job'[p] = j
      /\ \A q \in Procs, m \in Tiered, a \in Accounts : Owed(q, m, a) => Owed(q, m, a)'
  BY <1>1, <1>5, NothingOwed, JobStep DEF IInv
<1>7. Lengths' /\ Flights' /\ Upstream' /\ Configs'
  BY <1>1, <1>6, LengthsKept, FlightsKept, UpstreamKept DEF IInv, Configs
<1>8. ~Clean'
  BY <1>4, <1>6, BusyPanel
<1> QED
  BY <1>6, <1>7, <1>8 DEF IInv

\* A job moves on to a stage that owes no length.
LEMMA Moved ==
    ASSUME Jobs, NEW p \in Procs, job[p].pc \notin {"reapply", "again"},
           NEW pc, pc \notin {"reapply", "again"}, Move(p, pc),
           p = Host => pc \in Committing,
           p # Host /\ pc \in Committing => job[p].pc \in Committing
    PROVE  /\ Jobs' /\ job'[p].pc = pc /\ job'[p].next = job[p].next
           /\ \A q \in Procs \ {p} : job'[q] = job[q]
           /\ \A q \in Procs, m \in Tiered, a \in Accounts : Owed(q, m, a) => Owed(q, m, a)'
<1> DEFINE j == [job[p] EXCEPT !.pc = pc]
<1>1. IsJob(p, job[p]) /\ DOMAIN job = Procs
  BY DEF Jobs
<1>2. job' = [job EXCEPT ![p] = j]
  BY <1>1 DEF Move
<1>3. /\ DOMAIN j = JobFields /\ j.pc = pc /\ j.next = job[p].next /\ j.todo = job[p].todo
      /\ j.read = job[p].read /\ j.overlay = job[p].overlay /\ j.id = job[p].id
  BY <1>1, Zenon DEF IsJob, JobFields
<1> HIDE DEF j
<1>4. IsJob(p, j)
  BY <1>1, <1>3 DEF IsJob
<1>5. \A m, a : ~Owed(p, m, a)
  BY NothingOwed
<1> QED
  BY <1>2, <1>3, <1>4, <1>5, JobStep

\* The job of a panel that is through.
LEMMA Finished ==
    ASSUME Jobs, NEW p \in Panels, job[p].pc \notin {"reapply", "again"}, Finish(p)
    PROVE  /\ Jobs'
           /\ \A q \in Procs, m \in Tiered, a \in Accounts : Owed(q, m, a) => Owed(q, m, a)'
<1> DEFINE j == [NoJob EXCEPT !.pc = "done"]
<1>1. p \in Procs /\ p # Host /\ job' = [job EXCEPT ![p] = j]
      /\ IsConfig(Plain) /\ IsOverlay(NoOverlay)
  BY Actors, PlainFits DEF Finish
<1>2. /\ DOMAIN j = JobFields /\ j.pc = "done" /\ j.overlay = NoOverlay /\ j.next = Plain
      /\ j.todo = {} /\ j.read = <<>>
  BY DEF NoJob, JobFields
<1> HIDE DEF j
<1>3. IsJob(p, j)
  BY <1>1, <1>2 DEF IsJob, Committing
<1>4. \A m, a : ~Owed(p, m, a)
  BY <1>1, NothingOwed
<1> QED
  BY <1>1, <1>3, <1>4, JobStep

LEMMA StoreKeeps ==
    ASSUME IInv, NEW p \in Panels, storeModelOverlay(p)
    PROVE  IInv'
<1>1. p \in Procs /\ p # Host /\ job[p].pc = "store" /\ overlay' = job[p].overlay /\ Move(p, "copy")
      /\ UNCHANGED <<file, changed, unsaved, features, base, snap, cache, flight>>
  BY Actors DEF storeModelOverlay, found
<1>2. /\ Jobs' /\ job'[p].pc = "copy"
      /\ \A q \in Procs, m \in Tiered, a \in Accounts : Owed(q, m, a) => Owed(q, m, a)'
  BY <1>1, Moved DEF IInv, Committing
<1>3. Lengths' /\ Flights' /\ Upstream'
  BY <1>1, <1>2, LengthsKept, FlightsKept, UpstreamKept DEF IInv
<1>4. Configs'
  BY <1>1 DEF IInv, Jobs, IsJob, Configs
<1>5. ~Clean'
  BY <1>2, BusyPanel
<1> QED
  BY <1>2, <1>3, <1>4, <1>5 DEF IInv

LEMMA CopyKeeps ==
    ASSUME IInv, NEW p \in Panels, CopyFeatures(p)
    PROVE  IInv'
<1> DEFINE c == [features EXCEPT !.hidden = job[p].overlay.hide]
           j == [job[p] EXCEPT !.pc = "sync", !.next = c]
<1>1. p \in Procs /\ p # Host /\ job[p].pc = "copy"
      /\ UNCHANGED <<file, changed, unsaved, features, overlay, base, snap, cache, flight>>
  BY Actors DEF CopyFeatures, found
<1>2. DOMAIN job = Procs /\ IsJob(p, job[p]) /\ IsConfig(features)
  BY <1>1 DEF IInv, Jobs, Configs
<1>3. job' = [job EXCEPT ![p] = j]
  BY <1>1, <1>2 DEF CopyFeatures
<1>4. IsConfig(c)
  BY <1>2, Zenon DEF IsConfig, ConfigFields
<1> HIDE DEF c
<1>5. /\ DOMAIN j = JobFields /\ j.pc = "sync" /\ j.next = c /\ j.todo = job[p].todo
      /\ j.read = job[p].read /\ j.overlay = job[p].overlay
  BY <1>2, Zenon DEF IsJob, JobFields
<1> HIDE DEF j
<1>6. IsJob(p, j)
  BY <1>1, <1>2, <1>4, <1>5 DEF IsJob, Committing
<1>7. Jobs' /\ job'[p] = j
      /\ \A q \in Procs, m \in Tiered, a \in Accounts : Owed(q, m, a) => Owed(q, m, a)'
  BY <1>1, <1>3, <1>6, NothingOwed, JobStep DEF IInv
<1>8. Lengths' /\ Flights' /\ Upstream' /\ Configs'
  BY <1>1, <1>7, LengthsKept, FlightsKept, UpstreamKept DEF IInv, Configs
<1>9. ~Clean'
  BY <1>5, <1>7, BusyPanel
<1> QED
  BY <1>7, <1>8, <1>9 DEF IInv

-----------------------------------------------------------------------------
\* A configuration replaces the one in force: the lengths whose tier it changes
\* are overtaken, or somebody will write them.
LEMMA Replaced ==
    ASSUME Lengths, NEW next, NEW known, features' = next, snap' = Missed(next, known),
           \A q \in Procs, m \in Tiered, a \in Accounts : Owed(q, m, a) => Owed(q, m, a)',
           \A m \in known, a \in Accounts : \E q \in Procs : Owed(q, m, a)'
    PROVE  Lengths'
<1> DEFINE lost == changedContextOverrides(features, next) \ known
<1>1. DOMAIN snap' = Accounts
  BY DEF Missed
<1>2. ASSUME NEW a \in Accounts
      PROVE  /\ DOMAIN snap'[a] = SnapFields
             /\ snap'[a].len = snap[a].len /\ snap'[a].late = snap[a].late \cup lost
  <2>1. snap'[a] = [snap[a] EXCEPT !.late = @ \cup lost]
    BY DEF Missed
  <2>2. DOMAIN snap[a] = SnapFields
    BY DEF Lengths
  <2> HIDE DEF lost
  <2> QED
    BY <2>1, <2>2, Zenon DEF SnapFields
<1>3. ASSUME NEW a \in Accounts, NEW m \in Tiered \cap DOMAIN snap'[a].len, m \notin snap'[a].late
      PROVE  Agrees(snap'[a].len[m], next.tier[m]) \/ \E q \in Procs : Owed(q, m, a)'
  <2>1. m \in Shown(a) /\ m \notin lost
    BY <1>2, <1>3 DEF Shown
  <2>2. CASE m \in known
    BY <2>2
  <2>3. CASE m \notin known
    <3>1. next.tier[m] = features.tier[m]
      BY <1>3, <2>1, <2>3 DEF changedContextOverrides
    <3> QED
      BY <1>2, <1>3, <2>1, <3>1 DEF Lengths
  <2> QED
    BY <2>2, <2>3
<1> QED
  BY <1>1, <1>2, <1>3 DEF Lengths, Shown

LEMMA SyncKeeps ==
    ASSUME IInv, NEW p \in Panels, syncHiddenModelsConfig(p)
    PROVE  IInv'
<1>1. p \in Procs /\ p # Host /\ job[p].pc = "sync" /\ features' = job[p].next
      /\ snap' = Missed(job[p].next, {})
      /\ UNCHANGED <<file, changed, overlay, base, cache, flight>>
  BY Actors DEF syncHiddenModelsConfig
<1>2. /\ Jobs' /\ ~Clean'
      /\ \A q \in Procs, m \in Tiered, a \in Accounts : Owed(q, m, a) => Owed(q, m, a)'
  <2>1. CASE Move(p, "save")
    <3>1. /\ Jobs' /\ job'[p].pc = "save"
          /\ \A q \in Procs, m \in Tiered, a \in Accounts : Owed(q, m, a) => Owed(q, m, a)'
      BY <1>1, <2>1, Moved DEF IInv, Committing
    <3> QED
      BY <3>1, BusyPanel
  <2>2. CASE Finish(p) /\ unsaved' = TRUE
    BY <1>1, <2>2, Finished DEF IInv, Clean
  <2> QED
    BY <2>1, <2>2 DEF syncHiddenModelsConfig
<1>3. Lengths'
  BY <1>1, <1>2, Replaced DEF IInv
<1>4. Flights' /\ Upstream' /\ Configs'
  BY <1>1, FlightsKept, UpstreamKept DEF IInv, Configs, Jobs, IsJob
<1> QED
  BY <1>2, <1>3, <1>4 DEF IInv

LEMMA TierKeeps ==
    ASSUME IInv, NEW p \in Panels, NEW m \in Tiered, NEW v \in {NoTier, Tier}, BeginTier(p, m, v)
    PROVE  IInv'
<1> DEFINE c == [features EXCEPT !.tier[m] = v]
           j == [NoJob EXCEPT !.pc = "previous", !.kind = "tier", !.id = m, !.next = c]
<1>1. p \in Procs /\ p # Host /\ job[p].pc = "idle" /\ job' = [job EXCEPT ![p] = j]
      /\ UNCHANGED <<file, changed, unsaved, features, overlay, base, snap, cache, flight>>
  BY Actors DEF BeginTier, Begin, found
<1>2. IsConfig(c)
  <2>1. /\ DOMAIN features = ConfigFields /\ features.tier \in [Tiered -> Tiers]
        /\ features.models \in Listed /\ features.order \in Seq(STRING)
    BY DEF IInv, Configs, IsConfig
  <2>2. /\ DOMAIN c = ConfigFields /\ c.tier = [features.tier EXCEPT ![m] = v]
        /\ c.models = features.models /\ c.order = features.order
    BY <2>1, Zenon DEF ConfigFields
  <2>3. v \in Tiers
    BY DEF Tiers
  <2> HIDE DEF c
  <2> QED
    BY <2>1, <2>2, <2>3 DEF IsConfig
<1> HIDE DEF c
<1>3. /\ DOMAIN j = JobFields /\ j.pc = "previous" /\ j.id = m /\ j.overlay = NoOverlay
      /\ j.next = c /\ j.todo = {} /\ j.read = <<>>
  BY DEF NoJob, JobFields
<1> HIDE DEF j
<1>4. IsJob(p, j)
  BY <1>1, <1>2, <1>3, PlainFits DEF IsJob, Committing
<1>5. Jobs' /\ job'[p] = j
      /\ \A q \in Procs, n \in Tiered, a \in Accounts : Owed(q, n, a) => Owed(q, n, a)'
  BY <1>1, <1>4, NothingOwed, JobStep DEF IInv
<1>6. Lengths' /\ Flights' /\ Upstream' /\ Configs'
  BY <1>1, <1>5, LengthsKept, FlightsKept, UpstreamKept DEF IInv, Configs
<1>7. ~Clean'
  BY <1>3, <1>5, BusyPanel
<1> QED
  BY <1>5, <1>6, <1>7 DEF IInv

\* The file of a panel that saves, or whose operator edits it.
LEMMA FileFits ==
    ASSUME IInv
    PROVE  /\ \A p \in Panels : IsConfig(Saved(p))
           /\ \A next \in FileEdits : IsConfig(next)
<1>1. /\ DOMAIN file = ConfigFields /\ file.tier \in [Tiered -> Tiers]
      /\ file.models \in Listed /\ file.order \in Seq(STRING)
  BY DEF IInv, Configs, IsConfig
<1>2. ASSUME NEW t \in [Tiered -> Tiers] PROVE IsConfig([file EXCEPT !.tier = t])
  BY <1>1, Zenon DEF IsConfig, ConfigFields
<1>3. ASSUME NEW h PROVE IsConfig([file EXCEPT !.hidden = h])
  BY <1>1, Zenon DEF IsConfig, ConfigFields
<1>4. ASSUME NEW h \in Seq(STRING) PROVE IsConfig([file EXCEPT !.order = h])
  BY <1>1, Zenon DEF IsConfig, ConfigFields
<1>5. ASSUME NEW h \in Lists PROVE IsConfig([file EXCEPT !.models = h])
  BY <1>1, Zenon DEF IsConfig, ConfigFields, Listed
<1>6. ASSUME NEW m \in Tiered, NEW v \in {NoTier, Tier}
      PROVE  IsConfig([file EXCEPT !.tier[m] = v])
  <2>1. [file EXCEPT !.tier[m] = v] = [file EXCEPT !.tier = [file.tier EXCEPT ![m] = v]]
    BY <1>1, Zenon
  <2>2. [file.tier EXCEPT ![m] = v] \in [Tiered -> Tiers]
    BY <1>1 DEF Tiers
  <2> QED
    BY <1>2, <2>1, <2>2
<1>7. ASSUME NEW p \in Panels PROVE IsConfig(Saved(p))
  <2>1. job[p].next.tier \in [Tiered -> Tiers]
    BY Actors DEF IInv, Jobs, IsJob, IsConfig
  <2> QED
    BY <1>2, <1>3, <2>1 DEF Saved
<1>8. ASSUME NEW next \in FileEdits PROVE IsConfig(next)
  <2>1. \/ next \in {[file EXCEPT !.order = o] : o \in Orders}
        \/ next = [file EXCEPT !.hidden = {}]
        \/ next \in {[file EXCEPT !.tier[m] = v] : m \in Tiered, v \in {NoTier, Tier}}
        \/ next \in {[file EXCEPT !.models = l] : l \in Lists}
    BY DEF FileEdits
  <2>2. CASE next \in {[file EXCEPT !.order = o] : o \in Orders}
    <3>1. PICK o \in Orders : next = [file EXCEPT !.order = o]
      BY <2>2
    <3>2. o \in Seq(STRING)
      BY CurationConstants
    <3> QED
      BY <1>4, <3>1, <3>2, Zenon
  <2>3. CASE next = [file EXCEPT !.hidden = {}]
    BY <1>3, <2>3, Zenon
  <2>4. CASE next \in {[file EXCEPT !.tier[m] = v] : m \in Tiered, v \in {NoTier, Tier}}
    <3>1. PICK m \in Tiered, v \in {NoTier, Tier} : next = [file EXCEPT !.tier[m] = v]
      BY <2>4
    <3> QED
      BY <1>6, <3>1, Zenon
  <2>5. CASE next \in {[file EXCEPT !.models = l] : l \in Lists}
    BY <1>5, <2>5, Zenon
  <2> QED
    BY <2>1, <2>2, <2>3, <2>4, <2>5
<1> QED
  BY <1>7, <1>8

LEMMA SaveKeeps ==
    ASSUME IInv, NEW p \in Panels, SaveConfig(p)
    PROVE  IInv'
<1>1. p \in Procs /\ p # Host /\ job[p].pc = "save" /\ Finish(p) /\ file' = Saved(p) /\ changed'
      /\ UNCHANGED <<features, overlay, base, snap, cache, flight>>
  BY Actors DEF SaveConfig, found
<1>2. /\ Jobs'
      /\ \A q \in Procs, m \in Tiered, a \in Accounts : Owed(q, m, a) => Owed(q, m, a)'
  BY <1>1, Finished DEF IInv
<1>3. Lengths' /\ Flights' /\ Upstream'
  BY <1>1, <1>2, LengthsKept, FlightsKept, UpstreamKept DEF IInv
<1>4. Configs' /\ ~Clean'
  BY <1>1, FileFits DEF IInv, Configs, Clean
<1> QED
  BY <1>2, <1>3, <1>4 DEF IInv

LEMMA LossKeeps ==
    ASSUME IInv, NEW p \in Panels, SaveLost(p)
    PROVE  IInv'
<1>1. p \in Procs /\ p # Host /\ job[p].pc = "save" /\ Finish(p) /\ unsaved'
      /\ UNCHANGED <<file, features, overlay, base, snap, cache, flight>>
  BY Actors DEF SaveLost, found
<1>2. /\ Jobs'
      /\ \A q \in Procs, m \in Tiered, a \in Accounts : Owed(q, m, a) => Owed(q, m, a)'
  BY <1>1, Finished DEF IInv
<1>3. Lengths' /\ Flights' /\ Upstream'
  BY <1>1, <1>2, LengthsKept, FlightsKept, UpstreamKept DEF IInv
<1>4. Configs' /\ ~Clean'
  BY <1>1 DEF IInv, Configs, Clean
<1> QED
  BY <1>2, <1>3, <1>4 DEF IInv

LEMMA FileKeeps ==
    ASSUME IInv, NEW p \in Panels, NEW next \in FileEdits, EditFile(p, next)
    PROVE  IInv'
<1>1. p \in Procs /\ p # Host /\ job[p].pc = "idle" /\ Finish(p) /\ file' = next /\ changed'
      /\ UNCHANGED <<features, overlay, base, snap, cache, flight>>
  BY Actors DEF EditFile, Begin, Finish, found
<1>2. /\ Jobs'
      /\ \A q \in Procs, m \in Tiered, a \in Accounts : Owed(q, m, a) => Owed(q, m, a)'
  BY <1>1, Finished DEF IInv
<1>3. Lengths' /\ Flights' /\ Upstream'
  BY <1>1, <1>2, LengthsKept, FlightsKept, UpstreamKept DEF IInv
<1>4. Configs' /\ ~Clean'
  BY <1>1, FileFits DEF IInv, Configs, Clean
<1> QED
  BY <1>2, <1>3, <1>4 DEF IInv

-----------------------------------------------------------------------------
(* commitFeatureRuntime. *)

LEMMA ReconfigureKeeps == ASSUME IInv, Reconfigure PROVE IInv'
<1> DEFINE j == [NoJob EXCEPT !.pc = "previous", !.next = file]
<1>1. Host \in Procs /\ job[Host].pc = "idle" /\ job' = [job EXCEPT ![Host] = j]
      /\ UNCHANGED <<file, features, overlay, base, snap, cache, flight>>
  BY Actors DEF Reconfigure, found
<1>2. /\ DOMAIN j = JobFields /\ j.pc = "previous" /\ j.overlay = NoOverlay /\ j.next = file
      /\ j.todo = {} /\ j.read = <<>>
  BY DEF NoJob, JobFields
<1> HIDE DEF j
<1>3. IsJob(Host, j)
  BY <1>2, PlainFits DEF IsJob, Committing, IInv, Configs
<1>4. Jobs' /\ job'[Host] = j
      /\ \A q \in Procs, n \in Tiered, a \in Accounts : Owed(q, n, a) => Owed(q, n, a)'
  BY <1>1, <1>3, NothingOwed, JobStep DEF IInv
<1>5. Lengths' /\ Flights' /\ Upstream' /\ Configs'
  BY <1>1, <1>4, LengthsKept, FlightsKept, UpstreamKept DEF IInv, Configs
<1>6. Carried'
  BY <1>1, <1>2, <1>4 DEF Carried
<1> QED
  BY <1>4, <1>5, <1>6 DEF IInv

\* Only the host's step can leave everybody through.
LEMMA HostStep ==
    ASSUME NEW p \in Procs, changed' = changed, unsaved' = unsaved,
           \A q \in Procs \ {p} : job'[q] = job[q],
           p # Host => job'[p].pc \notin {"idle", "done"}, Clean'
    PROVE  p = Host /\ Clean
<1>1. p = Host
  BY BusyPanel DEF Procs
<1>2. \A q \in Panels : job'[q] = job[q]
  BY <1>1, Actors
<1> QED
  BY <1>1, <1>2 DEF Clean, Settled

LEMMA PreviousKeeps ==
    ASSUME IInv, NEW p \in Procs, ReadPrevious(p)
    PROVE  IInv'
<1> DEFINE j == [job[p] EXCEPT !.pc = "hidden", !.prev = features]
<1>1. job[p].pc = "previous"
      /\ UNCHANGED <<file, changed, unsaved, features, overlay, base, snap, cache, flight>>
  BY DEF ReadPrevious, found
<1>2. DOMAIN job = Procs /\ IsJob(p, job[p])
  BY DEF IInv, Jobs
<1>3. job' = [job EXCEPT ![p] = j]
  BY <1>2 DEF ReadPrevious
<1>4. /\ DOMAIN j = JobFields /\ j.pc = "hidden" /\ j.next = job[p].next /\ j.todo = job[p].todo
      /\ j.read = job[p].read /\ j.overlay = job[p].overlay /\ j.id = job[p].id
  BY <1>2, Zenon DEF IsJob, JobFields
<1> HIDE DEF j
<1>5. IsJob(p, j)
  BY <1>1, <1>2, <1>4 DEF IsJob, Committing
<1>6. Jobs' /\ job'[p] = j /\ (\A q \in Procs \ {p} : job'[q] = job[q])
      /\ \A q \in Procs, n \in Tiered, a \in Accounts : Owed(q, n, a) => Owed(q, n, a)'
  BY <1>1, <1>3, <1>5, NothingOwed, JobStep DEF IInv
<1>7. Lengths' /\ Flights' /\ Upstream' /\ Configs'
  BY <1>1, <1>6, LengthsKept, FlightsKept, UpstreamKept DEF IInv, Configs
<1>8. ASSUME Clean' PROVE Carried'
  <2>1. p = Host /\ Clean
    BY <1>1, <1>4, <1>6, <1>8, HostStep
  <2> QED
    BY <1>1, <1>4, <1>6, <2>1 DEF IInv, Carried
<1> QED
  BY <1>6, <1>7, <1>8 DEF IInv

LEMMA HiddenKeeps ==
    ASSUME IInv, NEW p \in Procs, syncOverlayHiddenModels(p)
    PROVE  IInv'
<1>1. job[p].pc = "hidden" /\ overlay' = [overlay EXCEPT !.hide = job[p].next.hidden]
      /\ Move(p, "order")
      /\ UNCHANGED <<file, changed, unsaved, features, base, snap, cache, flight>>
  BY DEF syncOverlayHiddenModels, hiddenOf, found
<1>2. DOMAIN overlay = OverlayFields /\ IsConfig(job[p].next)
  BY DEF IInv, Configs, IsOverlay, Jobs, IsJob
<1>3. /\ DOMAIN overlay' = OverlayFields /\ overlay'.hide = job[p].next.hidden
      /\ overlay'.order = overlay.order /\ overlay'.add = overlay.add
  BY <1>1, <1>2, Zenon DEF OverlayFields
<1>4. /\ Jobs' /\ job'[p].pc = "order" /\ job'[p].next = job[p].next
      /\ \A q \in Procs \ {p} : job'[q] = job[q]
      /\ \A q \in Procs, n \in Tiered, a \in Accounts : Owed(q, n, a) => Owed(q, n, a)'
  BY <1>1, Moved DEF IInv, Committing
<1>5. Lengths' /\ Flights' /\ Upstream' /\ Configs'
  BY <1>1, <1>2, <1>3, <1>4, LengthsKept, FlightsKept, UpstreamKept
     DEF IInv, Configs, IsOverlay, IsConfig
<1>6. ASSUME Clean' PROVE Carried'
  <2>1. p = Host /\ Clean
    BY <1>1, <1>4, <1>6, HostStep
  <2> QED
    BY <1>1, <1>3, <1>4, <2>1 DEF IInv, Carried
<1> QED
  BY <1>4, <1>5, <1>6 DEF IInv

LEMMA OrderKeeps ==
    ASSUME IInv, NEW p \in Procs, syncOverlayModelOrder(p)
    PROVE  IInv'
<1>1. job[p].pc = "order" /\ overlay' = [overlay EXCEPT !.order = job[p].next.order]
      /\ Move(p, "commit")
      /\ UNCHANGED <<file, changed, unsaved, features, base, snap, cache, flight>>
  BY DEF syncOverlayModelOrder, found
<1>2. DOMAIN overlay = OverlayFields /\ IsConfig(job[p].next)
  BY DEF IInv, Configs, IsOverlay, Jobs, IsJob
<1>3. /\ DOMAIN overlay' = OverlayFields /\ overlay'.order = job[p].next.order
      /\ overlay'.hide = overlay.hide /\ overlay'.add = overlay.add
  BY <1>1, <1>2, Zenon DEF OverlayFields
<1>4. /\ Jobs' /\ job'[p].pc = "commit" /\ job'[p].next = job[p].next
      /\ \A q \in Procs \ {p} : job'[q] = job[q]
      /\ \A q \in Procs, n \in Tiered, a \in Accounts : Owed(q, n, a) => Owed(q, n, a)'
  BY <1>1, Moved DEF IInv, Committing
<1>5. Lengths' /\ Flights' /\ Upstream' /\ Configs'
  BY <1>1, <1>2, <1>3, <1>4, LengthsKept, FlightsKept, UpstreamKept
     DEF IInv, Configs, IsOverlay, IsConfig
<1>6. ASSUME Clean' PROVE Carried'
  <2>1. p = Host /\ Clean
    BY <1>1, <1>4, <1>6, HostStep
  <2> QED
    BY <1>1, <1>3, <1>4, <2>1 DEF IInv, Carried
<1> QED
  BY <1>4, <1>5, <1>6 DEF IInv

\* The commit itself: the tiers it knows to have changed are its to write.
LEMMA CommitKeeps ==
    ASSUME IInv, NEW p \in Procs, commitFeatureRuntime(p)
    PROVE  IInv'
<1> DEFINE prev == job[p].prev
           next == job[p].next
           known == IF onlyModelContextChanged(prev, next) THEN changedContextOverrides(prev, next)
                    ELSE {}
           j == [job[p] EXCEPT !.pc = "reapply", !.todo = known \X Accounts]
<1>1. job[p].pc = "commit" /\ features' = next /\ snap' = Missed(next, known)
      /\ UNCHANGED <<file, changed, unsaved, overlay, base, cache, flight>>
  BY DEF commitFeatureRuntime
<1>2. DOMAIN job = Procs /\ IsJob(p, job[p]) /\ known \subseteq Tiered
  BY DEF IInv, Jobs, changedContextOverrides
<1>3. job' = [job EXCEPT ![p].pc = "reapply", ![p].todo = known \X Accounts]
  BY DEF commitFeatureRuntime
<1> HIDE DEF known
<1>4. job' = [job EXCEPT ![p] = j]
  BY <1>2, <1>3
<1>5. /\ DOMAIN j = JobFields /\ j.pc = "reapply" /\ j.next = next
      /\ j.todo = known \X Accounts
      /\ j.read = job[p].read /\ j.overlay = job[p].overlay /\ j.id = job[p].id
  BY <1>2, Zenon DEF IsJob, JobFields
<1> HIDE DEF j
<1>6. IsJob(p, j)
  BY <1>1, <1>2, <1>5 DEF IsJob, Committing
<1>7. Jobs' /\ job'[p] = j /\ (\A q \in Procs \ {p} : job'[q] = job[q])
      /\ \A q \in Procs, n \in Tiered, a \in Accounts : Owed(q, n, a) => Owed(q, n, a)'
  BY <1>1, <1>4, <1>6, NothingOwed, JobStep DEF IInv
<1>8. \A m \in known, a \in Accounts : Owed(p, m, a)'
  BY <1>5, <1>7 DEF Owed
<1>9. Lengths'
  BY <1>1, <1>7, <1>8, Replaced DEF IInv
<1>10. Flights' /\ Upstream' /\ Configs'
  BY <1>1, <1>2, FlightsKept, UpstreamKept DEF IInv, Configs, IsJob
<1>11. ASSUME Clean' PROVE Carried'
  <2>1. p = Host /\ Clean
    BY <1>1, <1>5, <1>7, <1>11, HostStep
  <2> QED
    BY <1>1, <1>5, <1>7, <2>1 DEF IInv, Carried
<1> QED
  BY <1>7, <1>9, <1>10, <1>11 DEF IInv

LEMMA ReadKeeps ==
    ASSUME IInv, NEW p \in Procs, NEW m \in Tiered, NEW a \in Accounts, ReadTier(p, m, a)
    PROVE  IInv'
<1> DEFINE r == <<m, a, features.tier[m], base[m]>>
           j == [job[p] EXCEPT !.todo = @ \ {<<m, a>>}, !.read = r]
<1>1. job[p].pc \in {"reapply", "again"} /\ job[p].read = <<>>
      /\ UNCHANGED <<file, changed, unsaved, features, overlay, base, snap, cache, flight>>
  BY DEF ReadTier, Applying, found
<1>2. DOMAIN job = Procs /\ IsJob(p, job[p])
  BY DEF IInv, Jobs
<1>3. job' = [job EXCEPT ![p] = j]
  BY <1>2 DEF ReadTier
<1>4. IsRead(r) /\ r # <<>>
  BY DEF IsRead, IInv, Configs, IsConfig, Upstream
<1>5. r[1] = m /\ r[2] = a
  OBVIOUS
<1> HIDE DEF r
<1>6. /\ DOMAIN j = JobFields /\ j.pc = job[p].pc /\ j.next = job[p].next
      /\ j.todo = job[p].todo \ {<<m, a>>} /\ j.read = r
      /\ j.overlay = job[p].overlay /\ j.id = job[p].id
  BY <1>2, Zenon DEF IsJob, JobFields
<1> HIDE DEF j
<1>7. IsJob(p, j)
  BY <1>1, <1>2, <1>4, <1>6 DEF IsJob
<1>8. \A n \in Tiered, b \in Accounts :
        Owed(p, n, b) => \/ <<n, b>> \in j.todo
                         \/ j.read # <<>> /\ j.read[1] = n /\ j.read[2] = b
  BY <1>1, <1>4, <1>5, <1>6 DEF Owed
<1>9. Jobs' /\ job'[p] = j /\ (\A q \in Procs \ {p} : job'[q] = job[q])
      /\ \A q \in Procs, n \in Tiered, b \in Accounts : Owed(q, n, b) => Owed(q, n, b)'
  BY <1>3, <1>7, <1>8, JobStep DEF IInv
<1>10. Lengths' /\ Flights' /\ Upstream' /\ Configs'
  BY <1>1, <1>9, LengthsKept, FlightsKept, UpstreamKept DEF IInv, Configs
<1>11. ASSUME Clean' PROVE Carried'
  <2>1. p = Host /\ Clean
    BY <1>1, <1>6, <1>9, <1>11, HostStep
  <2> QED
    BY <1>1, <1>6, <1>9, <2>1 DEF IInv, Carried
<1> QED
  BY <1>9, <1>10, <1>11 DEF IInv

\* What is written is the tier that was read; if another is in force by now, or
\* there was nothing to write, the length is overtaken.
LEMMA WriteKeeps ==
    ASSUME IInv, NEW p \in Procs, WriteTier(p)
    PROVE  IInv'
<1> DEFINE r == job[p].read
           m == r[1]
           a == r[2]
           length == IF r[3] # NoTier THEN r[3] ELSE r[4]
           mark == IF r[3] # features.tier[m] \/ length = 0 THEN {m} ELSE {}
           s == [snap[a] EXCEPT
                   !.len = [id \in DOMAIN @ |-> IF id = m /\ length # 0 THEN length ELSE @[id]],
                   !.late = (@ \ {m}) \cup mark]
           j == [job[p] EXCEPT !.read = <<>>]
<1>1. /\ r # <<>> /\ DOMAIN job = Procs /\ IsJob(p, job[p])
      /\ DOMAIN snap = Accounts /\ \A b \in Accounts : DOMAIN snap[b] = SnapFields
      /\ UNCHANGED <<file, changed, unsaved, features, overlay, base, cache, flight>>
  BY DEF WriteTier, IInv, Jobs, Lengths
<1>2. IsRead(r) /\ m \in Tiered /\ a \in Accounts
  BY <1>1 DEF IsJob, IsRead
<1>3. snap' = [snap EXCEPT
               ![a].len = [id \in DOMAIN @ |-> IF id = m /\ length # 0 THEN length ELSE @[id]],
               ![a].late = (@ \ {m}) \cup mark]
  BY DEF WriteTier
<1>4. job' = [job EXCEPT ![p].read = <<>>]
  BY DEF WriteTier
<1>5. /\ job[p].pc \in {"reapply", "again"}
      /\ \A n, b : Owed(p, n, b) <=> <<n, b>> \in job[p].todo \/ (n = m /\ b = a)
  BY <1>1 DEF IsJob, Owed
<1>6. features.tier \in [Tiered -> Tiers]
  BY DEF IInv, Configs, IsConfig
<1>7. mark = {} => Agrees(length, features.tier[m]) /\ length # 0
  BY <1>2, <1>6, TierUnlikeLengths DEF IsRead, Agrees, Tiers, NoTier
<1>8. mark = {} \/ mark = {m}
  OBVIOUS
<1> HIDE DEF mark, length
<1>9. snap' = [snap EXCEPT ![a] = s]
  BY <1>1, <1>2, <1>3
<1>10. /\ DOMAIN s = SnapFields /\ s.late = (snap[a].late \ {m}) \cup mark
       /\ s.len = [id \in DOMAIN snap[a].len |-> IF id = m /\ length # 0 THEN length
                                                 ELSE snap[a].len[id]]
  BY <1>1, <1>2, Zenon DEF SnapFields
<1>11. /\ DOMAIN j = JobFields /\ j.pc = job[p].pc /\ j.next = job[p].next
       /\ j.todo = job[p].todo /\ j.read = <<>>
       /\ j.overlay = job[p].overlay /\ j.id = job[p].id
  BY <1>1, Zenon DEF IsJob, JobFields
<1>12. job' = [job EXCEPT ![p] = j]
  BY <1>1, <1>4
<1> HIDE DEF r, s, j
<1>13. IsJob(p, j)
  BY <1>1, <1>5, <1>11 DEF IsJob
<1>14. Jobs' /\ job'[p] = j /\ \A q \in Procs \ {p} : job'[q] = job[q]
  BY <1>1, <1>12, <1>13 DEF IInv, Jobs
<1>15. \A q \in Procs, n \in Tiered, b \in Accounts :
         Owed(q, n, b) => Owed(q, n, b)' \/ (n = m /\ b = a)
  <2> SUFFICES ASSUME NEW q \in Procs, NEW n \in Tiered, NEW b \in Accounts, Owed(q, n, b)
               PROVE  Owed(q, n, b)' \/ (n = m /\ b = a)
    OBVIOUS
  <2>1. CASE q = p
    BY <1>5, <1>11, <1>14, <2>1 DEF Owed
  <2>2. CASE q # p
    BY <1>14, <2>2 DEF Owed
  <2> QED
    BY <2>1, <2>2
<1>16. DOMAIN snap' = Accounts /\ snap'[a] = s /\ \A b \in Accounts \ {a} : snap'[b] = snap[b]
  BY <1>1, <1>2, <1>9
<1>17. ASSUME NEW b \in Accounts, NEW n \in Tiered \cap DOMAIN snap'[b].len,
              n \notin snap'[b].late
       PROVE  Agrees(snap'[b].len[n], features.tier[n]) \/ \E q \in Procs : Owed(q, n, b)'
  <2>1. CASE n = m /\ b = a
    <3>1. snap'[b].len[n] = IF length # 0 THEN length ELSE snap[a].len[m]
      BY <1>10, <1>16, <1>17, <2>1
    <3>2. mark = {}
      BY <1>8, <1>10, <1>16, <1>17, <2>1
    <3> QED
      BY <1>7, <2>1, <3>1, <3>2
  <2>2. CASE ~(n = m /\ b = a)
    <3>1. n \in Shown(b) /\ snap'[b].len[n] = snap[b].len[n]
      <4>1. CASE b = a
        BY <1>10, <1>16, <1>17, <2>2, <4>1 DEF Shown
      <4>2. CASE b # a
        BY <1>16, <1>17, <4>2 DEF Shown
      <4> QED
        BY <4>1, <4>2
    <3> QED
      BY <1>15, <2>2, <3>1 DEF IInv, Lengths
  <2> QED
    BY <2>1, <2>2
<1>18. Lengths'
  BY <1>1, <1>10, <1>16, <1>17 DEF Lengths, Shown
<1>19. Flights' /\ Upstream' /\ Configs'
  BY <1>1, FlightsKept, UpstreamKept DEF IInv, Configs
<1>20. ASSUME Clean' PROVE Carried'
  <2>1. p = Host /\ Clean
    BY <1>1, <1>5, <1>11, <1>14, <1>20, HostStep
  <2> QED
    BY <1>1, <1>11, <1>14, <2>1 DEF IInv, Carried
<1> QED
  BY <1>14, <1>18, <1>19, <1>20 DEF IInv

LEMMA ReappliedKeeps ==
    ASSUME IInv, NEW p \in Procs, Reapplied(p)
    PROVE  IInv'
<1>1. job[p].pc \in {"reapply", "again"} /\ job[p].todo = {} /\ job[p].read = <<>>
      /\ UNCHANGED <<file, changed, unsaved, features, overlay, base, snap, cache, flight>>
  BY DEF Reapplied, Applying, found
<1>2. DOMAIN job = Procs /\ IsJob(p, job[p])
  BY DEF IInv, Jobs
<1>3. PICK j : /\ IsJob(p, j) /\ job' = [job EXCEPT ![p] = j]
               /\ p = Host => j = NoJob
               /\ p # Host => j.pc \notin {"idle", "done"}
  <2>1. CASE p = Host
    <3>1. IsJob(p, NoJob)
      BY <2>1, PlainFits DEF IsJob, NoJob, JobFields, Committing
    <3> QED
      BY <2>1, <3>1 DEF Reapplied
  <2>2. CASE p # Host /\ job[p].pc = "reapply"
    <3> DEFINE j == [job[p] EXCEPT !.pc = "again", !.todo = {job[p].id} \X Accounts]
    <3>1. job' = [job EXCEPT ![p] = j]
      BY <1>2, <2>2 DEF Reapplied
    <3>2. /\ DOMAIN j = JobFields /\ j.pc = "again" /\ j.next = job[p].next
          /\ j.todo = {job[p].id} \X Accounts
          /\ j.read = job[p].read /\ j.overlay = job[p].overlay /\ j.id = job[p].id
      BY <1>2, Zenon DEF IsJob, JobFields
    <3>3. job[p].id \in Tiered
      BY <1>2, <2>2 DEF IsJob, Committing
    <3> HIDE DEF j
    <3>4. IsJob(p, j)
      BY <1>1, <1>2, <2>2, <3>2, <3>3 DEF IsJob, Committing
    <3> QED
      BY <2>2, <3>1, <3>2, <3>4
  <2>3. CASE p # Host /\ job[p].pc = "again"
    <3> DEFINE j == [job[p] EXCEPT !.pc = "save"]
    <3>1. job' = [job EXCEPT ![p] = j]
      BY <1>2, <2>3 DEF Reapplied
    <3>2. /\ DOMAIN j = JobFields /\ j.pc = "save" /\ j.next = job[p].next
          /\ j.todo = job[p].todo
          /\ j.read = job[p].read /\ j.overlay = job[p].overlay /\ j.id = job[p].id
      BY <1>2, Zenon DEF IsJob, JobFields
    <3> HIDE DEF j
    <3>3. IsJob(p, j)
      BY <1>1, <1>2, <2>3, <3>2 DEF IsJob, Committing
    <3> QED
      BY <2>3, <3>1, <3>2, <3>3
  <2> QED
    BY <1>1, <2>1, <2>2, <2>3
<1>4. \A n, b : ~Owed(p, n, b)
  BY <1>1 DEF Owed
<1>5. Jobs' /\ job'[p] = j /\ (\A q \in Procs \ {p} : job'[q] = job[q])
      /\ \A q \in Procs, n \in Tiered, b \in Accounts : Owed(q, n, b) => Owed(q, n, b)'
  BY <1>3, <1>4, JobStep DEF IInv
<1>6. Lengths' /\ Flights' /\ Upstream' /\ Configs'
  BY <1>1, <1>5, LengthsKept, FlightsKept, UpstreamKept DEF IInv, Configs
<1>7. ASSUME Clean' PROVE Carried'
  <2>1. p = Host /\ Clean
    BY <1>1, <1>3, <1>5, <1>7, HostStep
  <2>2. job[Host].pc = "reapply" /\ job'[Host].pc = "idle"
    BY <1>1, <1>2, <1>3, <1>5, <2>1 DEF IsJob, Committing, NoJob
  <2> QED
    BY <1>1, <2>1, <2>2 DEF IInv, Carried
<1> QED
  BY <1>5, <1>6, <1>7 DEF IInv

-----------------------------------------------------------------------------
(* Discovery. *)
\* What is built shows the tiers in force, and no length like a tier beside them.
LEMMA BuiltAgrees ==
    ASSUME IInv, NEW a \in Accounts, NEW state, NEW c, OwnLengths(c.models)
    PROVE  LET b == Built(a, state, c)
           IN  /\ DOMAIN b = SnapFields
               /\ \A m \in Tiered \cap DOMAIN b.len : Agrees(b.len[m], features.tier[m])
<1> DEFINE len == [id \in Named(c.models) |-> effectiveModelContext(id, Entry(c.models, id).ctx)]
<1>1. ASSUME NEW m \in Tiered, m \in Named(c.models)
      PROVE  Agrees(len[m], features.tier[m])
  <2>1. Entry(c.models, m).ctx # Tier /\ features.tier[m] \in Tiers
    BY <1>1 DEF OwnLengths, IInv, Configs, IsConfig
  <2> QED
    BY <1>1, <2>1, TierUnlikeLengths DEF effectiveModelContext, Agrees, Tiers
<1>2. DOMAIN len = Named(c.models)
  OBVIOUS
<1> HIDE DEF len
<1> DEFINE ids == IdsOf(c.models)
<1> HIDE DEF ids
<1>3. Built(a, state, c) =
        [NotStarted EXCEPT !.state = state, !.gen = flight[a].gen, !.realm = realmOf[a],
            !.at = c.at, !.models = ids, !.facts = c.models,
            !.promos = c.promos, !.len = len, !.of = c.of]
  BY DEF Built, len, ids
<1>4. DOMAIN Built(a, state, c) = SnapFields /\ Built(a, state, c).len = len
  BY <1>3, Zenon DEF NotStarted, SnapFields
<1> QED
  BY <1>1, <1>2, <1>4

\* Discovery leaves the configuration, the overlay and every job alone.
LEMMA CuratedKept ==
    ASSUME IInv, UNCHANGED curated
    PROVE  Jobs' /\ Configs' /\ (Clean' => Carried')
           /\ \A q \in Procs, m \in Tiered, a \in Accounts : Owed(q, m, a) => Owed(q, m, a)'
<1>1. UNCHANGED <<file, changed, unsaved, features, overlay, job>>
  BY DEF curated
<1>2. Jobs' /\ Configs'
  BY <1>1 DEF IInv, Jobs, Configs
<1>3. Clean' => Carried'
  BY <1>1 DEF IInv, Clean, Settled, Carried
<1>4. \A q \in Procs, m \in Tiered, a \in Accounts : Owed(q, m, a) => Owed(q, m, a)'
  BY <1>1 DEF Owed
<1> QED
  BY <1>2, <1>3, <1>4

\* One account's snapshot is replaced by another that shows the tiers in force.
LEMMA SnapReplaced ==
    ASSUME IInv, UNCHANGED curated, NEW a \in Accounts, NEW s, snap' = [snap EXCEPT ![a] = s],
           DOMAIN s = SnapFields,
           \A m \in (Tiered \cap DOMAIN s.len) \ s.late : Agrees(s.len[m], features.tier[m])
    PROVE  Lengths'
<1>1. DOMAIN snap = Accounts /\ features' = features
  BY DEF IInv, Lengths, curated
<1>2. DOMAIN snap' = Accounts /\ snap'[a] = s /\ \A b \in Accounts \ {a} : snap'[b] = snap[b]
  BY <1>1
<1>3. ASSUME NEW b \in Accounts
      PROVE  /\ DOMAIN snap'[b] = SnapFields
             /\ \A m \in (Tiered \cap DOMAIN snap'[b].len) \ snap'[b].late :
                  Agrees(snap'[b].len[m], features.tier[m]) \/ \E q \in Procs : Owed(q, m, b)'
  <2>1. CASE b = a
    BY <1>2, <2>1
  <2>2. CASE b # a
    BY <1>2, <2>2, CuratedKept DEF IInv, Lengths, Shown
  <2> QED
    BY <2>1, <2>2
<1> QED
  BY <1>1, <1>2, <1>3 DEF Lengths, Shown

\* One account's discovery moves on.
LEMMA FlightReplaced ==
    ASSUME Flights, NEW a \in Accounts, NEW f, flight' = [flight EXCEPT ![a] = f], IsFlight(f)
    PROVE  Flights'
  BY DEF Flights

LEMMA DiscoverKeeps == ASSUME IInv, NEW a \in Accounts, Discover(a) PROVE IInv'
<1> DEFINE s == [NotStarted EXCEPT !.state = "loading", !.gen = gen, !.realm = realmOf[a]]
           f == [NoFlight EXCEPT !.pc = "fetch", !.gen = gen, !.list = features.models]
<1>1. /\ snap' = [snap EXCEPT ![a] = s] /\ flight' = [flight EXCEPT ![a] = f]
      /\ UNCHANGED curated /\ UNCHANGED <<base, cache>>
  BY DEF Discover
<1>2. DOMAIN s = SnapFields /\ DOMAIN s.len = {}
  BY DEF NotStarted, SnapFields
<1>3. DOMAIN f = FlightFields /\ f.pc = "fetch" /\ f.list = features.models
  BY DEF NoFlight, FlightFields
<1> HIDE DEF s, f
<1>4. IsFlight(f)
  BY <1>3 DEF IsFlight, IInv, Configs, IsConfig
<1>5. Lengths'
  BY <1>1, <1>2, SnapReplaced
<1>6. Flights'
  BY <1>1, <1>4, FlightReplaced DEF IInv
<1> QED
  BY <1>1, <1>5, <1>6, CuratedKept, UpstreamKept DEF IInv

LEMMA ReadyKeeps ==
    ASSUME IInv, NEW a \in Accounts, NEW b, Ready(a, b), DOMAIN b = SnapFields,
           \A m \in Tiered \cap DOMAIN b.len : Agrees(b.len[m], features.tier[m])
    PROVE  Flights'
<1> DEFINE f == [flight[a] EXCEPT !.pc = "publish", !.tier = features.tier, !.built = b]
<1>1. DOMAIN flight = Accounts /\ IsFlight(flight[a])
  BY DEF IInv, Flights
<1>2. flight' = [flight EXCEPT ![a] = f]
  BY <1>1 DEF Ready
<1>3. /\ DOMAIN f = FlightFields /\ f.tier = features.tier /\ f.built = b
      /\ f.list = flight[a].list
  BY <1>1, Zenon DEF IsFlight, FlightFields
<1> HIDE DEF f
<1>4. IsFlight(f)
  BY <1>1, <1>3 DEF IsFlight, IInv, Configs, IsConfig
<1> QED
  BY <1>2, <1>4, FlightReplaced DEF IInv

LEMMA ListKeeps == ASSUME IInv, NEW a \in Accounts, UseList(a) PROVE IInv'
<1> DEFINE ids == flight[a].list
           models == [i \in DOMAIN ids |-> [id |-> ids[i], name |-> Blank, ctx |-> 0]]
           named_ == [models |-> models, promos |-> <<>>, at |-> 0, of |-> 0]
           b == Built(a, "ready", named_)
<1>1. /\ Ready(a, [b EXCEPT !.facts = <<>>])
      /\ UNCHANGED curated /\ UNCHANGED <<base, snap, cache>>
  BY DEF UseList
<1>2. DOMAIN models \subseteq Nat
  <2>1. ids \in Listed
    BY DEF IInv, Flights, IsFlight
  <2>2. CASE ids \in Lists
    BY <2>2, CurationConstants
  <2>3. CASE ids = <<>>
    BY <2>3
  <2> QED
    BY <2>1, <2>2, <2>3 DEF Listed
<1>3. ASSUME NEW id \in Named(models) PROVE Entry(models, id).ctx # Tier
  <2>1. PICK i \in DOMAIN models : Entry(models, id) = models[i]
    BY <1>2, EntryFound
  <2>2. models[i].ctx = 0
    BY <2>1
  <2> QED
    BY <2>1, <2>2, TierUnlikeLengths DEF NoTier
<1>4. OwnLengths(named_.models)
  BY <1>3 DEF OwnLengths
<1> HIDE DEF named_
<1>5. /\ DOMAIN b = SnapFields
      /\ \A m \in Tiered \cap DOMAIN b.len : Agrees(b.len[m], features.tier[m])
  BY <1>4, BuiltAgrees
<1> HIDE DEF b
<1>6. DOMAIN [b EXCEPT !.facts = <<>>] = SnapFields /\ [b EXCEPT !.facts = <<>>].len = b.len
  BY <1>5, Zenon DEF SnapFields
<1>7. Flights'
  BY <1>1, <1>5, <1>6, ReadyKeeps
<1>8. Jobs' /\ Configs' /\ (Clean' => Carried')
      /\ \A q \in Procs, m \in Tiered, c \in Accounts : Owed(q, m, c) => Owed(q, m, c)'
  BY <1>1, CuratedKept
<1>9. Lengths' /\ Upstream'
  BY <1>1, <1>8, LengthsKept, UpstreamKept DEF IInv, curated
<1> QED
  BY <1>7, <1>8, <1>9 DEF IInv

LEMMA FetchKeeps ==
    ASSUME IInv, NEW a \in Accounts, NEW n \in DOMAIN Answers, Fetch(a, n)
    PROVE  IInv'
<1> DEFINE got == fetchWorkBuddyCatalog(Answers[n])
           c == IF got.models # Error
                THEN [models |-> got.models, promos |-> got.promos, at |-> now, of |-> n]
                ELSE cache[a]
           state == IF got.models # Error THEN "ready"
                    ELSE IF c # NoCache THEN "stale" ELSE "failed"
<1>1. OwnLengths(got.models)
  BY TierUnlikeLengths DEF OwnLengths
<1> HIDE DEF got
<1>2. OwnLengths(c.models)
  BY <1>1 DEF IInv, Upstream
<1>3. /\ cache' = [cache EXCEPT ![a] = c] /\ base' = FirstLength(c)
      /\ Ready(a, Built(a, state, c)) /\ UNCHANGED curated /\ snap' = snap
  BY DEF Fetch, got
<1> HIDE DEF c, state
<1>4. Flights'
  BY <1>2, <1>3, BuiltAgrees, ReadyKeeps
<1>5. \A m \in Tiered : base'[m] # Tier
  BY <1>2, <1>3 DEF FirstLength, OwnLengths, IInv, Upstream
<1>6. Upstream'
  BY <1>2, <1>3, <1>5 DEF IInv, Upstream
<1>7. Jobs' /\ Configs' /\ (Clean' => Carried')
      /\ \A q \in Procs, m \in Tiered, b \in Accounts : Owed(q, m, b) => Owed(q, m, b)'
  BY <1>3, CuratedKept
<1>8. Lengths'
  BY <1>3, <1>7, LengthsKept DEF IInv, curated
<1> QED
  BY <1>4, <1>6, <1>7, <1>8 DEF IInv

LEMMA PublishKeeps == ASSUME IInv, NEW a \in Accounts, Publish(a) PROVE IInv'
<1> DEFINE lost == {m \in Tiered : flight[a].tier[m] # features.tier[m]}
           b == flight[a].built
           s == [b EXCEPT !.late = lost]
<1>1. /\ flight[a].pc = "publish" /\ flight' = [flight EXCEPT ![a] = NoFlight]
      /\ snap' = IF flight[a].gen = gen THEN [snap EXCEPT ![a] = s] ELSE snap
      /\ UNCHANGED curated /\ UNCHANGED <<base, cache>>
  BY DEF Publish
<1>2. /\ DOMAIN b = SnapFields
      /\ \A m \in Tiered \cap DOMAIN b.len : Agrees(b.len[m], flight[a].tier[m])
  BY <1>1 DEF IInv, Flights, IsFlight
<1>3. DOMAIN s = SnapFields /\ s.len = b.len /\ s.late = lost
  <2> HIDE DEF b, lost
  <2> QED
    BY <1>2, Zenon DEF SnapFields
<1> HIDE DEF s
<1>4. \A m \in (Tiered \cap DOMAIN s.len) \ s.late : Agrees(s.len[m], features.tier[m])
  BY <1>2, <1>3
<1>5. Jobs' /\ Configs' /\ (Clean' => Carried')
      /\ \A q \in Procs, m \in Tiered, c \in Accounts : Owed(q, m, c) => Owed(q, m, c)'
  BY <1>1, CuratedKept
<1>6. Lengths'
  <2>1. CASE flight[a].gen = gen
    BY <1>1, <1>3, <1>4, <2>1, SnapReplaced
  <2>2. CASE flight[a].gen # gen
    BY <1>1, <1>5, <2>2, LengthsKept DEF IInv, curated
  <2> QED
    BY <2>1, <2>2
<1>7. IsFlight(NoFlight)
  BY DEF IsFlight, NoFlight, FlightFields, Listed
<1>8. Flights' /\ Upstream'
  BY <1>1, <1>7, FlightReplaced, UpstreamKept DEF IInv
<1> QED
  BY <1>5, <1>6, <1>8 DEF IInv

-----------------------------------------------------------------------------
LEMMA NextKeeps == ASSUME IInv, [Next]_vars PROVE IInv'
<1>1. ASSUME NEW p \in Panels, PanelStep(p) PROVE IInv'
  <2>1. ASSUME NEW id \in Touched \cap Offered,
               BeginEdit(p, IF id \in overlay.hide THEN "restore" ELSE "hide", id)
        PROVE  IInv'
    BY <2>1, EditKeeps
  <2>2. ASSUME NEW kind \in {"add", "reset"}, BeginEdit(p, kind, Custom) PROVE IInv'
    BY <2>2, EditKeeps
  <2>3. ASSUME NEW m \in Tiered, NEW v \in {NoTier, Tier}, BeginTier(p, m, v) PROVE IInv'
    BY <2>3, TierKeeps
  <2>4. ASSUME NEW next \in FileEdits, EditFile(p, next) PROVE IInv'
    BY <2>4, FileKeeps
  <2> QED
    BY <1>1, <2>1, <2>2, <2>3, <2>4, StoreKeeps, CopyKeeps, SyncKeeps, SaveKeeps, LossKeeps
       DEF PanelStep
<1>2. ASSUME NEW p \in Panels \cup {Host}, CommitStep(p) PROVE IInv'
  <2>1. p \in Procs
    BY DEF Procs
  <2> QED
    BY <1>2, <2>1, PreviousKeeps, HiddenKeeps, OrderKeeps, CommitKeeps, ReadKeeps, WriteKeeps,
       ReappliedKeeps DEF CommitStep
<1>3. ASSUME NEW a \in Accounts,
             Discover(a) \/ UseList(a) \/ Publish(a) \/ \E n \in DOMAIN Answers : Fetch(a, n)
      PROVE  IInv'
  BY <1>3, DiscoverKeeps, ListKeeps, PublishKeeps, FetchKeeps
<1>4. CASE UNCHANGED vars
  <2>1. UNCHANGED curated /\ UNCHANGED <<base, snap, cache, flight>>
    BY <1>4 DEF vars, curated
  <2>2. Jobs' /\ Configs' /\ (Clean' => Carried')
        /\ \A q \in Procs, m \in Tiered, c \in Accounts : Owed(q, m, c) => Owed(q, m, c)'
    BY <2>1, CuratedKept
  <2> QED
    BY <2>1, <2>2, LengthsKept, FlightsKept, UpstreamKept DEF IInv, curated
<1> QED
  BY <1>1, <1>2, <1>3, <1>4, ReconfigureKeeps DEF Next

\* The configurations, the jobs and the lengths stay as IInv says while panels,
\* reconfigurations (commitFeatureRuntime) and discoveries interleave: a length that
\* does not show the tier in force is marked `late` or still owed by some commit.
THEOREM Carrying == Spec => []IInv
<1>1. Init => IInv
  BY InitFits
<1>2. IInv /\ [Next]_vars => IInv'
  BY NextKeeps
<1> QED
  BY <1>1, <1>2, PTL DEF Spec

LEMMA InvRules == IInv => ConfigRules
<1> SUFFICES ASSUME IInv, Quiet PROVE
        /\ features = file
        /\ overlay.hide = file.hidden /\ overlay.order = file.order
        /\ \A a \in Accounts : \A m \in (Tiered \cap DOMAIN visible[a].len) \ visible[a].late :
             IF file.tier[m] # NoTier THEN visible[a].len[m] = file.tier[m]
             ELSE visible[a].len[m] # Tier
  BY DEF ConfigRules
<1>1. Clean /\ Carried
  BY Actors DEF Quiet, Clean, Settled, IInv, Procs
<1>2. job[Host].pc = "idle"
  BY Actors DEF Quiet, IInv, Jobs, IsJob, Committing
<1>3. features = file /\ overlay.hide = file.hidden /\ overlay.order = file.order
  BY <1>1, <1>2 DEF Carried
<1>4. \A p \in Procs : \A m, a : ~Owed(p, m, a)
  <2>1. \A p \in Procs : job[p].pc \in {"idle", "done"}
    BY DEF Quiet, Procs
  <2> QED
    BY <2>1, NothingOwed DEF IInv
<1>5. ASSUME NEW a \in Accounts, NEW m \in (Tiered \cap DOMAIN visible[a].len) \ visible[a].late
      PROVE  IF file.tier[m] # NoTier THEN visible[a].len[m] = file.tier[m]
             ELSE visible[a].len[m] # Tier
  <2>1. visible[a] = IF snap[a].gen = gen THEN snap[a] ELSE NotStarted
    BY DEF visible
  <2>2. DOMAIN NotStarted.len = {}
    BY DEF NotStarted
  <2>3. visible[a] = snap[a]
    BY <1>5, <2>1, <2>2
  <2>4. m \in Shown(a)
    BY <1>5, <2>3 DEF Shown
  <2>5. Agrees(visible[a].len[m], file.tier[m]) /\ file.tier[m] \in Tiers
    BY <1>3, <1>4, <1>5, <2>3, <2>4 DEF IInv, Lengths, Configs, IsConfig
  <2> QED
    BY <2>5, TierUnlikeLengths DEF Agrees, Tiers
<1> QED
  BY <1>3, <1>5

\* Once every change is saved and applied, the host's file rules the configuration,
\* the overlay and the published lengths (syncHiddenModelsConfig,
\* commitFeatureRuntime, reapplyModelContextSnapshots), however many panels there are.
THEOREM RulesInForce == Spec => []ConfigRules
  BY Carrying, InvRules, PTL

-----------------------------------------------------------------------------
(* What the snapshots and the persisted catalogs hold.                      *)

\* An executable snapshot lists the facts it carries, if any; one that comes from an
\* answer of the desktop identity owes it all of it.
Sound(a, s) ==
    /\ s.at \in Nat /\ s.facts \in Seq(Fact) /\ s.promos \in Seq(WireCampaign)
    /\ s.models \in Seq(STRING)
    /\ executable(s) => s.models # <<>> /\ s.realm = realmOf[a]
    /\ s.facts # <<>> => executable(s) /\ s.models = IdsOf(s.facts)
    /\ s.of # 0 =>
         /\ s.of \in DOMAIN Answers
         /\ Answers[s.of].desktop.status = "ok" =>
              Complete(Answers[s.of], s.models, s.facts, s.promos)

\* A persisted catalog.
Fetched(c) ==
    /\ c.at \in Nat /\ c.models \in Seq(Fact) /\ c.models # <<>> /\ c.promos \in Seq(WireCampaign)
    /\ c.of \in DOMAIN Answers
    /\ Answers[c.of].desktop.status = "ok" =>
         Complete(Answers[c.of], IdsOf(c.models), c.models, c.promos)

Discoveries ==
    /\ now \in Nat /\ realmOf \in [Accounts -> Realms]
    /\ \A a \in Accounts : Sound(a, snap[a])
    /\ \A a \in Accounts : flight[a].pc = "publish" => Sound(a, flight[a].built)
    /\ \A a \in Accounts : cache[a] = NoCache \/ Fetched(cache[a])

\* Sound reads these fields alone.
LEMMA SameSound ==
    ASSUME NEW a, NEW s, NEW t, Sound(a, s), UNCHANGED realmOf,
           t.at = s.at, t.facts = s.facts, t.promos = s.promos, t.models = s.models,
           t.state = s.state, t.realm = s.realm, t.of = s.of
    PROVE  Sound(a, t)'
  BY DEF Sound, executable

LEMMA Unloaded ==
    ASSUME NEW a, NEW s, s.at = 0, s.facts = <<>>, s.promos = <<>>, s.models = <<>>, s.of = 0,
           s.state \notin Executable
    PROVE  Sound(a, s) /\ Sound(a, s)'
<1>1. <<>> \in Seq(Fact) /\ <<>> \in Seq(WireCampaign) /\ <<>> \in Seq(STRING) /\ 0 \in Nat
  OBVIOUS
<1> QED
  BY <1>1 DEF Sound, executable

LEMMA InitSound == Init => Discoveries
<1> SUFFICES ASSUME Init PROVE Discoveries
  OBVIOUS
<1>1. /\ NotStarted.at = 0 /\ NotStarted.facts = <<>> /\ NotStarted.promos = <<>>
      /\ NotStarted.models = <<>> /\ NotStarted.of = 0 /\ NotStarted.state = "not_started"
  BY DEF NotStarted
<1>2. \A a : Sound(a, NotStarted)
  BY <1>1, Unloaded DEF Executable
<1>3. \A a \in Accounts : snap[a] = NotStarted /\ flight[a].pc = "none" /\ cache[a] = NoCache
  BY DEF Init, NoFlight
<1>4. now \in Nat /\ realmOf \in [Accounts -> Realms]
  BY CurationConstants DEF Init
<1> QED
  BY <1>2, <1>3, <1>4 DEF Discoveries

\* A step of the curation leaves what was discovered alone, lengths excepted.
LEMMA OnlyLengths ==
    ASSUME Discoveries, UNCHANGED <<realmOf, cache, flight, now>>,
           \A a \in Accounts :
             /\ snap'[a].at = snap[a].at /\ snap'[a].facts = snap[a].facts
             /\ snap'[a].promos = snap[a].promos /\ snap'[a].models = snap[a].models
             /\ snap'[a].state = snap[a].state /\ snap'[a].realm = snap[a].realm
             /\ snap'[a].of = snap[a].of
    PROVE  Discoveries'
<1>1. ASSUME NEW a \in Accounts PROVE Sound(a, snap[a])'
  <2>1. Sound(a, snap[a]) /\ UNCHANGED realmOf
    BY DEF Discoveries
  <2> QED
    BY <2>1, SameSound
<1>2. ASSUME NEW a \in Accounts, flight[a].pc = "publish" PROVE Sound(a, flight[a].built)'
  <2>1. Sound(a, flight[a].built) /\ UNCHANGED <<realmOf, flight>>
    BY <1>2 DEF Discoveries
  <2> QED
    BY <2>1, SameSound
<1>3. \A a \in Accounts : cache'[a] = NoCache \/ Fetched(cache'[a])
  BY DEF Discoveries
<1> QED
  BY <1>1, <1>2, <1>3 DEF Discoveries

LEMMA NothingFound ==
    ASSUME Discoveries, UNCHANGED <<realmOf, cache, flight, now, snap>>
    PROVE  Discoveries'
  BY OnlyLengths

LEMMA MissedSound ==
    ASSUME IInv, Discoveries, NEW next, NEW known, snap' = Missed(next, known),
           UNCHANGED <<realmOf, cache, flight, now>>
    PROVE  Discoveries'
<1> DEFINE lost == changedContextOverrides(features, next) \ known
<1>1. ASSUME NEW a \in Accounts
      PROVE  /\ snap'[a].at = snap[a].at /\ snap'[a].facts = snap[a].facts
             /\ snap'[a].promos = snap[a].promos /\ snap'[a].models = snap[a].models
             /\ snap'[a].state = snap[a].state /\ snap'[a].realm = snap[a].realm
             /\ snap'[a].of = snap[a].of
  <2>1. snap'[a] = [snap[a] EXCEPT !.late = @ \cup lost]
    BY DEF Missed
  <2>2. DOMAIN snap[a] = SnapFields
    BY DEF IInv, Lengths
  <2> HIDE DEF lost
  <2> QED
    BY <2>1, <2>2, Zenon DEF SnapFields
<1> QED
  BY <1>1, OnlyLengths

LEMMA TierSound ==
    ASSUME IInv, Discoveries, NEW p \in Procs, WriteTier(p)
    PROVE  Discoveries'
<1> DEFINE m == job[p].read[1]
           a == job[p].read[2]
           tier == job[p].read[3]
           length == IF tier # NoTier THEN tier ELSE job[p].read[4]
           len == [id \in DOMAIN snap[a].len |-> IF id = m /\ length # 0 THEN length
                                                 ELSE snap[a].len[id]]
           late == (snap[a].late \ {m}) \cup (IF tier # features.tier[m] \/ length = 0 THEN {m} ELSE {})
           s == [snap[a] EXCEPT !.len = len, !.late = late]
<1>1. UNCHANGED <<realmOf, cache, flight, now>>
  BY DEF WriteTier
<1>2. a \in Accounts
  BY DEF WriteTier, IInv, Jobs, IsJob, IsRead
<1>3. DOMAIN snap = Accounts /\ \A b \in Accounts : DOMAIN snap[b] = SnapFields
  BY DEF IInv, Lengths
<1>4. snap' = [snap EXCEPT ![a] = s]
  <2>1. snap' = [snap EXCEPT
               ![a].len = [id \in DOMAIN @ |-> IF id = m /\ length # 0 THEN length ELSE @[id]],
               ![a].late = (@ \ {m}) \cup (IF tier # features.tier[m] \/ length = 0 THEN {m} ELSE {})]
    BY DEF WriteTier
  <2> HIDE DEF m, a, tier, length
  <2> QED
    BY <1>2, <1>3, <2>1
<1> HIDE DEF len, late
<1>5. /\ s.at = snap[a].at /\ s.facts = snap[a].facts /\ s.promos = snap[a].promos
      /\ s.models = snap[a].models /\ s.state = snap[a].state /\ s.realm = snap[a].realm
      /\ s.of = snap[a].of
  BY <1>2, <1>3, Zenon DEF SnapFields
<1> HIDE DEF s, a
<1>6. snap'[a] = s /\ \A b \in Accounts \ {a} : snap'[b] = snap[b]
  BY <1>2, <1>3, <1>4
<1>7. \A b \in Accounts : b = a \/ b \in Accounts \ {a}
  OBVIOUS
<1> QED
  BY <1>1, <1>5, <1>6, <1>7, OnlyLengths

\* The panels' and the host's steps.
LEMMA CurationSound ==
    ASSUME IInv, Discoveries,
           (\E p \in Panels : PanelStep(p)) \/ Reconfigure \/ \E p \in Procs : CommitStep(p)
    PROVE  Discoveries'
<1>1. ASSUME NEW p \in Panels, PanelStep(p) PROVE Discoveries'
  <2>1. CASE syncHiddenModelsConfig(p)
    <3>1. snap' = Missed(job[p].next, {}) /\ UNCHANGED <<realmOf, cache, flight, now>>
      BY <2>1 DEF syncHiddenModelsConfig
    <3> QED
      BY <3>1, MissedSound
  <2>2. CASE ~syncHiddenModelsConfig(p)
    <3>1. UNCHANGED <<realmOf, cache, flight, now, snap>>
      BY <1>1, <2>2, Zenon
         DEF PanelStep, BeginEdit, storeModelOverlay, CopyFeatures, BeginTier, SaveConfig, SaveLost,
             EditFile, found
    <3> QED
      BY <3>1, NothingFound
  <2> QED
    BY <2>1, <2>2
<1>2. ASSUME Reconfigure PROVE Discoveries'
  BY <1>2, NothingFound DEF Reconfigure, found
<1>3. ASSUME NEW p \in Procs, CommitStep(p) PROVE Discoveries'
  <2>1. CASE commitFeatureRuntime(p)
    <3>1. \E known : snap' = Missed(job[p].next, known)
      BY <2>1 DEF commitFeatureRuntime
    <3>2. UNCHANGED <<realmOf, cache, flight, now>>
      BY <2>1 DEF commitFeatureRuntime
    <3> QED
      BY <3>1, <3>2, MissedSound
  <2>2. CASE WriteTier(p)
    BY <2>2, TierSound
  <2>3. CASE ~commitFeatureRuntime(p) /\ ~WriteTier(p)
    <3>1. UNCHANGED <<realmOf, cache, flight, now, snap>>
      BY <1>3, <2>3, Zenon
         DEF CommitStep, ReadPrevious, syncOverlayHiddenModels, syncOverlayModelOrder, Reapplied,
             ReadTier, found
    <3> QED
      BY <3>1, NothingFound
  <2> QED
    BY <2>1, <2>2, <2>3
<1> QED
  BY <1>1, <1>2, <1>3

\* One account's discovery step.
LEMMA OneDiscovery ==
    ASSUME IInv, Discoveries, NEW a \in Accounts, NEW s, NEW f, NEW c,
           snap' = snap \/ (snap' = [snap EXCEPT ![a] = s] /\ Sound(a, s)),
           cache' = cache \/ (cache' = [cache EXCEPT ![a] = c] /\ (c = NoCache \/ Fetched(c))),
           flight' = [flight EXCEPT ![a] = f], f.pc = "publish" => Sound(a, f.built),
           now' \in Nat, UNCHANGED realmOf
    PROVE  Discoveries'
<1>1. DOMAIN snap = Accounts /\ DOMAIN flight = Accounts /\ DOMAIN cache = Accounts
  BY DEF IInv, Lengths, Flights, Upstream
<1>2. \A b \in Accounts : Sound(b, snap[b])'
  <2>1. \A b \in Accounts : snap'[b] = snap[b] \/ (b = a /\ snap'[b] = s /\ Sound(b, s))
    BY <1>1
  <2>2. \A b \in Accounts : Sound(b, snap'[b])
    BY <2>1 DEF Discoveries
  <2> QED
    BY <2>2 DEF Sound
<1>3. \A b \in Accounts : flight'[b].pc = "publish" => Sound(b, flight[b].built)'
  <2>1. \A b \in Accounts : flight'[b] = flight[b] \/ (b = a /\ flight'[b] = f)
    BY <1>1
  <2>2. \A b \in Accounts : flight'[b].pc = "publish" => Sound(b, flight'[b].built)
    BY <2>1 DEF Discoveries
  <2> QED
    BY <2>2 DEF Sound
<1>4. \A b \in Accounts : cache'[b] = NoCache \/ Fetched(cache'[b])
  <2>1. \A b \in Accounts : cache'[b] = cache[b] \/ cache'[b] = NoCache \/ Fetched(cache'[b])
    BY <1>1
  <2> QED
    BY <2>1 DEF Discoveries
<1> QED
  BY <1>2, <1>3, <1>4 DEF Discoveries

\* The fields of what a discovery has built.
LEMMA BuiltFields ==
    ASSUME NEW a, NEW state, NEW c
    PROVE  LET b == Built(a, state, c)
           IN  /\ DOMAIN b = SnapFields
               /\ b.state = state /\ b.realm = realmOf[a] /\ b.at = c.at /\ b.models = IdsOf(c.models)
               /\ b.facts = c.models /\ b.promos = c.promos /\ b.of = c.of
<1> DEFINE len == [id \in Named(c.models) |-> effectiveModelContext(id, Entry(c.models, id).ctx)]
<1>1. Built(a, state, c) =
        [state |-> state, gen |-> flight[a].gen, realm |-> realmOf[a], at |-> c.at,
         models |-> IdsOf(c.models), facts |-> c.models, promos |-> c.promos, len |-> len,
         of |-> c.of, late |-> {}]
  <2> HIDE DEF len
  <2>1. Built(a, state, c) = [NotStarted EXCEPT !.state = state, !.gen = flight[a].gen,
            !.realm = realmOf[a], !.at = c.at, !.models = IdsOf(c.models), !.facts = c.models,
            !.promos = c.promos, !.len = len, !.of = c.of]
    BY DEF Built, len
  <2> QED
    BY <2>1 DEF NotStarted
<1> HIDE DEF len
<1>2. DOMAIN Built(a, state, c) = SnapFields
  BY <1>1 DEF SnapFields
<1> QED
  BY <1>1, <1>2

\* A catalog makes an executable snapshot that owes what the catalog does.
LEMMA BuiltSound ==
    ASSUME NEW a, NEW state \in Executable, NEW c, Fetched(c)
    PROVE  Sound(a, Built(a, state, c))
<1> DEFINE b == Built(a, state, c)
<1>1. /\ b.state = state /\ b.realm = realmOf[a] /\ b.at = c.at /\ b.models = IdsOf(c.models)
      /\ b.facts = c.models /\ b.promos = c.promos /\ b.of = c.of
  BY BuiltFields
<1>2. c.models \in Seq(Fact) /\ c.models # <<>>
  BY DEF Fetched
<1>3. IdsOf(c.models) \in Seq(STRING) /\ Len(IdsOf(c.models)) = Len(c.models)
  BY <1>2, IdsOfFacts
<1>4. IdsOf(c.models) # <<>>
  <2>1. Len(c.models) # 0
    BY <1>2
  <2> QED
    BY <1>3, <2>1
<1>5. /\ c.at \in Nat /\ c.promos \in Seq(WireCampaign) /\ c.of \in DOMAIN Answers
      /\ Answers[c.of].desktop.status = "ok" =>
           Complete(Answers[c.of], IdsOf(c.models), c.models, c.promos)
  BY DEF Fetched
<1> HIDE DEF b
<1> QED
  BY <1>1, <1>2, <1>3, <1>4, <1>5 DEF Sound, executable, b

LEMMA FailedSound ==
    ASSUME NEW a
    PROVE  Sound(a, Built(a, "failed", NoCache))
<1> DEFINE b == Built(a, "failed", NoCache)
<1>1. /\ b.state = "failed" /\ b.at = NoCache.at /\ b.models = IdsOf(NoCache.models)
      /\ b.facts = NoCache.models /\ b.promos = NoCache.promos /\ b.of = NoCache.of
  BY BuiltFields
<1>2. NoCache.at = 0 /\ NoCache.models = <<>> /\ NoCache.promos = <<>> /\ NoCache.of = 0
  BY DEF NoCache, Error
<1>3. IdsOf(<<>>) = <<>>
  BY DEF IdsOf
<1> HIDE DEF b
<1> QED
  BY <1>1, <1>2, <1>3, Unloaded DEF Executable, b

LEMMA DiscoverSound ==
    ASSUME IInv, Discoveries, NEW a \in Accounts, Discover(a)
    PROVE  Discoveries'
<1> DEFINE s == [NotStarted EXCEPT !.state = "loading", !.gen = gen, !.realm = realmOf[a]]
           f == [NoFlight EXCEPT !.pc = "fetch", !.gen = gen, !.list = features.models]
<1>1. /\ snap' = [snap EXCEPT ![a] = s] /\ flight' = [flight EXCEPT ![a] = f]
      /\ cache' = cache /\ now' = now + 1 /\ UNCHANGED realmOf
  BY DEF Discover, curated
<1>2. /\ s.at = 0 /\ s.facts = <<>> /\ s.promos = <<>> /\ s.models = <<>> /\ s.of = 0
      /\ s.state = "loading"
  BY DEF NotStarted
<1>3. f.pc = "fetch"
  BY DEF NoFlight
<1> HIDE DEF s, f
<1>4. Sound(a, s)
  BY <1>2, Unloaded DEF Executable
<1>5. now' \in Nat
  BY <1>1 DEF Discoveries
<1> QED
  BY <1>1, <1>3, <1>4, <1>5, OneDiscovery

LEMMA ReadySound ==
    ASSUME IInv, Discoveries, NEW a \in Accounts, NEW b, NEW c, Ready(a, b), Sound(a, b),
           cache' = cache \/ (cache' = [cache EXCEPT ![a] = c] /\ (c = NoCache \/ Fetched(c))),
           snap' = snap,
           UNCHANGED <<realmOf, now>>
    PROVE  Discoveries'
<1> DEFINE f == [flight[a] EXCEPT !.pc = "publish", !.tier = features.tier, !.built = b]
<1>1. DOMAIN flight = Accounts /\ DOMAIN flight[a] = FlightFields /\ DOMAIN snap = Accounts
  BY DEF IInv, Flights, IsFlight, Lengths
<1>2. flight' = [flight EXCEPT ![a] = f]
  BY <1>1 DEF Ready
<1>3. f.built = b
  BY <1>1, Zenon DEF FlightFields
<1>4. now' \in Nat
  BY DEF Discoveries
<1> HIDE DEF f
<1> QED
  BY <1>2, <1>3, <1>4, OneDiscovery

LEMMA ListSound ==
    ASSUME IInv, Discoveries, NEW a \in Accounts, UseList(a)
    PROVE  Discoveries'
<1> DEFINE ids == flight[a].list
           models == [i \in DOMAIN ids |-> [id |-> ids[i], name |-> Blank, ctx |-> 0]]
           named_ == [models |-> models, promos |-> <<>>, at |-> 0, of |-> 0]
           b == Built(a, "ready", named_)
           s == [b EXCEPT !.facts = <<>>]
<1>1. Ready(a, s) /\ ids # <<>> /\ UNCHANGED <<realmOf, cache, now, snap>>
  BY DEF UseList, curated
<1>2. ids \in Seq(STRING)
  <2>1. ids \in Listed
    BY DEF IInv, Flights, IsFlight
  <2> QED
    BY <1>1, <2>1, CurationConstants DEF Listed
<1>3. /\ DOMAIN b = SnapFields /\ b.state = "ready" /\ b.realm = realmOf[a] /\ b.at = named_.at
      /\ b.models = IdsOf(named_.models) /\ b.promos = named_.promos /\ b.of = named_.of
  BY BuiltFields
<1>4. named_.at = 0 /\ named_.models = models /\ named_.promos = <<>> /\ named_.of = 0
  OBVIOUS
<1>5. IdsOf(models) = ids
  <2>1. IdsOf(models) = [i \in DOMAIN ids |-> ids[i]]
    BY DEF IdsOf
  <2> QED
    BY <1>2, <2>1
<1> HIDE DEF b, named_, models
<1>6. /\ s.state = b.state /\ s.realm = b.realm /\ s.at = b.at /\ s.models = b.models
      /\ s.promos = b.promos /\ s.of = b.of /\ s.facts = <<>>
  BY <1>3, Zenon DEF SnapFields
<1> HIDE DEF s, ids
<1>7. <<>> \in Seq(Fact) /\ <<>> \in Seq(WireCampaign) /\ 0 \in Nat
  OBVIOUS
<1>8. Sound(a, s)
  BY <1>1, <1>2, <1>3, <1>4, <1>5, <1>6, <1>7 DEF Sound, executable, Executable
<1> QED
  BY <1>1, <1>8, ReadySound

LEMMA FetchSound ==
    ASSUME IInv, Discoveries, NEW a \in Accounts, NEW n \in DOMAIN Answers, Fetch(a, n)
    PROVE  Discoveries'
<1> DEFINE answer == Answers[n]
           got == fetchWorkBuddyCatalog(answer)
           fresh == [models |-> got.models, promos |-> got.promos, at |-> now, of |-> n]
           c == IF got.models # Error THEN fresh ELSE cache[a]
           state == IF got.models # Error THEN "ready"
                    ELSE IF c # NoCache THEN "stale" ELSE "failed"
<1>1. /\ cache' = [cache EXCEPT ![a] = c] /\ Ready(a, Built(a, state, c))
      /\ UNCHANGED <<realmOf, now, snap>>
  BY DEF Fetch, curated
<1>2. answer \in Replies
  <2>1. Answers \in Seq(Replies)
    BY CurationConstants, Zenon DEF Replies
  <2> QED
    BY <2>1
<1>3. cache[a] = NoCache \/ Fetched(cache[a])
  BY DEF Discoveries
<1>4. ASSUME got.models # Error PROVE Fetched(fresh)
  <2>1. /\ got.models \in Seq(Fact) /\ got.promos \in Seq(WireCampaign)
        /\ answer.desktop.status = "ok" =>
             Complete(answer, IdsOf(got.models), got.models, got.promos)
    BY <1>2, <1>4, FetchedFacts
  <2>2. now \in Nat
    BY DEF Discoveries
  <2> HIDE DEF got
  <2> QED
    BY <1>4, <2>1, <2>2 DEF Fetched, Error
<1> HIDE DEF fresh, got
<1>5. c = NoCache \/ Fetched(c)
  BY <1>3, <1>4
<1>6. Sound(a, Built(a, state, c))
  <2>1. CASE Fetched(c) /\ c # NoCache
    <3>1. state \in Executable
      BY <2>1 DEF Executable
    <3> HIDE DEF c, state
    <3> QED
      BY <2>1, <3>1, BuiltSound
  <2>2. CASE c = NoCache
    <3>1. ~Fetched(NoCache)
      BY DEF Fetched, NoCache, Error
    <3>2. state = "failed"
      BY <1>4, <2>2, <3>1
    <3> HIDE DEF c, state
    <3> QED
      BY <2>2, <3>2, FailedSound
  <2> QED
    BY <1>5, <2>1, <2>2
<1> HIDE DEF c, state
<1> QED
  BY <1>1, <1>5, <1>6, ReadySound

LEMMA PublishSound ==
    ASSUME IInv, Discoveries, NEW a \in Accounts, Publish(a)
    PROVE  Discoveries'
<1> DEFINE lost == {m \in Tiered : flight[a].tier[m] # features.tier[m]}
           b == flight[a].built
           s == [b EXCEPT !.late = lost]
<1>1. /\ flight[a].pc = "publish" /\ flight' = [flight EXCEPT ![a] = NoFlight]
      /\ snap' = IF flight[a].gen = gen THEN [snap EXCEPT ![a] = s] ELSE snap
      /\ UNCHANGED <<realmOf, cache, now>>
  BY DEF Publish, curated
<1>2. DOMAIN b = SnapFields /\ Sound(a, b) /\ Sound(a, snap[a])
  BY <1>1 DEF IInv, Flights, IsFlight, Discoveries
<1>3. /\ s.at = b.at /\ s.facts = b.facts /\ s.promos = b.promos /\ s.models = b.models
      /\ s.state = b.state /\ s.realm = b.realm /\ s.of = b.of
  <2> HIDE DEF b, lost
  <2> QED
    BY <1>2, Zenon DEF SnapFields
<1> HIDE DEF s, b
<1>4. Sound(a, s)
  BY <1>2, <1>3 DEF Sound, executable
<1>5. snap' = snap \/ snap' = [snap EXCEPT ![a] = s]
  BY <1>1
<1>6. NoFlight.pc = "none"
  BY DEF NoFlight
<1>7. now' \in Nat
  BY <1>1 DEF Discoveries
<1> QED
  BY <1>1, <1>4, <1>5, <1>6, <1>7, OneDiscovery

LEMMA NextSound == ASSUME IInv, Discoveries, [Next]_vars PROVE Discoveries'
<1>1. CASE UNCHANGED vars
  BY <1>1, NothingFound DEF vars
<1>2. CASE (\E p \in Panels : PanelStep(p)) \/ Reconfigure \/ \E p \in Panels \cup {Host} : CommitStep(p)
  BY <1>2, CurationSound DEF Procs
<1>3. ASSUME NEW a \in Accounts,
             Discover(a) \/ UseList(a) \/ Publish(a) \/ \E n \in DOMAIN Answers : Fetch(a, n)
      PROVE  Discoveries'
  BY <1>3, DiscoverSound, ListSound, PublishSound, FetchSound
<1> QED
  BY <1>1, <1>2, <1>3 DEF Next

\* What the gate publishes and what it persists is sound throughout
\* (fetchWorkBuddyCatalog, finishAuthCall): facts only in executable snapshots and in
\* the order of the served IDs, and nothing that the deciding answer offered lost.
THEOREM Discovered == Spec => []Discoveries
<1>1. Init => IInv /\ Discoveries
  BY InitFits, InitSound
<1>2. IInv /\ Discoveries /\ [Next]_vars => IInv' /\ Discoveries'
  BY NextKeeps, NextSound
<1> QED
  BY <1>1, <1>2, PTL DEF Spec

LEMMA SoundComplete == Discoveries => CatalogComplete
<1> SUFFICES ASSUME Discoveries, NEW a \in Accounts
             PROVE  /\ executable(snap[a]) => snap[a].models # <<>>
                    /\ snap[a].of # 0 /\ Answers[snap[a].of].desktop.status = "ok" =>
                         Complete(Answers[snap[a].of], snap[a].models, snap[a].facts, snap[a].promos)
  BY Zenon DEF CatalogComplete, Complete
<1>1. Sound(a, snap[a])
  BY DEF Discoveries
<1> QED
  BY <1>1 DEF Sound

\* The union of the two identities' catalogs loses, repeats and invents nothing, and
\* the desktop's order, names and campaigns stand (fetchWorkBuddyCatalog,
\* mergeModelCatalog, normalizeModelPromotions), whatever the upstreams answer.
THEOREM CompleteCatalogs == Spec => []CatalogComplete
  BY Discovered, SoundComplete, PTL
-----------------------------------------------------------------------------
(* The host's list, and what wins a row of the panel.                       *)

\* A listing of a finite set names each of its members once.
LEMMA ListsAll ==
    ASSUME NEW T, IsFiniteSet(T), NEW l \in SetToSeqs(T)
    PROVE  l \in Seq(T) /\ ToSet(l) = T /\ \A i, j \in DOMAIN l : l[i] = l[j] => i = j
<1> DEFINE n == Cardinality(T)
<1>1. n \in Nat
  BY FS_CardinalityType
<1>2. l \in [1 .. n -> T] /\ \A i, j \in 1 .. n : i # j => l[i] # l[j]
  BY DEF SetToSeqs
<1> HIDE DEF n
<1>3. l \in Injection(1 .. n, T)
  BY <1>2 DEF Injection, IsInjective
<1>4. Cardinality(1 .. n) = n
  <2>1. 1 \in Int /\ n \in Int
    BY <1>1
  <2>2. Cardinality(1 .. n) = IF 1 > n THEN 0 ELSE n - 1 + 1
    BY <2>1, FS_Interval
  <2> QED
    BY <1>1, <2>2
<1>5. l \in Surjection(1 .. n, T)
  BY <1>3, <1>4, FS_Injection DEF n
<1>6. \A x \in T : \E i \in 1 .. n : l[i] = x
  BY <1>5 DEF Surjection
<1>7. DOMAIN l = 1 .. n
  BY <1>2
<1>8. ToSet(l) = T
  <2>1. \A x \in ToSet(l) : x \in T
    BY <1>2, <1>7 DEF ToSet
  <2>2. \A x \in T : x \in ToSet(l)
    BY <1>6, <1>7 DEF ToSet
  <2> QED
    BY <2>1, <2>2
<1> QED
  BY <1>1, <1>2, <1>7, <1>8

LEMMA SomeListing ==
    ASSUME NEW T, IsFiniteSet(T)
    PROVE  SetToSeq(T) \in SetToSeqs(T)
<1> DEFINE n == Cardinality(T)
           l == SetToSeq(T)
<1>1. ExistsBijection(1 .. n, T)
  BY FS_CardinalityType
<1>2. \E f \in [1 .. n -> T] : IsInjective(f)
  BY <1>1 DEF ExistsBijection, Bijection, Injection
<1>3. l \in [1 .. n -> T] /\ IsInjective(l)
  BY <1>2 DEF SetToSeq
<1> HIDE DEF l
<1>4. \A i, j \in 1 .. n : i # j => l[i] # l[j]
  BY <1>3 DEF IsInjective
<1> HIDE DEF n
<1>5. l \in SetToSeqs(T)
  BY <1>3, <1>4 DEF SetToSeqs, n
<1> QED
  BY <1>5 DEF l

\* The loop of selectionOf, step by step.
LEMMA SelectionSteps ==
    ASSUME NEW l, Len(l) \in Nat, NEW S, NEW realm
    PROVE  \E f : /\ f[0] = NoSelection
                  /\ \A n \in 1 .. Len(l) : f[n] = Selected(f[n - 1], S, realm, l[n])
                  /\ selectionOf(l, S, realm) = f[Len(l)]
<1> DEFINE N == Len(l)
           Step(f, n) == IF n = 0 THEN NoSelection
                         ELSE LET before == f[n - 1] IN Selected(before, S, realm, l[n])
           G == {k \in 0 .. N : \E f : f = [n \in 0 .. k |-> Step(f, n)]}
<1>0. N \in Nat /\ N \in 0 .. N /\ 0 \in 0 .. N
  OBVIOUS
<1>1. 0 \in G
  <2> DEFINE g == [n \in 0 .. 0 |-> NoSelection]
  <2>1. g = [n \in 0 .. 0 |-> Step(g, n)]
    OBVIOUS
  <2> HIDE DEF g, Step
  <2> QED
    BY <1>0, <2>1, Zenon
<1>2. ASSUME NEW k \in 0 .. N, k < N, k \in G PROVE k + 1 \in G
  <2>1. PICK f : f = [n \in 0 .. k |-> Step(f, n)]
    BY <1>2
  <2> DEFINE g == [n \in 0 .. k + 1 |-> IF n = k + 1 THEN Step(f, n) ELSE f[n]]
  <2>2. ASSUME NEW n \in 0 .. k + 1 PROVE g[n] = Step(g, n)
    <3>1. n # 0 => n - 1 \in 0 .. k /\ g[n - 1] = f[n - 1]
      OBVIOUS
    <3>2. g[n] = Step(f, n)
      <4>1. CASE n = k + 1
        BY <4>1
      <4>2. CASE n # k + 1
        <5>1. n \in 0 .. k /\ g[n] = f[n]
          BY <4>2
        <5> QED
          BY <2>1, <5>1
      <4> QED
        BY <4>1, <4>2
    <3> QED
      BY <3>1, <3>2
  <2>3. g = [n \in 0 .. k + 1 |-> Step(g, n)]
    BY <2>2
  <2>4. k + 1 \in 0 .. N
    BY <1>0, <1>2
  <2> HIDE DEF g, Step
  <2> QED
    BY <2>3, <2>4, Zenon
<1>3. N \in G
  <2> HIDE DEF G, N
  <2> QED
    BY <1>0, <1>1, <1>2, UpTo
<1> DEFINE f == CHOOSE f : f = [n \in 0 .. N |-> Step(f, n)]
<1>4. f = [n \in 0 .. N |-> Step(f, n)]
  BY <1>3
<1>5. selectionOf(l, S, realm) = f[N]
  BY Zenon DEF selectionOf
<1> HIDE DEF f
<1>6. ASSUME NEW n \in 0 .. N PROVE f[n] = Step(f, n)
  <2> HIDE DEF Step, N
  <2> QED
    BY <1>4
<1>7. \A n \in 1 .. N : n \in 0 .. N /\ n # 0
  BY <1>0
<1> HIDE DEF N
<1> QED
  BY <1>0, <1>5, <1>6, <1>7, Zenon DEF N

\* Snapshots with times.
Dated(S) == DOMAIN S = Accounts /\ \A a \in Accounts : S[a].at \in Nat

LEMMA WinsOrder ==
    ASSUME NEW S, Dated(S), NEW a \in Accounts, NEW b \in Accounts, NEW c \in Accounts
    PROVE  /\ panelRealmSourceWins(S, a, b) \/ panelRealmSourceWins(S, b, a) \/ a = b
           /\ ~(panelRealmSourceWins(S, a, b) /\ panelRealmSourceWins(S, b, a))
           /\ panelRealmSourceWins(S, a, b) /\ panelRealmSourceWins(S, b, c)
                => panelRealmSourceWins(S, a, c)
<1>1. a \in Nat /\ b \in Nat /\ c \in Nat
  BY CurationConstants
<1>2. S[a].at \in Nat /\ S[b].at \in Nat /\ S[c].at \in Nat
  BY DEF Dated
<1> QED
  BY <1>1, <1>2 DEF panelRealmSourceWins

\* owner gives every entry that an account of who has to the one that wins it.
Claims(owner, who, S, ids) ==
    /\ owner = [id \in DOMAIN owner |-> owner[id]]
    /\ \A id : id \in DOMAIN owner <=> \E a \in who : id \in ids[a]
    /\ \A id \in DOMAIN owner :
         /\ owner[id] \in who /\ id \in ids[owner[id]]
         /\ \A b \in who : id \in ids[b] => b = owner[id] \/ panelRealmSourceWins(S, owner[id], b)

LEMMA ClaimKeeps ==
    ASSUME NEW S, Dated(S), NEW who \in SUBSET Accounts, NEW ids, NEW owner, Claims(owner, who, S, ids),
           NEW a \in Accounts, NEW list, ids[a] = {list[i].id : i \in DOMAIN list}
    PROVE  Claims(Claim(S, owner, a, list), who \cup {a}, S, ids)
<1> DEFINE mine == ids[a]
           takes(id) == id \in mine /\ (id \notin DOMAIN owner \/ panelRealmSourceWins(S, a, owner[id]))
           o == [id \in DOMAIN owner \cup mine |-> IF takes(id) THEN a ELSE owner[id]]
<1>1. Claim(S, owner, a, list) = o
  BY DEF Claim
<1>2. /\ \A id : id \in DOMAIN owner <=> \E b \in who : id \in ids[b]
      /\ \A id \in DOMAIN owner :
           /\ owner[id] \in who /\ id \in ids[owner[id]]
           /\ \A b \in who : id \in ids[b] => b = owner[id] \/ panelRealmSourceWins(S, owner[id], b)
  BY DEF Claims
<1>3. DOMAIN o = DOMAIN owner \cup mine /\ o = [id \in DOMAIN o |-> o[id]]
  OBVIOUS
<1>4. \A id : id \in DOMAIN o <=> \E b \in who \cup {a} : id \in ids[b]
  BY <1>2, <1>3
<1>5. ASSUME NEW id \in DOMAIN o
      PROVE  /\ o[id] \in who \cup {a} /\ id \in ids[o[id]]
             /\ \A b \in who \cup {a} : id \in ids[b] => b = o[id] \/ panelRealmSourceWins(S, o[id], b)
  <2>1. CASE takes(id)
    <3>1. o[id] = a /\ id \in ids[a]
      BY <2>1
    <3>2. ASSUME NEW b \in who, id \in ids[b] PROVE b = a \/ panelRealmSourceWins(S, a, b)
      <4>1. id \in DOMAIN owner /\ panelRealmSourceWins(S, a, owner[id])
        BY <1>2, <2>1, <3>2
      <4>2. owner[id] \in Accounts /\ (b = owner[id] \/ panelRealmSourceWins(S, owner[id], b))
        BY <1>2, <3>2, <4>1
      <4> QED
        BY <4>1, <4>2, WinsOrder
    <3> HIDE DEF o, takes
    <3> QED
      BY <3>1, <3>2
  <2>2. CASE ~takes(id)
    <3>1. o[id] = owner[id] /\ id \in DOMAIN owner
      BY <2>2
    <3>2. id \in mine => ~panelRealmSourceWins(S, a, owner[id])
      BY <2>2, <3>1
    <3>3. owner[id] \in Accounts /\ owner[id] \in who /\ id \in ids[owner[id]]
      BY <1>2, <3>1
    <3>4. id \in mine => a = owner[id] \/ panelRealmSourceWins(S, owner[id], a)
      BY <3>2, <3>3, WinsOrder
    <3>5. \A b \in who : id \in ids[b] => b = owner[id] \/ panelRealmSourceWins(S, owner[id], b)
      BY <1>2, <3>1
    <3> HIDE DEF o, takes
    <3> QED
      BY <3>1, <3>3, <3>4, <3>5
  <2> QED
    BY <2>1, <2>2
<1> HIDE DEF o
<1> QED
  BY <1>1, <1>3, <1>4, <1>5 DEF Claims

LEMMA ClaimsUnique ==
    ASSUME NEW S, Dated(S), NEW who \in SUBSET Accounts, NEW ids, NEW o, NEW q,
           Claims(o, who, S, ids), Claims(q, who, S, ids)
    PROVE  o = q
<1>1. DOMAIN o = DOMAIN q
  BY Zenon DEF Claims
<1>2. ASSUME NEW id \in DOMAIN o PROVE o[id] = q[id]
  <2>1. /\ o[id] \in who /\ q[id] \in who /\ o[id] \in Accounts /\ q[id] \in Accounts
        /\ id \in ids[o[id]] /\ id \in ids[q[id]]
    BY <1>1, Zenon DEF Claims
  <2>2. q[id] = o[id] \/ panelRealmSourceWins(S, o[id], q[id])
    BY <1>1, <2>1, Zenon DEF Claims
  <2>3. o[id] = q[id] \/ panelRealmSourceWins(S, q[id], o[id])
    BY <1>1, <2>1, Zenon DEF Claims
  <2> QED
    BY <2>1, <2>2, <2>3, WinsOrder
<1>3. o = [id \in DOMAIN o |-> o[id]] /\ q = [id \in DOMAIN q |-> q[id]]
  BY DEF Claims
<1>4. [id \in DOMAIN o |-> o[id]] = [id \in DOMAIN q |-> q[id]]
  BY <1>1, <1>2
<1> QED
  BY <1>3, <1>4, Zenon

\* d is the account of mine whose state a realm shows.
Shows(d, mine, S) ==
    /\ mine = {} => d = Nobody
    /\ mine # {} => d \in mine /\ \A b \in mine : b = d \/ displays(S, d, b)

LEMMA DisplaysOrder ==
    ASSUME NEW S, Dated(S), NEW a \in Accounts, NEW b \in Accounts, NEW c \in Accounts
    PROVE  /\ displays(S, a, b) \/ displays(S, b, a) \/ a = b
           /\ ~(displays(S, a, b) /\ displays(S, b, a))
           /\ displays(S, a, b) /\ displays(S, b, c) => displays(S, a, c)
           /\ ~displays(S, a, a)
<1>1. a \in Nat \ {0} /\ b \in Nat \ {0} /\ c \in Nat \ {0}
  BY CurationConstants
<1>2. S[a].at \in Nat /\ S[b].at \in Nat /\ S[c].at \in Nat
  BY DEF Dated
<1>3. executable(S[a]) \in BOOLEAN /\ executable(S[b]) \in BOOLEAN /\ executable(S[c]) \in BOOLEAN
  BY DEF executable
<1> QED
  BY <1>1, <1>2, <1>3 DEF displays, Nobody

LEMMA ShowsKeeps ==
    ASSUME NEW S, Dated(S), NEW mine \in SUBSET Accounts, NEW d, Shows(d, mine, S), NEW a \in Accounts
    PROVE  Shows(IF displays(S, a, d) THEN a ELSE d, mine \cup {a}, S)
<1>1. CASE mine = {}
  <2>1. d = Nobody
    BY <1>1 DEF Shows
  <2>2. displays(S, a, d)
    BY <2>1 DEF displays
  <2> QED
    BY <1>1, <2>2 DEF Shows
<1>2. CASE mine # {}
  <2>1. d \in mine /\ d \in Accounts /\ \A b \in mine : b = d \/ displays(S, d, b)
    BY <1>2 DEF Shows
  <2>2. CASE displays(S, a, d)
    <3>1. ASSUME NEW b \in mine \cup {a} PROVE b = a \/ displays(S, a, b)
      <4>1. b \in Accounts /\ (b = a \/ b = d \/ displays(S, d, b))
        BY <2>1
      <4> QED
        BY <2>1, <2>2, <4>1, DisplaysOrder
    <3> QED
      BY <2>2, <3>1 DEF Shows
  <2>3. CASE ~displays(S, a, d)
    <3>1. a = d \/ displays(S, d, a)
      BY <2>1, <2>3, DisplaysOrder
    <3> QED
      BY <2>1, <2>3, <3>1 DEF Shows
  <2> QED
    BY <2>2, <2>3
<1> QED
  BY <1>1, <1>2

LEMMA ShowsUnique ==
    ASSUME NEW S, Dated(S), NEW mine \in SUBSET Accounts, NEW d, NEW e,
           Shows(d, mine, S), Shows(e, mine, S)
    PROVE  d = e
<1>1. CASE mine = {}
  BY <1>1 DEF Shows
<1>2. CASE mine # {}
  <2>1. /\ d \in mine /\ e \in mine /\ d \in Accounts /\ e \in Accounts
        /\ (e = d \/ displays(S, d, e)) /\ (d = e \/ displays(S, e, d))
    BY <1>2 DEF Shows
  <2> QED
    BY <2>1, DisplaysOrder
<1> QED
  BY <1>1, <1>2
-----------------------------------------------------------------------------
(* panelRealmSelections, whatever the order of the host's list.             *)

Mine(who, S, realm) == {a \in who : S[a].realm = realm}
Loaders(who, S, realm) == {a \in Mine(who, S, realm) : loads(S[a])}
FactsOf(S) == [a \in Accounts |-> {S[a].facts[i].id : i \in DOMAIN S[a].facts}]
PromosOf(S) == [a \in Accounts |-> {S[a].promos[i].id : i \in DOMAIN S[a].promos}]

\* x is what the accounts of who make of a realm, in any order.
Selects(x, who, S, realm) ==
    /\ x = [loaded |-> x.loaded, display |-> x.display, facts |-> x.facts, promos |-> x.promos]
    /\ x.loaded = (Loaders(who, S, realm) # {})
    /\ Shows(x.display, Mine(who, S, realm), S)
    /\ Claims(x.facts, Loaders(who, S, realm), S, FactsOf(S))
    /\ Claims(x.promos, Loaders(who, S, realm), S, PromosOf(S))

LEMMA SelectsNothing ==
    ASSUME NEW S, NEW realm
    PROVE  Selects(NoSelection, {}, S, realm)
<1>1. /\ NoSelection.loaded = FALSE /\ NoSelection.display = Nobody
      /\ NoSelection.facts = <<>> /\ NoSelection.promos = <<>>
      /\ NoSelection = [loaded |-> NoSelection.loaded, display |-> NoSelection.display,
                        facts |-> NoSelection.facts, promos |-> NoSelection.promos]
  BY DEF NoSelection
<1>2. Mine({}, S, realm) = {} /\ Loaders({}, S, realm) = {}
  BY DEF Mine, Loaders
<1>3. Shows(Nobody, {}, S)
  BY DEF Shows
<1>4. ASSUME NEW ids PROVE Claims(<<>>, {}, S, ids)
  <2>1. <<>> = [id \in DOMAIN <<>> |-> <<>>[id]] /\ DOMAIN <<>> = {}
    OBVIOUS
  <2> QED
    BY <2>1 DEF Claims
<1> QED
  BY <1>1, <1>2, <1>3, <1>4 DEF Selects

LEMMA SelectsOneMore ==
    ASSUME NEW S, Dated(S), NEW realm, NEW who \in SUBSET Accounts, NEW x,
           Selects(x, who, S, realm), NEW a \in Accounts
    PROVE  Selects(Selected(x, S, realm, a), who \cup {a}, S, realm)
<1> DEFINE M == Mine(who, S, realm)
           L == Loaders(who, S, realm)
           y == Selected(x, S, realm, a)
<1>1. M \in SUBSET Accounts /\ L \in SUBSET Accounts
  BY DEF Mine, Loaders
<1>2. CASE S[a].realm # realm
  <2>1. Mine(who \cup {a}, S, realm) = M /\ Loaders(who \cup {a}, S, realm) = L /\ y = x
    BY <1>2 DEF Mine, Loaders, Selected
  <2> QED
    BY <2>1 DEF Selects
<1>3. CASE S[a].realm = realm
  <2>1. Mine(who \cup {a}, S, realm) = M \cup {a}
    BY <1>3 DEF Mine
  <2>2. Loaders(who \cup {a}, S, realm) = IF loads(S[a]) THEN L \cup {a} ELSE L
    BY <1>3 DEF Mine, Loaders
  <2> DEFINE loaded == x.loaded \/ loads(S[a])
             display == IF displays(S, a, x.display) THEN a ELSE x.display
             facts == IF loads(S[a]) THEN Claim(S, x.facts, a, S[a].facts) ELSE x.facts
             promos == IF loads(S[a]) THEN Claim(S, x.promos, a, S[a].promos) ELSE x.promos
  <2>3. y = [loaded |-> loaded, display |-> display, facts |-> facts, promos |-> promos]
    BY <1>3 DEF Selected
  <2>4. Shows(display, M \cup {a}, S)
    <3>1. Shows(x.display, M, S)
      BY DEF Selects
    <3> HIDE DEF M
    <3> QED
      BY <1>1, <3>1, ShowsKeeps
  <2>5. Claims(facts, IF loads(S[a]) THEN L \cup {a} ELSE L, S, FactsOf(S))
    <3>1. Claims(x.facts, L, S, FactsOf(S))
      BY DEF Selects
    <3>2. FactsOf(S)[a] = {S[a].facts[i].id : i \in DOMAIN S[a].facts}
      BY DEF FactsOf
    <3> HIDE DEF L
    <3>3. Claims(Claim(S, x.facts, a, S[a].facts), L \cup {a}, S, FactsOf(S))
      BY <1>1, <3>1, <3>2, ClaimKeeps
    <3> QED
      BY <3>1, <3>3, Zenon
  <2>6. Claims(promos, IF loads(S[a]) THEN L \cup {a} ELSE L, S, PromosOf(S))
    <3>1. Claims(x.promos, L, S, PromosOf(S))
      BY DEF Selects
    <3>2. PromosOf(S)[a] = {S[a].promos[i].id : i \in DOMAIN S[a].promos}
      BY DEF PromosOf
    <3> HIDE DEF L
    <3>3. Claims(Claim(S, x.promos, a, S[a].promos), L \cup {a}, S, PromosOf(S))
      BY <1>1, <3>1, <3>2, ClaimKeeps
    <3> QED
      BY <3>1, <3>3, Zenon
  <2>7. x.loaded = (L # {})
    BY DEF Selects
  <2> HIDE DEF display, facts, promos, L, M
  <2>8. loaded = ((IF loads(S[a]) THEN L \cup {a} ELSE L) # {})
    <3>1. CASE loads(S[a])
      BY <2>7, <3>1, Zenon
    <3>2. CASE ~loads(S[a])
      BY <2>7, <3>2, Zenon
    <3> QED
      BY <3>1, <3>2
  <2> HIDE DEF loaded, y
  <2>9. y.loaded = loaded /\ y.display = display /\ y.facts = facts /\ y.promos = promos
    BY <2>3
  <2> QED
    BY <2>1, <2>2, <2>3, <2>4, <2>5, <2>6, <2>8, <2>9, Zenon DEF Selects, y
<1> QED
  BY <1>2, <1>3

LEMMA SelectsUnique ==
    ASSUME NEW S, Dated(S), NEW realm, NEW x, NEW y,
           Selects(x, Accounts, S, realm), Selects(y, Accounts, S, realm)
    PROVE  x = y
<1>1. Mine(Accounts, S, realm) \in SUBSET Accounts /\ Loaders(Accounts, S, realm) \in SUBSET Accounts
  BY DEF Mine, Loaders
<1>2. x.loaded = y.loaded
  <2> DEFINE some == Loaders(Accounts, S, realm) # {}
  <2>1. x.loaded = some /\ y.loaded = some
    BY DEF Selects
  <2> QED
    BY <2>1
<1>3. x.display = y.display
  BY <1>1, ShowsUnique DEF Selects
<1>4. x.facts = y.facts
  BY <1>1, ClaimsUnique DEF Selects
<1>5. x.promos = y.promos
  BY <1>1, ClaimsUnique DEF Selects
<1> QED
  BY <1>2, <1>3, <1>4, <1>5, Zenon DEF Selects

\* The accounts that the first k entries of a listing name.
Upto(l, k) == {l[i] : i \in 1 .. k}

\* The loop of panelRealmSelections makes of a full listing what Selects says.
LEMMA SelectionFacts ==
    ASSUME NEW S, Dated(S), NEW realm, NEW l \in Seq(Accounts), ToSet(l) = Accounts
    PROVE  Selects(selectionOf(l, S, realm), Accounts, S, realm)
<1> DEFINE N == Len(l)
<1>1. N \in Nat /\ 0 \in 0 .. N /\ N \in 0 .. N /\ DOMAIN l = 1 .. N
  OBVIOUS
<1>2. PICK f : /\ f[0] = NoSelection
               /\ \A n \in 1 .. N : f[n] = Selected(f[n - 1], S, realm, l[n])
               /\ selectionOf(l, S, realm) = f[N]
  BY <1>1, SelectionSteps
<1> DEFINE G == {k \in 0 .. N : Selects(f[k], Upto(l, k), S, realm)}
<1>3. 0 \in G
  <2>1. Upto(l, 0) = {}
    BY DEF Upto
  <2> QED
    BY <1>1, <1>2, <2>1, SelectsNothing
<1>4. ASSUME NEW k \in 0 .. N, k < N, k \in G PROVE k + 1 \in G
  <2>1. k + 1 \in 1 .. N /\ k + 1 \in 0 .. N /\ (k + 1) - 1 = k
    BY <1>1, <1>4
  <2>2. f[k + 1] = Selected(f[k], S, realm, l[k + 1])
    BY <1>2, <2>1
  <2>3. l[k + 1] \in Accounts
    BY <1>1, <2>1
  <2>4. \A i \in 1 .. k : l[i] \in Accounts
    BY <1>1, <1>4
  <2>5. Upto(l, k) \in SUBSET Accounts
    BY <2>4 DEF Upto
  <2>6. Upto(l, k + 1) = Upto(l, k) \cup {l[k + 1]}
    <3>1. 1 .. k + 1 = (1 .. k) \cup {k + 1}
      BY <1>4
    <3> QED
      BY <3>1, Zenon DEF Upto
  <2>7. Selects(f[k], Upto(l, k), S, realm)
    BY <1>4
  <2>8. Selects(f[k + 1], Upto(l, k + 1), S, realm)
    BY <2>2, <2>3, <2>5, <2>6, <2>7, SelectsOneMore
  <2> QED
    BY <2>1, <2>8
<1>5. N \in G
  <2> HIDE DEF G, N
  <2> QED
    BY <1>1, <1>3, <1>4, UpTo
<1>6. Upto(l, N) = Accounts
  BY <1>1, Zenon DEF Upto, ToSet
<1> QED
  BY <1>2, <1>5, <1>6

\* Of the accounts of W the one fetched last, and of these the one with the smallest ID.
Latest(W, S) ==
    LET last == {a \in W : \A b \in W : S[b].at <= S[a].at}
    IN  CHOOSE a \in last : \A b \in last : a <= b

\* The winner of an entry is its owner.
LEMMA TheOwner ==
    ASSUME NEW S, Dated(S), NEW who \in SUBSET Accounts, NEW ids, NEW o, Claims(o, who, S, ids),
           NEW id \in DOMAIN o, NEW W, W = {a \in who : id \in ids[a]}
    PROVE  o[id] \in W /\ o[id] = Latest(W, S)
<1> DEFINE last == {a \in W : \A b \in W : S[b].at <= S[a].at}
           k == o[id]
<1>1. k \in W /\ \A b \in W : b = k \/ panelRealmSourceWins(S, k, b)
  BY Zenon DEF Claims
<1> HIDE DEF k
<1>2. \A b \in W : b \in Nat /\ S[b].at \in Nat
  BY CurationConstants DEF Dated
<1>3. k \in last
  BY <1>1, <1>2 DEF panelRealmSourceWins
<1>4. \A b \in last : b \in W /\ S[k].at <= S[b].at
  BY <1>1
<1>5. \A b \in last : k <= b
  BY <1>1, <1>2, <1>4 DEF panelRealmSourceWins
<1>6. \A a \in last : (\A b \in last : a <= b) => a = k
  BY <1>2, <1>3, <1>4, <1>5
<1> HIDE DEF last
<1>7. k = CHOOSE a \in last : \A b \in last : a <= b
  BY <1>3, <1>5, <1>6
<1> QED
  BY <1>1, <1>7 DEF k, last, Latest

-----------------------------------------------------------------------------
(* The panel's rows, states and campaigns.                                  *)

LEMMA VisibleSound ==
    ASSUME Discoveries
    PROVE  Dated(visible) /\ \A a \in Accounts : Sound(a, visible[a])
<1>1. DOMAIN visible = Accounts
      /\ \A a \in Accounts : visible[a] = IF snap[a].gen = gen THEN snap[a] ELSE NotStarted
  BY DEF visible
<1>2. /\ NotStarted.at = 0 /\ NotStarted.facts = <<>> /\ NotStarted.promos = <<>>
      /\ NotStarted.models = <<>> /\ NotStarted.of = 0 /\ NotStarted.state = "not_started"
  BY DEF NotStarted
<1>3. \A a : Sound(a, NotStarted)
  BY <1>2, Unloaded DEF Executable
<1>4. \A a \in Accounts : Sound(a, visible[a])
  BY <1>1, <1>3 DEF Discoveries
<1>5. \A a \in Accounts : visible[a].at \in Nat
  BY <1>4 DEF Sound
<1> QED
  BY <1>1, <1>4, <1>5 DEF Dated

\* Two listings of the accounts select the same.
LEMMA OneSelection ==
    ASSUME NEW S, Dated(S), NEW realm, NEW l \in listings, NEW k \in listings
    PROVE  /\ selectionOf(l, S, realm) = selectionOf(k, S, realm)
           /\ Selects(selectionOf(l, S, realm), Accounts, S, realm)
<1>1. l \in Seq(Accounts) /\ ToSet(l) = Accounts /\ k \in Seq(Accounts) /\ ToSet(k) = Accounts
  BY CurationConstants, ListsAll DEF listings
<1>2. Selects(selectionOf(l, S, realm), Accounts, S, realm)
  BY <1>1, SelectionFacts
<1>3. Selects(selectionOf(k, S, realm), Accounts, S, realm)
  BY <1>1, SelectionFacts
<1> QED
  BY <1>2, <1>3, SelectsUnique

\* Of sound snapshots, the ones of a realm that load are the ones of its accounts.
LEMMA RealmLoaders ==
    ASSUME NEW S, NEW realm, \A a \in Accounts : Sound(a, S[a])
    PROVE  Loaders(Accounts, S, realm) = {a \in Accounts : realmOf[a] = realm /\ loads(S[a])}
<1>1. \A a \in Accounts : loads(S[a]) => S[a].realm = realmOf[a]
  BY DEF Sound, loads
<1> QED
  BY <1>1 DEF Loaders, Mine

\* The accounts that bring a model, or a campaign, to a realm.
Bringing(S, realm, id) ==
    {a \in Accounts : realmOf[a] = realm /\ loads(S[a]) /\ id \in FactIds(S[a])}
Promoting(S, realm, id) ==
    {a \in Accounts : /\ realmOf[a] = realm /\ loads(S[a])
                      /\ \E i \in DOMAIN S[a].promos : S[a].promos[i].id = id}

\* Every model that a realm shows is its owner's copy (panelRealmSelectionAddFacts) ...
LEMMA CellOwned ==
    ASSUME NEW S, Dated(S), NEW realm, \A a \in Accounts : Sound(a, S[a]), NEW x,
           Selects(x, Accounts, S, realm), NEW id \in DOMAIN x.facts
    PROVE  /\ x.facts[id] \in Loaders(Accounts, S, realm) /\ id \in FactIds(S[x.facts[id]])
           /\ x.facts[id] = Latest(Bringing(S, realm, id), S)
<1> DEFINE L == Loaders(Accounts, S, realm)
           W == {a \in L : id \in FactsOf(S)[a]}
           who == Bringing(S, realm, id)
           o == x.facts
<1>1. L \in SUBSET Accounts
  BY DEF Loaders, Mine
<1>2. Claims(o, L, S, FactsOf(S))
  BY DEF Selects
<1>3. o[id] \in W /\ o[id] = Latest(W, S)
  <2>1. W = {a \in L : id \in FactsOf(S)[a]} /\ id \in DOMAIN o
    OBVIOUS
  <2> HIDE DEF L, o, W
  <2> QED
    BY <1>1, <1>2, <2>1, TheOwner
<1>4. \A a \in Accounts : FactsOf(S)[a] = FactIds(S[a])
  BY DEF FactsOf, FactIds
<1>5. L = {a \in Accounts : realmOf[a] = realm /\ loads(S[a])}
  BY RealmLoaders
<1>6. W = who
  <2> HIDE DEF L
  <2> QED
    BY <1>4, <1>5 DEF Bringing
<1>7. o[id] \in L /\ id \in FactIds(S[o[id]])
  <2> HIDE DEF L
  <2> QED
    BY <1>1, <1>3, <1>4
<1> HIDE DEF W
<1> QED
  BY <1>3, <1>6, <1>7, Zenon DEF o, L, who

\* ... and so is every campaign (panelRealmSelectionAddPromotions).
LEMMA CampaignOwned ==
    ASSUME NEW S, Dated(S), NEW realm, \A a \in Accounts : Sound(a, S[a]), NEW x,
           Selects(x, Accounts, S, realm), NEW id \in DOMAIN x.promos
    PROVE  x.promos[id] = Latest(Promoting(S, realm, id), S)
<1> DEFINE L == Loaders(Accounts, S, realm)
           W == {a \in L : id \in PromosOf(S)[a]}
           who == Promoting(S, realm, id)
           o == x.promos
<1>1. L \in SUBSET Accounts
  BY DEF Loaders, Mine
<1>2. Claims(o, L, S, PromosOf(S))
  BY DEF Selects
<1>3. o[id] \in W /\ o[id] = Latest(W, S)
  <2>1. W = {a \in L : id \in PromosOf(S)[a]} /\ id \in DOMAIN o
    OBVIOUS
  <2> HIDE DEF L, o, W
  <2> QED
    BY <1>1, <1>2, <2>1, TheOwner
<1>4. \A a \in Accounts : id \in PromosOf(S)[a] <=> \E i \in DOMAIN S[a].promos : S[a].promos[i].id = id
  BY DEF PromosOf
<1>5. L = {a \in Accounts : realmOf[a] = realm /\ loads(S[a])}
  BY RealmLoaders
<1>6. W = who
  <2> HIDE DEF L
  <2> QED
    BY <1>4, <1>5 DEF Promoting
<1> HIDE DEF W
<1> QED
  BY <1>3, <1>6, Zenon DEF o, who

\* buildPanelRealmModels, from the two realms' selections.
RowsOf(sel, S) ==
    LET ids == UNION {DOMAIN sel[r].facts : r \in {x \in Realms : sel[x].loaded}}
        cell(r, id) ==
            IF ~sel[r].loaded THEN [status |-> "not_loaded", of |-> <<>>]
            ELSE IF id \notin DOMAIN sel[r].facts THEN [status |-> "absent", of |-> <<>>]
            ELSE [status |-> "present", of |-> <<Entry(S[sel[r].facts[id]].facts, id)>>]
    IN  [id \in ids |-> [r \in Realms |-> cell(r, id)]]

LEMMA RowFacts ==
    ASSUME NEW l, NEW S
    PROVE  LET rows == buildPanelRealmModels(l, S)
           IN  /\ \A id : id \in DOMAIN rows <=>
                    \E r \in Realms : /\ selectionOf(l, S, r).loaded
                                      /\ id \in DOMAIN selectionOf(l, S, r).facts
               /\ \A id \in DOMAIN rows, r \in Realms :
                    LET x == selectionOf(l, S, r)
                    IN  /\ rows[id][r].status = IF ~x.loaded THEN "not_loaded"
                                                ELSE IF id \notin DOMAIN x.facts THEN "absent"
                                                ELSE "present"
                        /\ rows[id][r].status = "present" =>
                             rows[id][r].of = <<Entry(S[x.facts[id]].facts, id)>>
<1> DEFINE sel == [r \in Realms |-> selectionOf(l, S, r)]
           ids == UNION {DOMAIN sel[r].facts : r \in {x \in Realms : sel[x].loaded}}
           cell(r, id) ==
            IF ~sel[r].loaded THEN [status |-> "not_loaded", of |-> <<>>]
            ELSE IF id \notin DOMAIN sel[r].facts THEN [status |-> "absent", of |-> <<>>]
            ELSE [status |-> "present", of |-> <<Entry(S[sel[r].facts[id]].facts, id)>>]
           rows == buildPanelRealmModels(l, S)
<1>1. rows = [id \in ids |-> [r \in Realms |-> cell(r, id)]]
  BY DEF buildPanelRealmModels
<1>2. \A r \in Realms : sel[r] = selectionOf(l, S, r)
  OBVIOUS
<1> HIDE DEF rows, sel
<1>3. \A id : id \in ids <=> \E r \in Realms : sel[r].loaded /\ id \in DOMAIN sel[r].facts
  OBVIOUS
<1> HIDE DEF ids
<1>4. DOMAIN rows = ids /\ \A id \in ids, r \in Realms : rows[id][r] = cell(r, id)
  BY <1>1
<1>5. ASSUME NEW id \in ids, NEW r \in Realms
      PROVE  /\ cell(r, id).status = IF ~sel[r].loaded THEN "not_loaded"
                                     ELSE IF id \notin DOMAIN sel[r].facts THEN "absent"
                                     ELSE "present"
             /\ cell(r, id).status = "present" =>
                  cell(r, id).of = <<Entry(S[sel[r].facts[id]].facts, id)>>
  <2>1. CASE ~sel[r].loaded
    BY <2>1
  <2>2. CASE sel[r].loaded /\ id \notin DOMAIN sel[r].facts
    BY <2>2
  <2>3. CASE sel[r].loaded /\ id \in DOMAIN sel[r].facts
    BY <2>3
  <2> QED
    BY <2>1, <2>2, <2>3
<1> HIDE DEF cell
<1>6. ASSUME NEW id \in DOMAIN rows, NEW r \in Realms
      PROVE  LET x == selectionOf(l, S, r)
             IN  /\ rows[id][r].status = IF ~x.loaded THEN "not_loaded"
                                         ELSE IF id \notin DOMAIN x.facts THEN "absent"
                                         ELSE "present"
                 /\ rows[id][r].status = "present" =>
                      rows[id][r].of = <<Entry(S[x.facts[id]].facts, id)>>
  <2> DEFINE x == selectionOf(l, S, r)
             c == rows[id][r]
  <2>1. id \in ids /\ c = cell(r, id)
    BY <1>4, <1>6
  <2>2. x = sel[r]
    BY <1>2
  <2> HIDE DEF x, c
  <2>3. /\ c.status = IF ~x.loaded THEN "not_loaded"
                      ELSE IF id \notin DOMAIN x.facts THEN "absent" ELSE "present"
        /\ c.status = "present" => c.of = <<Entry(S[x.facts[id]].facts, id)>>
    BY <1>5, <2>1, <2>2
  <2> QED
    BY <2>3 DEF x, c
<1>7. \A id : id \in DOMAIN rows <=>
        \E r \in Realms : selectionOf(l, S, r).loaded /\ id \in DOMAIN selectionOf(l, S, r).facts
  BY <1>2, <1>3, <1>4
<1> QED
  BY <1>6, <1>7, Zenon DEF rows

LEMMA SameViews ==
    ASSUME NEW l, NEW k, NEW S, \A r \in Realms : selectionOf(l, S, r) = selectionOf(k, S, r)
    PROVE  /\ buildPanelRealmModels(l, S) = buildPanelRealmModels(k, S)
           /\ buildPanelRealmStatus(l, S) = buildPanelRealmStatus(k, S)
           /\ \A r \in Realms : realmPromotions(l, S, r) = realmPromotions(k, S, r)
<1>1. \A m : buildPanelRealmModels(m, S) = RowsOf([r \in Realms |-> selectionOf(m, S, r)], S)
  BY Zenon DEF buildPanelRealmModels, RowsOf
<1>2. [r \in Realms |-> selectionOf(l, S, r)] = [r \in Realms |-> selectionOf(k, S, r)]
  OBVIOUS
<1>3. buildPanelRealmModels(l, S) = buildPanelRealmModels(k, S)
  BY <1>1, <1>2, Zenon
<1>4. buildPanelRealmStatus(l, S) = buildPanelRealmStatus(k, S)
  BY DEF buildPanelRealmStatus
<1>5. \A r \in Realms : realmPromotions(l, S, r) = realmPromotions(k, S, r)
  BY Zenon DEF realmPromotions
<1> QED
  BY <1>3, <1>4, <1>5

LEMMA UnionOfDiscoveries == Discoveries => PanelUnion
<1> SUFFICES ASSUME Discoveries PROVE PanelUnion
  OBVIOUS
<1> DEFINE S == visible
           first == SetToSeq(Accounts)
           rows == buildPanelRealmModels(first, S)
           owned == [r \in Realms |-> realmPromotions(first, S, r)]
<1>1. Dated(S) /\ \A a \in Accounts : Sound(a, S[a])
  BY VisibleSound
<1>2. first \in listings
  BY CurationConstants, SomeListing DEF listings
<1> HIDE DEF S, first
<1>3. \A r \in Realms : Selects(selectionOf(first, S, r), Accounts, S, r)
  BY <1>1, <1>2, OneSelection
<1>4. ASSUME NEW l \in listings
      PROVE  /\ buildPanelRealmModels(l, S) = rows
             /\ buildPanelRealmStatus(l, S) = buildPanelRealmStatus(first, S)
             /\ \A r \in Realms : realmPromotions(l, S, r) = owned[r]
  <2>1. \A r \in Realms : selectionOf(l, S, r) = selectionOf(first, S, r)
    BY <1>1, <1>2, OneSelection
  <2> QED
    BY <2>1, SameViews
<1>5. ASSUME NEW r \in Realms, NEW id \in DOMAIN rows, rows[id][r].status = "present"
      PROVE  LET a == Owner(S, r, LAMBDA s : id \in FactIds(s))
             IN  rows[id][r].of = <<Entry(S[a].facts, id)>>
  <2> DEFINE x == selectionOf(first, S, r)
  <2>1. id \in DOMAIN x.facts /\ rows[id][r].of = <<Entry(S[x.facts[id]].facts, id)>>
    <3>1. /\ rows[id][r].status = IF ~x.loaded THEN "not_loaded"
                                  ELSE IF id \notin DOMAIN x.facts THEN "absent"
                                  ELSE "present"
          /\ rows[id][r].status = "present" =>
               rows[id][r].of = <<Entry(S[x.facts[id]].facts, id)>>
      BY RowFacts
    <3> QED
      BY <1>5, <3>1
  <2> HIDE DEF rows
  <2>2. x.facts[id] = Latest(Bringing(S, r, id), S)
    <3> HIDE DEF x
    <3>1. Selects(x, Accounts, S, r)
      BY <1>3 DEF x
    <3> QED
      BY <1>1, <2>1, <3>1, CellOwned
  <2>3. Owner(S, r, LAMBDA s : id \in FactIds(s)) = Latest(Bringing(S, r, id), S)
    BY Zenon DEF Owner, Latest, Bringing
  <2> HIDE DEF x
  <2> QED
    BY <2>1, <2>2, <2>3, Zenon
<1>6. ASSUME NEW r \in Realms, NEW id \in DOMAIN owned[r]
      PROVE  LET a == Owner(S, r, LAMBDA s : \E i \in DOMAIN s.promos : s.promos[i].id = id)
             IN  owned[r][id] = Entry(S[a].promos, id)
  <2> DEFINE x == selectionOf(first, S, r)
  <2>1. owned[r] = [p \in DOMAIN x.promos |-> Entry(S[x.promos[p]].promos, p)]
    BY Zenon DEF realmPromotions
  <2> HIDE DEF owned, x
  <2>2. id \in DOMAIN x.promos /\ owned[r][id] = Entry(S[x.promos[id]].promos, id)
    BY <1>6, <2>1
  <2>3. x.promos[id] = Latest(Promoting(S, r, id), S)
    <3>1. Selects(x, Accounts, S, r)
      BY <1>3 DEF x
    <3> QED
      BY <1>1, <2>2, <3>1, CampaignOwned
  <2>4. Owner(S, r, LAMBDA s : \E i \in DOMAIN s.promos : s.promos[i].id = id)
          = Latest(Promoting(S, r, id), S)
    BY Zenon DEF Owner, Latest, Promoting
  <2> QED
    BY <2>2, <2>3, <2>4, Zenon
<1> HIDE DEF rows, owned
<1> QED
  BY <1>4, <1>5, <1>6, Zenon DEF PanelUnion, S, first, rows, owned

\* The panel's rows, states and campaigns are the same for every order of the host's
\* list, and each cell is its owner's copy (panelRealmSelections, panelRealmSourceWins,
\* panelRealmSnapshotBetter), for any number of accounts.
THEOREM OrderIndifferent == Spec => []PanelUnion
  BY Discovered, UnionOfDiscoveries, PTL
-----------------------------------------------------------------------------
(* The views that are built apart.                                          *)

\* What is served, or the configured list when nothing is.
OrConfigured(ids, configured) == IF FirstSeen(ids) = <<>> THEN configured ELSE FirstSeen(ids)

\* The loop of baseModelCatalogTyped, step by step.
LEMMA CatalogSteps ==
    ASSUME NEW l, Len(l) \in Nat, NEW S, NEW configured
    PROVE  \E f : /\ f[0] = <<>>
                  /\ \A n \in 1 .. Len(l) : f[n] = f[n - 1] \o S[l[n]].models
                  /\ baseModelCatalog(l, S, configured) = OrConfigured(f[Len(l)], configured)
<1> DEFINE N == Len(l)
           Step(f, n) == IF n = 0 THEN <<>> ELSE f[n - 1] \o S[l[n]].models
           G == {k \in 0 .. N : \E f : f = [n \in 0 .. k |-> Step(f, n)]}
<1>0. N \in Nat /\ N \in 0 .. N /\ 0 \in 0 .. N
  OBVIOUS
<1>1. 0 \in G
  <2> DEFINE g == [n \in 0 .. 0 |-> <<>>]
  <2>1. g = [n \in 0 .. 0 |-> Step(g, n)]
    OBVIOUS
  <2> HIDE DEF g, Step
  <2> QED
    BY <1>0, <2>1, Zenon
<1>2. ASSUME NEW k \in 0 .. N, k < N, k \in G PROVE k + 1 \in G
  <2>1. PICK f : f = [n \in 0 .. k |-> Step(f, n)]
    BY <1>2
  <2> DEFINE g == [n \in 0 .. k + 1 |-> IF n = k + 1 THEN Step(f, n) ELSE f[n]]
  <2>2. ASSUME NEW n \in 0 .. k + 1 PROVE g[n] = Step(g, n)
    <3>1. n # 0 => n - 1 \in 0 .. k /\ g[n - 1] = f[n - 1]
      OBVIOUS
    <3>2. g[n] = Step(f, n)
      <4>1. CASE n = k + 1
        BY <4>1
      <4>2. CASE n # k + 1
        <5>1. n \in 0 .. k /\ g[n] = f[n]
          BY <4>2
        <5> QED
          BY <2>1, <5>1
      <4> QED
        BY <4>1, <4>2
    <3> QED
      BY <3>1, <3>2
  <2>3. g = [n \in 0 .. k + 1 |-> Step(g, n)]
    BY <2>2
  <2>4. k + 1 \in 0 .. N
    BY <1>0, <1>2
  <2> HIDE DEF g, Step
  <2> QED
    BY <2>3, <2>4, Zenon
<1>3. N \in G
  <2> HIDE DEF G, N
  <2> QED
    BY <1>0, <1>1, <1>2, UpTo
<1> DEFINE f == CHOOSE f : f = [n \in 0 .. N |-> Step(f, n)]
<1>4. f = [n \in 0 .. N |-> Step(f, n)]
  BY <1>3
<1>5. baseModelCatalog(l, S, configured) = OrConfigured(f[N], configured)
  BY Zenon DEF baseModelCatalog, OrConfigured
<1> HIDE DEF f
<1>6. ASSUME NEW n \in 0 .. N PROVE f[n] = Step(f, n)
  <2> HIDE DEF Step, N
  <2> QED
    BY <1>4
<1>7. \A n \in 1 .. N : n \in 0 .. N /\ n # 0
  BY <1>0
<1> HIDE DEF N
<1> QED
  BY <1>0, <1>5, <1>6, <1>7, Zenon DEF N

\* Every model that some account serves is in the catalog.
LEMMA CatalogSet ==
    ASSUME NEW l \in Seq(Accounts), ToSet(l) = Accounts, NEW S,
           \A a \in Accounts : S[a].models \in Seq(STRING), NEW configured \in Seq(STRING)
    PROVE  /\ baseModelCatalog(l, S, configured) \in Seq(STRING)
           /\ \A a \in Accounts : ToSet(S[a].models) \subseteq ToSet(baseModelCatalog(l, S, configured))
<1> DEFINE N == Len(l)
<1>1. N \in Nat /\ 0 \in 0 .. N /\ N \in 0 .. N /\ DOMAIN l = 1 .. N
  OBVIOUS
<1>2. PICK f : /\ f[0] = <<>>
               /\ \A n \in 1 .. N : f[n] = f[n - 1] \o S[l[n]].models
               /\ baseModelCatalog(l, S, configured) = OrConfigured(f[N], configured)
  BY <1>1, CatalogSteps
<1> DEFINE G == {k \in 0 .. N : /\ f[k] \in Seq(STRING)
                                /\ \A i \in 1 .. k : ToSet(S[l[i]].models) \subseteq ToSet(f[k])}
<1>3. 0 \in G
  <2>1. <<>> \in Seq(STRING) /\ \A i \in 1 .. 0 : FALSE
    OBVIOUS
  <2> HIDE DEF N
  <2> QED
    BY <1>1, <1>2, <2>1, Zenon
<1>4. ASSUME NEW k \in 0 .. N, k < N, k \in G PROVE k + 1 \in G
  <2> DEFINE more == S[l[k + 1]].models
  <2>1. k + 1 \in 1 .. N /\ k + 1 \in 0 .. N /\ (k + 1) - 1 = k
    BY <1>1, <1>4
  <2>2. f[k + 1] = f[k] \o more
    BY <1>2, <2>1
  <2>3. more \in Seq(STRING)
    BY <1>1, <2>1
  <2>4. f[k] \in Seq(STRING) /\ \A i \in 1 .. k : ToSet(S[l[i]].models) \subseteq ToSet(f[k])
    BY <1>4
  <2>5. f[k + 1] \in Seq(STRING) /\ ToSet(f[k + 1]) = ToSet(f[k]) \cup ToSet(more)
    <3> HIDE DEF more
    <3> QED
      BY <2>2, <2>3, <2>4, ConcatSet
  <2>6. \A i \in 1 .. k + 1 : i \in 1 .. k \/ i = k + 1
    BY <1>4
  <2>7. \A i \in 1 .. k + 1 : ToSet(S[l[i]].models) \subseteq ToSet(f[k + 1])
    BY <2>4, <2>5, <2>6, Zenon
  <2> QED
    BY <2>1, <2>5, <2>7
<1>5. N \in G
  <2> HIDE DEF G, N
  <2> QED
    BY <1>1, <1>3, <1>4, UpTo
<1>6. f[N] \in Seq(STRING) /\ \A i \in 1 .. N : ToSet(S[l[i]].models) \subseteq ToSet(f[N])
  BY <1>5
<1>7. FirstSeen(f[N]) \in Seq(STRING) /\ ToSet(FirstSeen(f[N])) = ToSet(f[N])
  <2> HIDE DEF N
  <2> QED
    BY <1>6, FirstSeenFacts
<1>8. ASSUME NEW a \in Accounts PROVE ToSet(S[a].models) \subseteq ToSet(FirstSeen(f[N]))
  <2>1. PICK i \in 1 .. N : a = l[i]
    BY <1>1 DEF ToSet
  <2> QED
    BY <1>6, <1>7, <2>1
<1>9. ToSet(<<>>) = {}
  BY DEF ToSet
<1> HIDE DEF N
<1>10. CASE FirstSeen(f[N]) = <<>>
  <2>1. baseModelCatalog(l, S, configured) = configured
    BY <1>2, <1>10 DEF OrConfigured
  <2>2. \A a \in Accounts : ToSet(S[a].models) = {}
    BY <1>8, <1>9, <1>10
  <2> QED
    BY <2>1, <2>2
<1>11. CASE FirstSeen(f[N]) # <<>>
  <2>1. baseModelCatalog(l, S, configured) = FirstSeen(f[N])
    BY <1>2, <1>11 DEF OrConfigured
  <2> QED
    BY <1>7, <1>8, <2>1
<1> QED
  BY <1>10, <1>11

\* A list of some strings is a list of more.
LEMMA Wider ==
    ASSUME NEW X, NEW Y, X \subseteq Y, NEW s \in Seq(X)
    PROVE  s \in Seq(Y)
<1>1. Len(s) \in Nat /\ DOMAIN s = 1 .. Len(s) /\ \A i \in 1 .. Len(s) : s[i] \in X
  OBVIOUS
<1>2. \A i \in 1 .. Len(s) : s[i] \in Y
  BY <1>1
<1> QED
  BY <1>1, <1>2

\* The overlay as a set: what was discovered or added, and is not hidden.
LEMMA OverlaidSet ==
    ASSUME NEW ids \in Seq(STRING), NEW o, IsOverlay(o)
    PROVE  /\ applyModelOverlay(ids, o) \in Seq(STRING \cup o.add)
           /\ ToSet(applyModelOverlay(ids, o)) = (ToSet(ids) \cup o.add) \ o.hide
<1> DEFINE X == STRING \cup o.add
           pins == Those(o.order, ToSet(ids) \ o.hide)
           others == Those(ids, ToSet(ids) \ (o.hide \cup ToSet(o.order)))
           added == SetToSeq(o.add \ o.hide)
<1>1. applyModelOverlay(ids, o) = (pins \o others) \o added
  BY DEF applyModelOverlay, Only, Without
<1>2. o.order \in Seq(STRING) /\ IsFiniteSet(o.add)
  BY DEF IsOverlay
<1>3. pins \in Seq(STRING) /\ ToSet(pins) = ToSet(o.order) \cap (ToSet(ids) \ o.hide)
  BY <1>2, ThoseFacts
<1>4. others \in Seq(STRING) /\ ToSet(others) = ToSet(ids) \cap (ToSet(ids) \ (o.hide \cup ToSet(o.order)))
  BY ThoseFacts
<1>5. added \in Seq(o.add \ o.hide) /\ ToSet(added) = o.add \ o.hide
  <2>1. IsFiniteSet(o.add \ o.hide)
    BY <1>2, FS_Difference
  <2> QED
    BY <2>1, SomeListing, ListsAll
<1> HIDE DEF pins, others, added
<1>6. STRING \subseteq X /\ o.add \ o.hide \subseteq X
  OBVIOUS
<1> HIDE DEF X
<1>7. pins \in Seq(X) /\ others \in Seq(X) /\ added \in Seq(X)
  BY <1>3, <1>4, <1>5, <1>6, Wider
<1>8. pins \o others \in Seq(X) /\ ToSet(pins \o others) = ToSet(pins) \cup ToSet(others)
  BY <1>7, ConcatSet
<1> DEFINE lead == pins \o others
<1> HIDE DEF lead
<1>9. lead \o added \in Seq(X) /\ ToSet(lead \o added) = ToSet(lead) \cup ToSet(added)
  <2>1. lead \in Seq(X)
    BY <1>8 DEF lead
  <2> QED
    BY <1>7, <2>1, ConcatSet
<1>10. ToSet(lead) \cup ToSet(added) = (ToSet(ids) \cup o.add) \ o.hide
  BY <1>3, <1>4, <1>5, <1>8 DEF lead
<1> QED
  BY <1>1, <1>9, <1>10 DEF lead, X

\* The panel lists what the catalog has, hidden models included.
LEMMA AdminSet ==
    ASSUME NEW ids \in Seq(STRING), NEW o, IsOverlay(o)
    PROVE  ToSet(ids) \subseteq ToSet(applyModelOverlayForAdmin(ids, o))
<1> DEFINE X == STRING \cup o.add
           lead == applyModelOverlay(ids, o)
           rest == Those(ids, o.hide)
<1>1. lead \in Seq(X) /\ ToSet(lead) = (ToSet(ids) \cup o.add) \ o.hide
  BY OverlaidSet
<1>2. rest \in Seq(STRING) /\ ToSet(rest) = ToSet(ids) \cap o.hide
  BY ThoseFacts
<1>3. applyModelOverlayForAdmin(ids, o) = lead \o rest
  BY DEF applyModelOverlayForAdmin, Only
<1> HIDE DEF lead, rest
<1>4. STRING \subseteq X
  OBVIOUS
<1> HIDE DEF X
<1>5. rest \in Seq(X)
  BY <1>2, <1>4, Wider
<1>6. ToSet(lead \o rest) = ToSet(lead) \cup ToSet(rest)
  BY <1>1, <1>5, ConcatSet
<1> QED
  BY <1>1, <1>2, <1>3, <1>6

\* filterHiddenModels
LEMMA WithoutSet ==
    ASSUME NEW X, NEW s \in Seq(X), NEW H
    PROVE  ToSet(Without(s, H)) = ToSet(s) \ H
<1>1. ToSet(Those(s, ToSet(s) \ H)) = ToSet(s) \cap (ToSet(s) \ H)
  BY ThoseFacts
<1> QED
  BY <1>1 DEF Without

\* handleModelForAuth: what the account offers or the operator added, and nobody hid.
LEMMA ServedSet ==
    ASSUME IInv, Discoveries, NEW a \in Accounts, executable(visible[a])
    PROVE  ToSet(modelsForAuth(a)) =
             (ToSet(visible[a].models) \cup overlay.add) \ (overlay.hide \cup features.hidden)
<1> DEFINE ids == visible[a].models
           shown == applyModelOverlay(ids, overlay)
<1>1. ids \in Seq(STRING)
  BY VisibleSound DEF Sound
<1>2. IsOverlay(overlay)
  BY DEF IInv, Configs
<1>3. modelsForAuth(a) = Without(shown, features.hidden)
  BY DEF modelsForAuth
<1> HIDE DEF ids
<1>4. /\ shown \in Seq(STRING \cup overlay.add)
      /\ ToSet(shown) = (ToSet(ids) \cup overlay.add) \ overlay.hide
  BY <1>1, <1>2, OverlaidSet
<1> HIDE DEF shown
<1>5. ToSet(modelsForAuth(a)) = ToSet(shown) \ features.hidden
  BY <1>3, <1>4, WithoutSet
<1> QED
  BY <1>4, <1>5 DEF ids

\* A realm's selection shows exactly the models of the accounts that load it.
LEMMA SelectionShows ==
    ASSUME NEW S, Dated(S), \A a \in Accounts : Sound(a, S[a]), NEW r, NEW x,
           Selects(x, Accounts, S, r)
    PROVE  /\ \A id : id \in DOMAIN x.facts <=> \E a \in Loaders(Accounts, S, r) : id \in FactIds(S[a])
           /\ x.loaded <=> \E id : id \in DOMAIN x.facts
           /\ x.loaded \in BOOLEAN
<1> DEFINE L == Loaders(Accounts, S, r)
<1>1. \A a \in L : a \in Accounts /\ loads(S[a])
  BY DEF Loaders, Mine
<1>2. x.loaded = (L # {})
  BY DEF Selects
<1>3. Claims(x.facts, L, S, FactsOf(S))
  BY DEF Selects
<1> HIDE DEF L
<1>4. \A id : id \in DOMAIN x.facts <=> \E a \in L : id \in FactsOf(S)[a]
  BY <1>3, Zenon DEF Claims
<1>5. \A a \in L : FactsOf(S)[a] = FactIds(S[a])
  BY <1>1 DEF FactsOf, FactIds
<1>6. \A id : id \in DOMAIN x.facts <=> \E a \in L : id \in FactIds(S[a])
  BY <1>4, <1>5
<1>7. ASSUME NEW a \in L PROVE \E id : id \in FactIds(S[a])
  <2>1. S[a].facts \in Seq(Fact) /\ S[a].facts # <<>>
    BY <1>1 DEF Sound, loads
  <2>2. 1 \in DOMAIN S[a].facts
    BY <2>1
  <2> QED
    BY <2>2 DEF FactIds
<1>8. x.loaded <=> \E id : id \in DOMAIN x.facts
  BY <1>2, <1>6, <1>7
<1> QED
  BY <1>2, <1>6, <1>8 DEF L

LEMMA LoadingAccount ==
    ASSUME NEW S, NEW a \in Accounts, Sound(a, S[a]), realmOf \in [Accounts -> Realms],
           NEW id \in FactIds(S[a])
    PROVE  /\ realmOf[a] \in Realms /\ a \in Loaders(Accounts, S, realmOf[a])
           /\ id \in ToSet(S[a].models)
<1>1. PICK i \in DOMAIN S[a].facts : id = S[a].facts[i].id
  BY DEF FactIds
<1>2. S[a].facts \in Seq(Fact)
  BY DEF Sound
<1>3. S[a].facts # <<>>
  BY <1>1
<1>4. executable(S[a]) /\ S[a].models = IdsOf(S[a].facts) /\ S[a].realm = realmOf[a]
  BY <1>3 DEF Sound
<1>5. a \in Loaders(Accounts, S, realmOf[a])
  BY <1>3, <1>4 DEF Loaders, Mine, loads
<1>6. ToSet(IdsOf(S[a].facts)) = Named(S[a].facts)
  BY <1>2, IdsOfFacts
<1>7. id \in Named(S[a].facts)
  BY <1>1 DEF Named
<1> QED
  BY <1>4, <1>5, <1>6, <1>7

LEMMA ViewsHold == IInv /\ Discoveries => ViewsAgree
<1> SUFFICES ASSUME IInv, Discoveries PROVE ViewsAgree
  OBVIOUS
<1> DEFINE S == visible
           l == SetToSeq(Accounts)
           rows == buildPanelRealmModels(l, S)
           status == buildPanelRealmStatus(l, S)
           base_ == baseModelCatalog(l, S, features.models)
           catalog == ToSet(base_)
           hidden == overlay.hide \cup features.hidden
           sel(r) == selectionOf(l, S, r)
<1>1. Dated(S) /\ (\A a \in Accounts : Sound(a, S[a])) /\ realmOf \in [Accounts -> Realms]
  BY VisibleSound DEF Discoveries
<1>2. l \in listings
  BY CurationConstants, SomeListing DEF listings
<1>3. l \in Seq(Accounts) /\ ToSet(l) = Accounts
  BY <1>2, CurationConstants, ListsAll DEF listings
<1>4. \A a \in Accounts : executable(S[a]) => ToSet(modelsForAuth(a)) = (ToSet(S[a].models) \cup overlay.add) \ hidden
  BY ServedSet
<1>5. IsOverlay(overlay) /\ features.models \in Seq(STRING)
  <2>1. IsOverlay(overlay) /\ features.models \in Listed
    BY DEF IInv, Configs, IsConfig
  <2>2. Lists \subseteq Seq(STRING) /\ <<>> \in Seq(STRING)
    BY CurationConstants
  <2>3. \A t \in Listed : t \in Lists \/ t = <<>>
    BY DEF Listed
  <2> QED
    BY <2>1, <2>2, <2>3, Zenon
<1> HIDE DEF S, l
<1>6. base_ \in Seq(STRING) /\ \A a \in Accounts : ToSet(S[a].models) \subseteq catalog
  <2>1. \A a \in Accounts : S[a].models \in Seq(STRING)
    BY <1>1 DEF Sound
  <2> QED
    BY <1>3, <1>5, <2>1, CatalogSet
<1>7. catalog \subseteq ToSet(applyModelOverlayForAdmin(base_, overlay))
  <2> HIDE DEF base_
  <2> QED
    BY <1>5, <1>6, AdminSet
<1>8. \A r \in Realms : Selects(sel(r), Accounts, S, r)
  BY <1>1, <1>2, OneSelection
<1>9. ASSUME NEW r \in Realms
      PROVE  /\ \A id : id \in DOMAIN sel(r).facts <=>
                  \E a \in Loaders(Accounts, S, r) : id \in FactIds(S[a])
             /\ sel(r).loaded <=> \E id : id \in DOMAIN sel(r).facts
             /\ sel(r).loaded \in BOOLEAN
  <2> DEFINE x == sel(r)
  <2>1. Selects(x, Accounts, S, r)
    BY <1>8
  <2> HIDE DEF x
  <2>2. /\ \A id : id \in DOMAIN x.facts <=>
                  \E a \in Loaders(Accounts, S, r) : id \in FactIds(S[a])
        /\ x.loaded <=> \E id : id \in DOMAIN x.facts
        /\ x.loaded \in BOOLEAN
    BY <1>1, <2>1, SelectionShows
  <2> QED
    BY <2>2 DEF x
<1>10. \A id : id \in DOMAIN rows <=> \E r \in Realms : sel(r).loaded /\ id \in DOMAIN sel(r).facts
  BY RowFacts
<1>11. ASSUME NEW id \in DOMAIN rows, NEW r \in Realms
       PROVE  rows[id][r].status = IF ~sel(r).loaded THEN "not_loaded"
                                   ELSE IF id \notin DOMAIN sel(r).facts THEN "absent" ELSE "present"
  BY RowFacts
<1>12. \A r \in Realms : status[r].loaded = sel(r).loaded
  BY DEF buildPanelRealmStatus
<1>13. \A r \in Realms : promotionPanelStatus(l, S, r) \in {"loaded", "empty"} => sel(r).loaded
  BY DEF promotionPanelStatus
<1> HIDE DEF rows, status, sel
<1>14. ASSUME NEW r \in Realms
       PROVE  /\ status[r].loaded <=> \E id \in DOMAIN rows : rows[id][r].status = "present"
              /\ status[r].loaded => \A id \in DOMAIN rows : rows[id][r].status # "not_loaded"
              /\ promotionPanelStatus(l, S, r) \in {"loaded", "empty"} => status[r].loaded
  BY <1>9, <1>10, <1>11, <1>12, <1>13
<1>15. DOMAIN rows \subseteq catalog
  <2> SUFFICES ASSUME NEW id \in DOMAIN rows PROVE id \in catalog
    OBVIOUS
  <2>1. PICK r \in Realms : id \in DOMAIN sel(r).facts
    BY <1>10
  <2>2. PICK a \in Loaders(Accounts, S, r) : id \in FactIds(S[a])
    BY <1>9, <2>1
  <2>3. a \in Accounts
    BY DEF Loaders, Mine
  <2>4. id \in ToSet(S[a].models)
    BY <1>1, <2>2, <2>3, LoadingAccount
  <2> QED
    BY <1>6, <2>3, <2>4
<1>16. ASSUME NEW a \in Accounts, NEW id \in FactIds(S[a])
       PROVE  rows[id][realmOf[a]].status = "present"
  <2> DEFINE r == realmOf[a]
  <2>1. r \in Realms /\ a \in Loaders(Accounts, S, r)
    BY <1>1, LoadingAccount
  <2> HIDE DEF r
  <2>2. id \in DOMAIN sel(r).facts /\ sel(r).loaded
    BY <1>9, <2>1
  <2>3. id \in DOMAIN rows
    BY <1>10, <2>1, <2>2
  <2> QED
    BY <1>11, <2>1, <2>2, <2>3 DEF r
<1> HIDE DEF base_, catalog, hidden
<1> QED
  BY <1>4, <1>6, <1>7, <1>14, <1>15, <1>16, Zenon
     DEF ViewsAgree, S, l, rows, status, base_, catalog, hidden

\* The views that are built apart tell one story (buildPanelRealmModels,
\* buildPanelRealmStatus, promotionPanelStatus, baseModelCatalogTyped,
\* applyModelOverlayForAdmin, handleModelForAuth), for any accounts and any overlay.
THEOREM OneStory == Spec => []ViewsAgree
  BY Carrying, Discovered, ViewsHold, PTL
=============================================================================
