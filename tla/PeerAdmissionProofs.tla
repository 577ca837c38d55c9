------------------------- MODULE PeerAdmissionProofs -------------------------
(***************************************************************************)
(* Proofs about PeerAdmission for every set of torrents and every setting: *)
(* the peer budget's counters are the permits that exist and what is not   *)
(* cancelled fits the absolute limit, a disabled listener keeps no peer,   *)
(* and lowering the limit cancels no more peers than it must.              *)
(***************************************************************************)
EXTENDS PeerAdmission, FiniteSetTheorems, WellFoundedInduction, TLAPS

-----------------------------------------------------------------------------
(* Counting the elements of a sequence. *)

\* the places of s with an element of P, and how many there are
Places(s, P) == {i \in 1 .. Len(s) : s[i] \in P}
Count(s, P) == Cardinality(Places(s, P))

\* There are n places in a sequence of length n.
LEMMA IntervalCardinality ==
  ASSUME NEW n \in Nat
  PROVE  IsFiniteSet(1 .. n) /\ Cardinality(1 .. n) = n
BY FS_Interval

\* The places of a sequence are finitely many.
LEMMA PlacesFinite ==
  ASSUME NEW s, Len(s) \in Nat, NEW P
  PROVE  IsFiniteSet(Places(s, P)) /\ Count(s, P) \in Nat /\ Count(s, P) <= Len(s)
<1>1. IsFiniteSet(1 .. Len(s)) /\ Cardinality(1 .. Len(s)) = Len(s)
  BY IntervalCardinality
<1>2. Places(s, P) \subseteq 1 .. Len(s)
  BY DEF Places
<1>3. IsFiniteSet(Places(s, P)) /\ Cardinality(Places(s, P)) <= Cardinality(1 .. Len(s))
  BY <1>1, <1>2, FS_Subset
<1>4. Cardinality(Places(s, P)) \in Nat
  BY <1>3, FS_CardinalityType
<1> QED BY <1>1, <1>3, <1>4 DEF Count

\* One element more.
LEMMA CountAppend ==
  ASSUME NEW E, NEW s \in Seq(E), NEW x \in E, NEW P
  PROVE  Count(Append(s, x), P) = IF x \in P THEN Count(s, P) + 1 ELSE Count(s, P)
<1> DEFINE n == Len(s)
<1>1. /\ Len(Append(s, x)) = n + 1 /\ n \in Nat
      /\ \A i \in 1 .. n : Append(s, x)[i] = s[i]
      /\ Append(s, x)[n + 1] = x
  OBVIOUS
<1>2. 1 .. (n + 1) = (1 .. n) \cup {n + 1} /\ n + 1 \notin 1 .. n
  BY <1>1
<1>3. Places(Append(s, x), P) = Places(s, P) \cup (IF x \in P THEN {n + 1} ELSE {})
  <2> DEFINE q == Append(s, x)
  <2>1. /\ Len(q) = n + 1 /\ \A i \in 1 .. n : q[i] = s[i]
        /\ q[n + 1] = x
    BY <1>1
  <2> HIDE DEF q
  <2> QED BY <2>1, <1>2 DEF Places
<1>4. n + 1 \notin Places(s, P) /\ IsFiniteSet(Places(s, P))
  BY <1>1, <1>2, PlacesFinite DEF Places
<1>5. CASE x \in P
  <2>1. Cardinality(Places(s, P) \cup {n + 1}) = Cardinality(Places(s, P)) + 1
    BY <1>4, FS_AddElement
  <2> QED BY <1>3, <1>5, <2>1 DEF Count
<1>6. CASE x \notin P
  <2>1. Places(Append(s, x), P) = Places(s, P)
    BY <1>3, <1>6
  <2> QED BY <1>6, <2>1 DEF Count
<1> QED BY <1>5, <1>6

-----------------------------------------------------------------------------
(* Retaining some of the elements of a sequence. *)

\* Induction over the natural numbers, for the set of numbers with a property.
LEMMA Induction ==
  ASSUME NEW S, 0 \in S, \A n \in Nat : n \in S => n + 1 \in S
  PROVE  Nat \subseteq S
<1> SUFFICES ASSUME Nat \ S # {} PROVE FALSE
  OBVIOUS
<1>1. PICK n \in Nat \ S : \A m \in Nat \ S : ~ (<<m, n>> \in OpToRel(<, Nat))
  BY WFMin, NatLessThanWellFounded, Zenon
<1>2. \A m \in Nat : m < n => m \in S
  BY <1>1 DEF OpToRel
<1>3. n \in Nat /\ n # 0
  BY <1>1
<1>4. n - 1 \in Nat /\ n - 1 < n /\ (n - 1) + 1 = n
  BY <1>3
<1> QED BY <1>1, <1>2, <1>4

\* f[i] has the elements of s at those of the places S that are at most i
Keeps(s, S, n, f) ==
  f = [i \in 0 .. n |->
         IF i = 0 THEN <<>> ELSE IF i \in S THEN Append(f[i - 1], s[i]) ELSE f[i - 1]]

\* The recursive function of Retain exists.
LEMMA KeepsExists ==
  ASSUME NEW s, NEW S
  PROVE  \A n \in Nat : \E f : Keeps(s, S, n, f)
<1> DEFINE N == {n \in Nat : \E f : Keeps(s, S, n, f)}
<1>1. 0 \in N
  <2> DEFINE f == [i \in 0 .. 0 |-> <<>>]
  <2>1. \A i \in 0 .. 0 : i = 0
    OBVIOUS
  <2>2. Keeps(s, S, 0, f)
    BY <2>1 DEF Keeps
  <2> QED BY <2>2
<1>2. ASSUME NEW n \in Nat, n \in N PROVE n + 1 \in N
  <2>1. PICK f : Keeps(s, S, n, f)
    BY <1>2
  <2> DEFINE h == [i \in 0 .. (n + 1) |->
                     IF i = 0 THEN <<>> ELSE IF i \in S THEN Append(f[i - 1], s[i]) ELSE f[i - 1]]
  <2>2. \A i \in 0 .. n : i \in 0 .. (n + 1) /\ h[i] = f[i]
    <3>1. \A i \in 0 .. n : i \in 0 .. (n + 1)
      OBVIOUS
    <3>2. \A i \in 0 .. n :
            f[i] = IF i = 0 THEN <<>> ELSE IF i \in S THEN Append(f[i - 1], s[i]) ELSE f[i - 1]
      BY <2>1 DEF Keeps
    <3> QED BY <3>1, <3>2
  <2>3. \A i \in 0 .. (n + 1) : i # 0 => i - 1 \in 0 .. n
    OBVIOUS
  <2>4. \A i \in 0 .. (n + 1) : i # 0 => h[i - 1] = f[i - 1]
    <3> HIDE DEF h
    <3> QED BY <2>2, <2>3
  <2>5. Keeps(s, S, n + 1, h)
    BY <2>4 DEF Keeps
  <2> HIDE DEF h
  <2> QED BY <2>5
<1>3. Nat \subseteq N
  <2> HIDE DEF N
  <2> QED BY <1>1, <1>2, Induction
<1> QED BY <1>3

\* Retain is its last value.
LEMMA RetainKeeps ==
  ASSUME NEW s, Len(s) \in Nat, NEW S
  PROVE  \E f : Keeps(s, S, Len(s), f) /\ Retain(s, S) = f[Len(s)]
<1> DEFINE k == CHOOSE f : Keeps(s, S, Len(s), f)
<1>1. Retain(s, S) = k[Len(s)]
  BY Zenon DEF Retain, Keeps
<1>2. Keeps(s, S, Len(s), k)
  BY KeepsExists
<1> HIDE DEF k
<1> QED BY <1>1, <1>2

\* the elements of q come from the places of s in S
From(q, s, S) == \A k \in 1 .. Len(q) : \E i \in 1 .. Len(s) : i \in S /\ q[k] = s[i]

\* What is retained: elements of s, from the places S.
LEMMA RetainType ==
  ASSUME NEW E, NEW s \in Seq(E), NEW S
  PROVE  Retain(s, S) \in Seq(E) /\ From(Retain(s, S), s, S)
<1>1. Len(s) \in Nat /\ \A i \in 1 .. Len(s) : s[i] \in E
  OBVIOUS
<1>2. PICK f : Keeps(s, S, Len(s), f) /\ Retain(s, S) = f[Len(s)]
  BY <1>1, RetainKeeps
<1>3. \A i \in 0 .. Len(s) :
        f[i] = IF i = 0 THEN <<>> ELSE IF i \in S THEN Append(f[i - 1], s[i]) ELSE f[i - 1]
  BY <1>2 DEF Keeps
<1> DEFINE N == {n \in Nat : n <= Len(s) => f[n] \in Seq(E) /\ From(f[n], s, S)}
<1>4. 0 \in N
  <2>1. f[0] = <<>>
    BY <1>1, <1>3
  <2>2. <<>> \in Seq(E) /\ Len(<<>>) = 0 /\ 1 .. 0 = {}
    OBVIOUS
  <2>3. From(<<>>, s, S)
    BY <2>2 DEF From
  <2> QED BY <2>1, <2>2, <2>3
<1>5. ASSUME NEW n \in Nat, n \in N PROVE n + 1 \in N
  <2> SUFFICES ASSUME n + 1 <= Len(s) PROVE f[n + 1] \in Seq(E) /\ From(f[n + 1], s, S)
    OBVIOUS
  <2>1. f[n] \in Seq(E) /\ From(f[n], s, S)
    BY <1>1, <1>5
  <2>2. /\ n + 1 \in 0 .. Len(s) /\ n + 1 # 0 /\ (n + 1) - 1 = n
        /\ n + 1 \in 1 .. Len(s)
    BY <1>1
  <2>3. CASE n + 1 \in S
    <3> DEFINE q == f[n]
               x == s[n + 1]
    <3>1. f[n + 1] = Append(q, x) /\ x \in E
      BY <1>1, <1>3, <2>2, <2>3
    <3>2. q \in Seq(E)
      BY <2>1
    <3>3. \A k \in 1 .. Len(q) : \E i \in 1 .. Len(s) : i \in S /\ q[k] = s[i]
      BY <2>1 DEF From
    <3>4. \E i \in 1 .. Len(s) : i \in S /\ x = s[i]
      BY <2>2, <2>3
    <3> HIDE DEF q, x
    <3>5. /\ Append(q, x) \in Seq(E) /\ Len(Append(q, x)) = Len(q) + 1 /\ Len(q) \in Nat
          /\ \A k \in 1 .. Len(q) : Append(q, x)[k] = q[k]
          /\ Append(q, x)[Len(q) + 1] = x
      BY <3>1, <3>2
    <3>6. \A k \in 1 .. (Len(q) + 1) : k \in 1 .. Len(q) \/ k = Len(q) + 1
      BY <3>5
    <3>7. From(Append(q, x), s, S)
      BY <3>3, <3>4, <3>5, <3>6 DEF From
    <3> QED BY <3>1, <3>5, <3>7
  <2>4. CASE n + 1 \notin S
    <3>1. f[n + 1] = f[n]
      BY <1>3, <2>2, <2>4
    <3> QED BY <2>1, <3>1
  <2> QED BY <2>3, <2>4
<1>6. Nat \subseteq N
  <2> HIDE DEF N
  <2> QED BY <1>4, <1>5, Induction
<1>7. Len(s) \in N
  BY <1>1, <1>6
<1> QED BY <1>1, <1>2, <1>7

\* How many of the retained elements are in P.
LEMMA RetainCount ==
  ASSUME NEW E, NEW s \in Seq(E), NEW S, NEW P
  PROVE  Count(Retain(s, S), P) = Cardinality(Places(s, P) \cap S)
<1>1. Len(s) \in Nat /\ \A i \in 1 .. Len(s) : s[i] \in E
  OBVIOUS
<1>2. PICK f : Keeps(s, S, Len(s), f) /\ Retain(s, S) = f[Len(s)]
  BY <1>1, RetainKeeps
<1>3. \A i \in 0 .. Len(s) :
        f[i] = IF i = 0 THEN <<>> ELSE IF i \in S THEN Append(f[i - 1], s[i]) ELSE f[i - 1]
  BY <1>2 DEF Keeps
<1> DEFINE K(n) == {i \in 1 .. n : i \in S /\ s[i] \in P}
           N == {n \in Nat : n <= Len(s) => f[n] \in Seq(E) /\ Count(f[n], P) = Cardinality(K(n))}
<1>4. 0 \in N
  <2>1. f[0] = <<>>
    BY <1>1, <1>3
  <2>2. Places(f[0], P) = {} /\ K(0) = {}
    BY <2>1 DEF Places
  <2>3. f[0] \in Seq(E)
    BY <2>1
  <2>4. Count(f[0], P) = Cardinality(K(0))
    BY <2>2 DEF Count
  <2> HIDE DEF K
  <2> QED BY <2>3, <2>4
<1>5. ASSUME NEW n \in Nat, n \in N PROVE n + 1 \in N
  <2> SUFFICES ASSUME n + 1 <= Len(s)
               PROVE  f[n + 1] \in Seq(E) /\ Count(f[n + 1], P) = Cardinality(K(n + 1))
    OBVIOUS
  <2>1. f[n] \in Seq(E) /\ Count(f[n], P) = Cardinality(K(n))
    BY <1>1, <1>5
  <2>2. /\ n + 1 \in 0 .. Len(s) /\ n + 1 # 0 /\ (n + 1) - 1 = n
        /\ s[n + 1] \in E
    BY <1>1
  <2>3. IsFiniteSet(K(n)) /\ n + 1 \notin K(n)
    <3>1. IsFiniteSet(1 .. n) /\ K(n) \subseteq 1 .. n
      BY FS_Interval
    <3>2. IsFiniteSet(K(n))
      BY <3>1, FS_Subset
    <3> QED BY <3>2
  <2>4. K(n + 1) = K(n) \cup (IF n + 1 \in S /\ s[n + 1] \in P THEN {n + 1} ELSE {})
    <3>1. 1 .. (n + 1) = (1 .. n) \cup {n + 1}
      OBVIOUS
    <3> QED BY <3>1
  <2> HIDE DEF K
  <2>5. CASE n + 1 \in S
    <3>1. f[n + 1] = Append(f[n], s[n + 1])
      BY <1>3, <2>2, <2>5
    <3>2. f[n + 1] \in Seq(E)
      BY <2>1, <2>2, <3>1
    <3>3. Count(f[n + 1], P) = IF s[n + 1] \in P THEN Count(f[n], P) + 1 ELSE Count(f[n], P)
      BY <2>1, <2>2, <3>1, CountAppend
    <3>4. CASE s[n + 1] \in P
      <4>1. Cardinality(K(n) \cup {n + 1}) = Cardinality(K(n)) + 1
        BY <2>3, FS_AddElement
      <4> QED BY <2>1, <2>4, <2>5, <3>2, <3>3, <3>4, <4>1
    <3>5. CASE s[n + 1] \notin P
      <4>1. K(n + 1) = K(n)
        BY <2>4, <3>5
      <4> QED BY <2>1, <3>2, <3>3, <3>5, <4>1
    <3> QED BY <3>4, <3>5
  <2>6. CASE n + 1 \notin S
    <3>1. f[n + 1] = f[n]
      BY <1>3, <2>2, <2>6
    <3>2. K(n + 1) = K(n)
      BY <2>4, <2>6
    <3> QED BY <2>1, <3>1, <3>2
  <2> QED BY <2>5, <2>6
<1>6. Nat \subseteq N
  <2> HIDE DEF N
  <2> QED BY <1>4, <1>5, Induction
<1>7. Len(s) \in N
  BY <1>1, <1>6
<1>8. K(Len(s)) = Places(s, P) \cap S
  BY DEF Places
<1> HIDE DEF K
<1>9. Count(f[Len(s)], P) = Cardinality(K(Len(s)))
  BY <1>1, <1>7
<1>10. Count(Retain(s, S), P) = Cardinality(K(Len(s)))
  BY <1>2, <1>9
<1> QED BY <1>8, <1>10

-----------------------------------------------------------------------------
(* The inductive invariant. *)

\* the permits of a direction and a phase, and those nobody cancelled
Kind(d, p) == {e \in Entry : e.direction = d /\ e.phase = p}
Live == {e \in Entry : ~e.cancelled}

\* the counters k count the permits q
Exact(q, k) == \A d \in Direction, p \in Phase : k[<<d, p>>] = Count(q, Kind(d, p))

Types == TypeOK /\ registered \subseteq Torrent
BudgetInv == Types /\ Exact(entries, counters) /\ Count(entries, Live) <= AbsoluteLimit

\* The invariant in the words of BudgetExact.
LEMMA ExactMeaning ==
  ASSUME entries \in Seq(Entry)
  PROVE  /\ Standing = Places(entries, Live)
         /\ \A d \in Direction, p \in Phase :
              {i \in DOMAIN entries : entries[i].direction = d /\ entries[i].phase = p}
                = Places(entries, Kind(d, p))
<1>1. DOMAIN entries = 1 .. Len(entries) /\ \A i \in 1 .. Len(entries) : entries[i] \in Entry
  OBVIOUS
<1>2. Standing = Places(entries, Live)
  BY <1>1 DEF Standing, Places, Live
<1>3. ASSUME NEW d \in Direction, NEW p \in Phase
      PROVE  {i \in DOMAIN entries : entries[i].direction = d /\ entries[i].phase = p}
               = Places(entries, Kind(d, p))
  BY <1>1 DEF Places, Kind
<1> QED BY <1>2, <1>3

\* The sum of the counters is the number of permits.
LEMMA TotalIsLength ==
  ASSUME entries \in Seq(Entry), Exact(entries, counters)
  PROVE  Total = Len(entries)
<1> DEFINE A == Places(entries, Kind("outgoing", "connecting"))
           B == Places(entries, Kind("outgoing", "established"))
           C == Places(entries, Kind("incoming", "connecting"))
           D == Places(entries, Kind("incoming", "established"))
<1>1. Len(entries) \in Nat /\ \A i \in 1 .. Len(entries) : entries[i] \in Entry
  OBVIOUS
<1>2. /\ IsFiniteSet(A) /\ IsFiniteSet(B) /\ IsFiniteSet(C) /\ IsFiniteSet(D)
  BY <1>1, PlacesFinite
<1>3. Total = Cardinality(A) + Cardinality(B) + Cardinality(C) + Cardinality(D)
  BY DEF Total, Exact, Count, Direction, Phase
<1>4. A \cup B \cup C \cup D = 1 .. Len(entries)
  <2>1. \A e \in Entry : e.direction \in Direction /\ e.phase \in Phase
    BY DEF Entry
  <2> QED BY <1>1, <2>1 DEF Places, Kind, Direction, Phase
<1>5. A \cap B = {} /\ (A \cup B) \cap C = {} /\ (A \cup B \cup C) \cap D = {}
  BY DEF Places, Kind
<1> HIDE DEF A, B, C, D
<1>6. Cardinality(1 .. Len(entries)) = Len(entries)
  BY <1>1, IntervalCardinality
<1>7. Cardinality({}) = 0
  BY FS_EmptySet, Zenon
<1>8. /\ Cardinality(A) \in Nat /\ Cardinality(B) \in Nat
      /\ Cardinality(C) \in Nat /\ Cardinality(D) \in Nat
  BY <1>2, FS_CardinalityType
<1>9. IsFiniteSet(A \cup B) /\ Cardinality(A \cup B) = Cardinality(A) + Cardinality(B)
  <2>1. /\ IsFiniteSet(A \cup B)
        /\ Cardinality(A \cup B) = Cardinality(A) + Cardinality(B) - Cardinality(A \cap B)
    BY <1>2, FS_Union
  <2>2. Cardinality(A \cap B) = 0
    BY <1>5, <1>7
  <2> QED BY <1>8, <2>1, <2>2
<1>10. /\ IsFiniteSet(A \cup B \cup C)
       /\ Cardinality(A \cup B \cup C) = Cardinality(A) + Cardinality(B) + Cardinality(C)
  <2>1. /\ IsFiniteSet((A \cup B) \cup C)
        /\ Cardinality((A \cup B) \cup C)
             = Cardinality(A \cup B) + Cardinality(C) - Cardinality((A \cup B) \cap C)
    BY <1>2, <1>9, FS_Union
  <2>2. Cardinality((A \cup B) \cap C) = 0
    BY <1>5, <1>7
  <2> QED BY <1>8, <1>9, <2>1, <2>2
<1>11. Cardinality((A \cup B \cup C) \cup D)
         = Cardinality(A \cup B \cup C) + Cardinality(D) - Cardinality((A \cup B \cup C) \cap D)
  BY <1>2, <1>10, FS_Union
<1>12. Cardinality(A \cup B \cup C \cup D) = Len(entries)
  BY <1>4, <1>6
<1>13. Cardinality((A \cup B \cup C) \cap D) = 0
  BY <1>5, <1>7
<1> QED BY <1>3, <1>8, <1>10, <1>11, <1>12, <1>13

-----------------------------------------------------------------------------
(* What the lock sections do to the permits. *)

\* the permit that acquire makes
Fresh(d, o) == [owner |-> o, direction |-> d, phase |-> "connecting",
                cancelled |-> FALSE, checked |-> d = "outgoing"]

\* A new entry of PeerBudget is live and connecting.
LEMMA FreshFacts ==
  ASSUME NEW d \in Direction, NEW o \in Torrent \cup {None}
  PROVE  /\ Fresh(d, o) \in Entry /\ Fresh(d, o) \in Live
         /\ \A dd \in Direction, p \in Phase :
              Fresh(d, o) \in Kind(dd, p) <=> dd = d /\ p = "connecting"
<1>1. Fresh(d, o) \in Entry
  BY DEF Fresh, Entry, Direction, Phase
<1> QED BY <1>1 DEF Fresh, Live, Kind

\* acquire
LEMMA AcquireKeeps ==
  ASSUME BudgetInv, NEW d \in Direction, NEW o \in Torrent \cup {None}, Acquire(d, o)
  PROVE  /\ entries' \in Seq(Entry) /\ counters' \in [Direction \X Phase -> Nat]
         /\ Exact(entries', counters') /\ Count(entries', Live) <= AbsoluteLimit
<1>0. /\ entries \in Seq(Entry) /\ counters \in [Direction \X Phase -> Nat]
      /\ Exact(entries, counters) /\ limit \in Nat /\ Slack \in Nat
  BY PeerAdmissionAssumption DEF BudgetInv, Types, TypeOK
<1> DEFINE e == Fresh(d, o)
<1>1. e \in Entry /\ e \in Live
  BY FreshFacts
<1>2. entries' = Append(entries, e) /\ Total < Maximum(d)
      /\ counters' = [counters EXCEPT ![<<d, "connecting">>] = @ + 1]
  BY DEF Acquire, Fresh
<1>3. \A dd \in Direction, p \in Phase : e \in Kind(dd, p) <=> dd = d /\ p = "connecting"
  BY FreshFacts
<1> HIDE DEF e
<1>4. entries' \in Seq(Entry)
  BY <1>0, <1>1, <1>2
<1>5. <<d, "connecting">> \in Direction \X Phase
  BY DEF Phase
<1>6. counters' \in [Direction \X Phase -> Nat]
  BY <1>0, <1>2, <1>5
<1>7. Exact(entries', counters')
  <2> SUFFICES ASSUME NEW dd \in Direction, NEW p \in Phase
               PROVE  counters'[<<dd, p>>] = Count(entries', Kind(dd, p))
    BY Zenon DEF Exact
  <2>1. Count(entries', Kind(dd, p))
          = IF e \in Kind(dd, p) THEN Count(entries, Kind(dd, p)) + 1 ELSE Count(entries, Kind(dd, p))
    BY <1>0, <1>1, <1>2, CountAppend
  <2>2. counters[<<dd, p>>] = Count(entries, Kind(dd, p)) /\ <<dd, p>> \in Direction \X Phase
    BY <1>0 DEF Exact
  <2>3. counters'[<<dd, p>>]
          = IF dd = d /\ p = "connecting" THEN counters[<<dd, p>>] + 1 ELSE counters[<<dd, p>>]
    BY <1>0, <1>2, <2>2
  <2> QED BY <1>3, <2>1, <2>2, <2>3
<1>8. Count(entries', Live) <= AbsoluteLimit
  <2>1. Count(entries', Live) = Count(entries, Live) + 1
    BY <1>0, <1>1, <1>2, CountAppend
  <2>2. Count(entries, Live) \in Nat /\ Count(entries, Live) <= Len(entries) /\ Len(entries) \in Nat
    BY <1>0, PlacesFinite
  <2>3. Len(entries) < Maximum(d)
    BY <1>0, <1>2, TotalIsLength
  <2>4. Maximum(d) <= AbsoluteLimit /\ Maximum(d) \in Nat /\ AbsoluteLimit \in Nat
    BY <1>0 DEF Maximum, AbsoluteLimit
  <2> QED BY <2>1, <2>2, <2>3, <2>4
<1> QED BY <1>4, <1>6, <1>7, <1>8

\* Dropping the permits at the places G.
LEMMA DropKeeps ==
  ASSUME BudgetInv, NEW G \in SUBSET DOMAIN entries, entries' = Without(G),
         counters' \in [Direction \X Phase -> Int],
         \A d \in Direction, p \in Phase :
           counters'[<<d, p>>] = counters[<<d, p>>] - Cardinality(Places(entries, Kind(d, p)) \cap G)
  PROVE  /\ entries' \in Seq(Entry) /\ counters' \in [Direction \X Phase -> Nat]
         /\ Exact(entries', counters') /\ Count(entries', Live) <= AbsoluteLimit
         /\ \A k \in DOMAIN entries' : \E i \in DOMAIN entries : entries'[k] = entries[i]
<1> DEFINE S == DOMAIN entries \ G
<1>0. /\ entries \in Seq(Entry) /\ Exact(entries, counters)
      /\ Count(entries, Live) <= AbsoluteLimit
      /\ AbsoluteLimit \in Nat /\ Len(entries) \in Nat /\ DOMAIN entries = 1 .. Len(entries)
  BY PeerAdmissionAssumption DEF BudgetInv, Types, TypeOK, AbsoluteLimit
<1>1. entries' = Retain(entries, S)
  BY DEF Without
<1>2. entries' \in Seq(Entry) /\ From(entries', entries, S)
  BY <1>0, <1>1, RetainType
<1>3. ASSUME NEW P PROVE Count(entries', P) = Cardinality(Places(entries, P) \ G)
                         /\ IsFiniteSet(Places(entries, P))
  <2>1. Count(entries', P) = Cardinality(Places(entries, P) \cap S)
    BY <1>0, <1>1, RetainCount
  <2>2. Places(entries, P) \cap S = Places(entries, P) \ G
    BY <1>0 DEF Places
  <2>3. IsFiniteSet(Places(entries, P))
    BY <1>0, PlacesFinite
  <2> QED BY <2>1, <2>2, <2>3
<1>4. ASSUME NEW d \in Direction, NEW p \in Phase
      PROVE  counters'[<<d, p>>] = Count(entries', Kind(d, p)) /\ counters'[<<d, p>>] \in Nat
  <2> DEFINE Q == Places(entries, Kind(d, p))
  <2>1. IsFiniteSet(Q) /\ Count(entries', Kind(d, p)) = Cardinality(Q \ G)
    BY <1>3
  <2>2. counters[<<d, p>>] = Cardinality(Q)
    BY <1>0 DEF Exact, Count
  <2>3. counters'[<<d, p>>] = counters[<<d, p>>] - Cardinality(Q \cap G)
    OBVIOUS
  <2> HIDE DEF Q
  <2>4. Cardinality(Q \ G) = Cardinality(Q) - Cardinality(Q \cap G) /\ IsFiniteSet(Q \ G)
    BY <2>1, FS_Difference
  <2>5. Cardinality(Q \ G) \in Nat
    BY <2>4, FS_CardinalityType
  <2> QED BY <2>1, <2>2, <2>3, <2>4, <2>5
<1>5. Exact(entries', counters')
  BY <1>4, Zenon DEF Exact
<1>6. counters' \in [Direction \X Phase -> Nat]
  BY <1>4
<1>7. Count(entries', Live) <= AbsoluteLimit
  <2>1. Count(entries', Live) = Cardinality(Places(entries, Live) \ G)
        /\ IsFiniteSet(Places(entries, Live))
    BY <1>3
  <2>2. /\ Cardinality(Places(entries, Live) \ G) <= Cardinality(Places(entries, Live))
        /\ IsFiniteSet(Places(entries, Live) \ G)
    BY <2>1, FS_Subset
  <2>3. Cardinality(Places(entries, Live) \ G) \in Nat /\ Cardinality(Places(entries, Live)) \in Nat
    BY <2>1, <2>2, FS_CardinalityType
  <2> QED BY <1>0, <2>1, <2>2, <2>3 DEF Count
<1>8. \A k \in DOMAIN entries' : \E i \in DOMAIN entries : entries'[k] = entries[i]
  <2>1. DOMAIN entries' = 1 .. Len(entries')
    BY <1>2
  <2> QED BY <1>0, <1>2, <2>1 DEF From
<1> QED BY <1>2, <1>5, <1>6, <1>7, <1>8

\* A change that leaves every permit at its place, with its direction and phase.
LEMMA StayKeeps ==
  ASSUME entries \in Seq(Entry), Exact(entries, counters), entries' \in Seq(Entry),
         Len(entries') = Len(entries), counters' = counters,
         \A i \in 1 .. Len(entries) : entries'[i].direction = entries[i].direction
                                      /\ entries'[i].phase = entries[i].phase
  PROVE  Exact(entries', counters')
<1>1. /\ \A i \in 1 .. Len(entries) : entries[i] \in Entry
      /\ \A i \in 1 .. Len(entries') : entries'[i] \in Entry
  OBVIOUS
<1>2. ASSUME NEW d \in Direction, NEW p \in Phase
      PROVE  Count(entries', Kind(d, p)) = Count(entries, Kind(d, p))
  <2>1. Places(entries', Kind(d, p)) = Places(entries, Kind(d, p))
    BY <1>1 DEF Places, Kind
  <2> QED BY <2>1 DEF Count
<1>3. ASSUME NEW d \in Direction, NEW p \in Phase
      PROVE  counters'[<<d, p>>] = Count(entries', Kind(d, p))
  BY <1>2 DEF Exact
<1> QED BY <1>3, Zenon DEF Exact

\* What is cancelled stays so: no more permits stand.
LEMMA FewerStand ==
  ASSUME entries \in Seq(Entry), entries' \in Seq(Entry), Len(entries') = Len(entries),
         \A i \in 1 .. Len(entries) : entries[i].cancelled => entries'[i].cancelled
  PROVE  Count(entries', Live) <= Count(entries, Live)
<1>1. /\ \A i \in 1 .. Len(entries) : entries[i] \in Entry
      /\ \A i \in 1 .. Len(entries') : entries'[i] \in Entry
      /\ Len(entries) \in Nat
  OBVIOUS
<1>2. Places(entries', Live) \subseteq Places(entries, Live)
  BY <1>1 DEF Places, Live
<1>3. IsFiniteSet(Places(entries, Live))
  BY <1>1, PlacesFinite
<1> QED BY <1>2, <1>3, FS_Subset DEF Count

\* mark_established: one permit changes its phase and its counter.
LEMMA EstablishKeeps ==
  ASSUME BudgetInv, NEW i \in DOMAIN entries, Establish(i)
  PROVE  /\ entries' \in Seq(Entry) /\ counters' \in [Direction \X Phase -> Nat]
         /\ Exact(entries', counters') /\ Count(entries', Live) <= AbsoluteLimit
<1>0. /\ entries \in Seq(Entry) /\ Exact(entries, counters)
      /\ counters \in [Direction \X Phase -> Nat]
      /\ Count(entries, Live) <= AbsoluteLimit
      /\ AbsoluteLimit \in Nat /\ Len(entries) \in Nat /\ DOMAIN entries = 1 .. Len(entries)
  BY PeerAdmissionAssumption DEF BudgetInv, Types, TypeOK, AbsoluteLimit
<1> DEFINE e == entries[i]
           d == e.direction
           u == [e EXCEPT !.phase = "established"]
<1>1. e \in Entry /\ e.phase = "connecting" /\ d \in Direction
  <2>1. e \in Entry
    BY <1>0
  <2>2. e.phase = "connecting"
    BY DEF Establish
  <2> QED BY <2>1, <2>2 DEF Entry
<1>2. /\ u \in Entry /\ u.direction = d /\ u.phase = "established" /\ u.cancelled = e.cancelled
      /\ u.checked = e.checked
  BY <1>1 DEF Entry, Phase
<1>3. entries' = [entries EXCEPT ![i] = u]
  BY DEF Establish
<1>4. counters' = [[counters EXCEPT ![<<d, "connecting">>] = @ - 1]
                     EXCEPT ![<<d, "established">>] = @ + 1]
  BY <1>1 DEF Establish, Released
<1> HIDE DEF u
<1>5. /\ entries' \in Seq(Entry) /\ Len(entries') = Len(entries)
      /\ \A j \in 1 .. Len(entries) : entries'[j] = IF j = i THEN u ELSE entries[j]
  BY <1>0, <1>2, <1>3
<1>6. \A j \in 1 .. Len(entries) : entries[j] \in Entry
  BY <1>0
<1> DEFINE A == Places(entries, Kind(d, "connecting"))
           B == Places(entries, Kind(d, "established"))
<1>7. /\ i \in A /\ i \notin B
      /\ Places(entries', Kind(d, "connecting")) = A \ {i}
      /\ Places(entries', Kind(d, "established")) = B \cup {i}
  BY <1>0, <1>1, <1>2, <1>5, <1>6 DEF Places, Kind
<1>8. \A dd \in Direction \ {d}, p \in Phase : Places(entries', Kind(dd, p)) = Places(entries, Kind(dd, p))
  BY <1>0, <1>1, <1>2, <1>5, <1>6 DEF Places, Kind
<1>9. IsFiniteSet(A) /\ IsFiniteSet(B)
  BY <1>0, PlacesFinite
<1>10. <<d, "connecting">> \in Direction \X Phase /\ <<d, "established">> \in Direction \X Phase
  BY <1>1 DEF Phase
<1>11. /\ counters'[<<d, "connecting">>] = counters[<<d, "connecting">>] - 1
       /\ counters'[<<d, "established">>] = counters[<<d, "established">>] + 1
       /\ \A dd \in Direction \ {d}, p \in Phase : counters'[<<dd, p>>] = counters[<<dd, p>>]
       /\ counters' \in [Direction \X Phase -> Int]
  <2> DEFINE k == <<d, "connecting">>
             m == <<d, "established">>
  <2>1. k # m /\ \A dd \in Direction \ {d}, p \in Phase :
                   <<dd, p>> # k /\ <<dd, p>> # m /\ <<dd, p>> \in Direction \X Phase
    OBVIOUS
  <2>2. k \in Direction \X Phase /\ m \in Direction \X Phase
    BY <1>10
  <2>3. counters' = [[counters EXCEPT ![k] = @ - 1] EXCEPT ![m] = @ + 1]
    BY <1>4
  <2> HIDE DEF k, m
  <2>4. /\ counters'[k] = counters[k] - 1 /\ counters'[m] = counters[m] + 1
        /\ \A x \in Direction \X Phase : x # k /\ x # m => counters'[x] = counters[x]
        /\ counters' \in [Direction \X Phase -> Int]
    BY <1>0, <2>1, <2>2, <2>3
  <2> QED BY <2>1, <2>4 DEF k, m
<1>12. /\ counters[<<d, "connecting">>] = Cardinality(A)
       /\ counters[<<d, "established">>] = Cardinality(B)
  BY <1>0, <1>1 DEF Exact, Count, Phase
<1> HIDE DEF A, B
<1>13. /\ Cardinality(A \ {i}) = Cardinality(A) - 1 /\ Cardinality(B \cup {i}) = Cardinality(B) + 1
       /\ Cardinality(A) \in Nat /\ Cardinality(B) \in Nat
  BY <1>7, <1>9, FS_AddElement, FS_RemoveElement, FS_CardinalityType
<1>14. Cardinality(A \ {i}) \in Nat
  BY <1>9, FS_Subset, FS_CardinalityType
<1>15. ASSUME NEW dd \in Direction, NEW p \in Phase
       PROVE  counters'[<<dd, p>>] = Count(entries', Kind(dd, p)) /\ counters'[<<dd, p>>] \in Nat
  <2>1. CASE dd # d
    <3>1. Count(entries', Kind(dd, p)) = Count(entries, Kind(dd, p))
      BY <1>8, <2>1 DEF Count
    <3>2. counters'[<<dd, p>>] = counters[<<dd, p>>]
      BY <1>11, <2>1
    <3> QED BY <1>0, <3>1, <3>2 DEF Exact
  <2>2. CASE dd = d /\ p = "connecting"
    <3>1. Count(entries', Kind(dd, p)) = Cardinality(A \ {i})
      BY <1>7, <2>2 DEF Count
    <3>2. counters'[<<dd, p>>] = Cardinality(A) - 1
      BY <1>11, <1>12, <2>2
    <3> QED BY <1>13, <1>14, <3>1, <3>2
  <2>3. CASE dd = d /\ p = "established"
    <3>1. Count(entries', Kind(dd, p)) = Cardinality(B \cup {i})
      BY <1>7, <2>3 DEF Count
    <3>2. counters'[<<dd, p>>] = Cardinality(B) + 1
      BY <1>11, <1>12, <2>3
    <3> QED BY <1>13, <3>1, <3>2
  <2> QED BY <2>1, <2>2, <2>3 DEF Phase
<1>16. Exact(entries', counters')
  BY <1>15, Zenon DEF Exact
<1>17. counters' \in [Direction \X Phase -> Nat]
  BY <1>11, <1>15
<1>18. Count(entries', Live) <= AbsoluteLimit
  <2>1. \A j \in 1 .. Len(entries) : entries[j].cancelled => entries'[j].cancelled
    BY <1>2, <1>5
  <2>2. Count(entries', Live) <= Count(entries, Live)
    BY <1>0, <1>5, <2>1, FewerStand
  <2>3. Count(entries', Live) \in Nat /\ Count(entries, Live) \in Nat
    BY <1>0, <1>5, PlacesFinite
  <2> QED BY <1>0, <2>2, <2>3
<1> QED BY <1>5, <1>16, <1>17, <1>18

\* Cancelling the permits at the places S.
LEMMA CancelFacts ==
  ASSUME entries \in Seq(Entry), NEW S, Cancel(S)
  PROVE  /\ entries' \in Seq(Entry) /\ Len(entries') = Len(entries)
         /\ \A i \in 1 .. Len(entries) :
              /\ entries'[i].direction = entries[i].direction
              /\ entries'[i].phase = entries[i].phase
              /\ entries'[i].checked = entries[i].checked
              /\ entries'[i].cancelled <=> (entries[i].cancelled \/ i \in S)
<1>1. /\ DOMAIN entries = 1 .. Len(entries) /\ Len(entries) \in Nat
      /\ \A i \in 1 .. Len(entries) : entries[i] \in Entry
  OBVIOUS
<1>2. entries' = [i \in 1 .. Len(entries) |-> [entries[i] EXCEPT !.cancelled = @ \/ i \in S]]
  BY <1>1 DEF Cancel
<1>3. ASSUME NEW i \in 1 .. Len(entries)
      PROVE  /\ entries'[i] \in Entry
             /\ entries'[i].direction = entries[i].direction
             /\ entries'[i].phase = entries[i].phase
             /\ entries'[i].checked = entries[i].checked
             /\ entries'[i].cancelled <=> (entries[i].cancelled \/ i \in S)
  <2> DEFINE e == entries[i]
             b == e.cancelled \/ i \in S
  <2>1. e \in Entry /\ entries'[i] = [e EXCEPT !.cancelled = b]
    BY <1>1, <1>2
  <2>2. b \in BOOLEAN
    OBVIOUS
  <2> HIDE DEF e, b
  <2>3. /\ [e EXCEPT !.cancelled = b] \in Entry
        /\ [e EXCEPT !.cancelled = b].direction = e.direction
        /\ [e EXCEPT !.cancelled = b].phase = e.phase
        /\ [e EXCEPT !.cancelled = b].checked = e.checked
        /\ [e EXCEPT !.cancelled = b].cancelled = b
    BY <2>1, <2>2 DEF Entry
  <2> QED BY <2>1, <2>3 DEF e, b
<1>4. entries' \in [1 .. Len(entries) -> Entry]
  BY <1>2, <1>3
<1>5. entries' \in Seq(Entry) /\ Len(entries') = Len(entries)
  BY <1>1, <1>4
<1> QED BY <1>3, <1>5

-----------------------------------------------------------------------------
(* The order in which reconfigure chooses the permits it cancels. *)

\* A set of places has a lowest and a highest one.
LEMMA LowestPlace ==
  ASSUME NEW n \in Nat, NEW T \in SUBSET (1 .. n), T # {}
  PROVE  \E m \in T : \A j \in T : m <= j
<1>1. T \subseteq Nat /\ T # {}
  OBVIOUS
<1>2. PICK m \in T : \A j \in T : ~ (<<j, m>> \in OpToRel(<, Nat))
  BY <1>1, WFMin, NatLessThanWellFounded, Zenon
<1>3. \A j \in T : ~ (j < m)
  BY <1>1, <1>2 DEF OpToRel
<1> QED BY <1>1, <1>3

\* A set of places that is not empty has a highest one.
LEMMA HighestPlace ==
  ASSUME NEW n \in Nat, NEW T \in SUBSET (1 .. n), T # {}
  PROVE  \E m \in T : \A j \in T : j <= m
<1> DEFINE U == {n + 1 - j : j \in T}
<1>1. U \in SUBSET (1 .. n) /\ U # {}
  <2>1. \A j \in T : j \in 1 .. n /\ n + 1 - j \in 1 .. n
    OBVIOUS
  <2> QED BY <2>1
<1>2. PICK u \in U : \A v \in U : u <= v
  <2> HIDE DEF U
  <2> QED BY <1>1, LowestPlace
<1>3. PICK m \in T : u = n + 1 - m
  BY <1>2
<1>4. \A j \in T : u <= n + 1 - j
  BY <1>2
<1>5. \A j \in T : j <= m
  BY <1>3, <1>4
<1> QED BY <1>5

\* Before is a strict total order of the places.
LEMMA BeforeOrder ==
  ASSUME entries \in Seq(Entry)
  PROVE  /\ \A i \in 1 .. Len(entries) : ~Before(i, i)
         /\ \A i, j \in 1 .. Len(entries) : i # j => Before(i, j) \/ Before(j, i)
         /\ \A i, j, k \in 1 .. Len(entries) : Before(i, j) /\ Before(j, k) => Before(i, k)
<1>1. \A i \in 1 .. Len(entries) : entries[i].phase \in {"connecting", "established"}
  <2>1. \A i \in 1 .. Len(entries) : entries[i] \in Entry
    OBVIOUS
  <2> QED BY <2>1 DEF Entry, Phase
<1>2. Len(entries) \in Nat
  OBVIOUS
<1> DEFINE h(i) == entries[i].phase
<1>3. ASSUME NEW i \in 1 .. Len(entries) PROVE ~Before(i, i)
  BY <1>2 DEF Before
<1>4. ASSUME NEW i \in 1 .. Len(entries), NEW j \in 1 .. Len(entries), i # j
      PROVE  Before(i, j) \/ Before(j, i)
  BY <1>1, <1>2, <1>4 DEF Before
<1>5. ASSUME NEW i \in 1 .. Len(entries), NEW j \in 1 .. Len(entries),
             NEW k \in 1 .. Len(entries), Before(i, j), Before(j, k)
      PROVE  Before(i, k)
  BY <1>1, <1>2, <1>5 DEF Before
<1> QED BY <1>3, <1>4, <1>5

\* The first and the last of a set of places in that order.
LEMMA FirstPlace ==
  ASSUME entries \in Seq(Entry), NEW T \in SUBSET (1 .. Len(entries)), T # {}
  PROVE  \E m \in T : \A j \in T : j # m => Before(m, j)
<1>1. Len(entries) \in Nat
  OBVIOUS
<1> DEFINE C == {i \in T : entries[i].phase = "connecting"}
<1>2. CASE C # {}
  <2>1. C \in SUBSET (1 .. Len(entries))
    OBVIOUS
  <2>2. PICK m \in C : \A j \in C : j <= m
    <3> HIDE DEF C
    <3> QED BY <1>1, <1>2, <2>1, HighestPlace
  <2>3. \A j \in T : j # m => Before(m, j)
    BY <1>1, <2>2 DEF Before
  <2> QED BY <2>2, <2>3
<1>3. CASE C = {}
  <2>1. PICK m \in T : \A j \in T : j <= m
    BY <1>1, HighestPlace
  <2>2. \A i \in T : entries[i].phase = "established"
    <3>1. \A i \in T : entries[i] \in Entry
      OBVIOUS
    <3> QED BY <1>3, <3>1 DEF Entry, Phase
  <2>3. \A j \in T : j # m => Before(m, j)
    BY <1>1, <2>1, <2>2 DEF Before
  <2> QED BY <2>1, <2>3
<1> QED BY <1>2, <1>3

\* A set of entries that is not empty has one that is evicted last.
LEMMA LastPlace ==
  ASSUME entries \in Seq(Entry), NEW T \in SUBSET (1 .. Len(entries)), T # {}
  PROVE  \E m \in T : \A j \in T : j # m => Before(j, m)
<1>1. Len(entries) \in Nat
  OBVIOUS
<1> DEFINE C == {i \in T : entries[i].phase = "established"}
<1>p. \A i \in T : entries[i].phase \in {"connecting", "established"}
  <2>1. \A i \in T : entries[i] \in Entry
    OBVIOUS
  <2> QED BY <2>1 DEF Entry, Phase
<1>2. CASE C # {}
  <2>1. C \in SUBSET (1 .. Len(entries))
    OBVIOUS
  <2>2. PICK m \in C : \A j \in C : m <= j
    <3> HIDE DEF C
    <3> QED BY <1>1, <1>2, <2>1, LowestPlace
  <2>3. \A j \in T : j # m => Before(j, m)
    BY <1>1, <1>p, <2>2 DEF Before
  <2> QED BY <2>2, <2>3
<1>3. CASE C = {}
  <2>1. PICK m \in T : \A j \in T : m <= j
    BY <1>1, LowestPlace
  <2>2. \A i \in T : entries[i].phase = "connecting"
    BY <1>3, <1>p
  <2>3. \A j \in T : j # m => Before(j, m)
    BY <1>1, <2>1, <2>2 DEF Before
  <2> QED BY <2>1, <2>3
<1> QED BY <1>2, <1>3

\* the places of S that come before i, and the first k places of S
Ahead(S, i) == {j \in S : Before(j, i)}
FirstOf(S, k) == {i \in S : Cardinality(Ahead(S, i)) < k}

\* Choosing the first k takes exactly k, or all there are, and leaves out nobody
\* that comes before one it takes.
LEMMA FirstOfFacts ==
  ASSUME entries \in Seq(Entry), NEW S \in SUBSET (1 .. Len(entries)), NEW k \in Int
  PROVE  /\ IsFiniteSet(S)
         /\ FirstOf(S, k) # {} => Cardinality(FirstOf(S, k)) <= k
         /\ FirstOf(S, k) = S \/ Cardinality(FirstOf(S, k)) >= k
         /\ \A i \in FirstOf(S, k), j \in S : Before(j, i) => j \in FirstOf(S, k)
<1> DEFINE E == FirstOf(S, k)
<1>1. Len(entries) \in Nat
  OBVIOUS
<1>2. IsFiniteSet(S)
  BY <1>1, IntervalCardinality, FS_Subset
<1>3. \A i : IsFiniteSet(Ahead(S, i)) /\ Cardinality(Ahead(S, i)) \in Nat
  BY <1>2, FS_Subset, FS_CardinalityType DEF Ahead
<1>4. E \in SUBSET S /\ IsFiniteSet(E) /\ Cardinality(E) \in Nat
  BY <1>2, FS_Subset, FS_CardinalityType DEF FirstOf
<1>5. \A i, j, l \in 1 .. Len(entries) : Before(i, j) /\ Before(j, l) => Before(i, l)
  BY BeforeOrder
<1>6. ASSUME E # {} PROVE Cardinality(E) <= k
  <2> HIDE DEF E
  <2>1. E \in SUBSET (1 .. Len(entries))
    BY <1>4
  <2>2. PICK m \in E : \A j \in E : j # m => Before(j, m)
    BY <1>6, <2>1, LastPlace
  <2>3. E \ {m} \subseteq Ahead(S, m)
    BY <1>4, <2>2 DEF Ahead
  <2>4. Cardinality(E \ {m}) <= Cardinality(Ahead(S, m))
    BY <1>3, <2>3, FS_Subset
  <2>5. Cardinality(E \ {m}) = Cardinality(E) - 1
    BY <1>4, <2>2, FS_RemoveElement
  <2>6. Cardinality(Ahead(S, m)) < k
    BY <2>2 DEF E, FirstOf
  <2> QED BY <1>3, <1>4, <2>4, <2>5, <2>6
<1>7. ASSUME E # S PROVE Cardinality(E) >= k
  <2> DEFINE T == S \ E
  <2> HIDE DEF E
  <2>1. T \in SUBSET (1 .. Len(entries)) /\ T # {}
    BY <1>4, <1>7
  <2>2. PICK m \in T : \A j \in T : j # m => Before(m, j)
    <3> HIDE DEF T
    <3> QED BY <2>1, FirstPlace
  <2>3. Ahead(S, m) \subseteq E
    <3> SUFFICES ASSUME NEW j \in S, Before(j, m), j \notin E PROVE FALSE
      BY DEF Ahead
    <3>1. j \in 1 .. Len(entries) /\ m \in 1 .. Len(entries)
      BY <2>1, <2>2
    <3>2. j # m
      BY <3>1, BeforeOrder
    <3>3. Before(m, j)
      BY <2>2, <3>2
    <3>4. Before(m, m)
      BY <1>5, <3>1, <3>3
    <3> QED BY <3>1, <3>4, BeforeOrder
  <2>4. Cardinality(Ahead(S, m)) <= Cardinality(E)
    BY <1>4, <2>3, FS_Subset
  <2>5. ~ (Cardinality(Ahead(S, m)) < k)
    BY <2>2 DEF E, FirstOf
  <2> QED BY <1>3, <1>4, <2>4, <2>5
<1>8. ASSUME NEW i \in E, NEW j \in S, Before(j, i) PROVE j \in E
  <2>1. Ahead(S, j) \subseteq Ahead(S, i)
    BY <1>4, <1>5, <1>8 DEF Ahead
  <2>2. Cardinality(Ahead(S, j)) <= Cardinality(Ahead(S, i))
    BY <1>3, <2>1, FS_Subset
  <2>3. Cardinality(Ahead(S, i)) < k
    BY DEF FirstOf
  <2>4. Cardinality(Ahead(S, j)) < k
    BY <1>3, <2>2, <2>3
  <2> QED BY <2>4 DEF FirstOf
<1> QED BY <1>2, <1>6, <1>7, <1>8

-----------------------------------------------------------------------------
(* Reconfiguring the limit. *)

\* The effective limit of PeerBudget is a number.
LEMMA EffectiveLimitType ==
  ASSUME NEW n \in Limits
  PROVE  EffectiveLimit(n) \in Nat
<1>1. n \in Nat /\ MaxOpenFiles \in Nat
  BY PeerAdmissionAssumption
<1> DEFINE files == Min({MaxOpenFiles, 10000000})
           margin == Max({files - 20, 0})
           descriptors == Max({(margin * 80) \div 100, 5})
<1>2. files \in Nat
  BY <1>1 DEF Min
<1>3. margin \in Nat
  <2> HIDE DEF files
  <2> QED BY <1>2 DEF Max
<1>4. descriptors \in Nat
  <2> HIDE DEF margin
  <2> DEFINE x == (margin * 80) \div 100
  <2>1. x \in Nat
    BY <1>3
  <2>2. descriptors = Max({x, 5})
    OBVIOUS
  <2> HIDE DEF x, descriptors
  <2> QED BY <2>1, <2>2 DEF Max
<1>5. EffectiveLimit(n) = Min({n, descriptors})
  BY DEF EffectiveLimit
<1> HIDE DEF descriptors
<1> QED BY <1>1, <1>4, <1>5 DEF Min

\* how many permits exceed the limit n, and how many more are to be cancelled
Excess(n) == Max({Total - (EffectiveLimit(n) + Slack), 0})
Additional(n) == Excess(n) - (Len(entries) - Cardinality(Standing))

\* What reconfigure cancels: the first ones of those that stand, as many as exceed the
\* limit beyond those that were cancelled before.
LEMMA ReconfigureFacts ==
  ASSUME BudgetInv, NEW n \in Limits
  PROVE  /\ Evicted(n) = FirstOf(Standing, Additional(n))
         /\ Standing \in SUBSET (1 .. Len(entries)) /\ Standing = Places(entries, Live)
         /\ Additional(n) \in Int /\ Additional(n) <= Cardinality(Standing)
         /\ Cardinality(Standing) - Additional(n) <= EffectiveLimit(n) + Slack
         /\ Additional(n) > 0 => Cardinality(Standing) - Additional(n) = EffectiveLimit(n) + Slack
<1>0. entries \in Seq(Entry) /\ Exact(entries, counters) /\ Len(entries) \in Nat /\ Slack \in Nat
  BY PeerAdmissionAssumption DEF BudgetInv, Types, TypeOK
<1>1. Evicted(n) = FirstOf(Standing, Additional(n))
  BY DEF Evicted, FirstOf, Ahead, Additional, Excess
<1>2. Standing = Places(entries, Live) /\ Standing \in SUBSET (1 .. Len(entries))
  BY <1>0, ExactMeaning DEF Places
<1>3. Cardinality(Standing) \in Nat /\ Cardinality(Standing) <= Len(entries)
  BY <1>0, <1>2, PlacesFinite DEF Count
<1>4. Total = Len(entries)
  BY <1>0, TotalIsLength
<1>5. EffectiveLimit(n) \in Nat
  BY EffectiveLimitType
<1> DEFINE a == EffectiveLimit(n) + Slack
           c == Cardinality(Standing)
           l == Len(entries)
<1>6. Excess(n) = IF l - a >= 0 THEN l - a ELSE 0
  <2>1. Excess(n) = Max({l - a, 0})
    BY <1>4 DEF Excess
  <2>2. l \in Nat /\ a \in Nat
    BY <1>0, <1>5
  <2> HIDE DEF a, l
  <2> QED BY <2>1, <2>2 DEF Max
<1>7. Additional(n) = Excess(n) - (l - c)
  BY DEF Additional
<1>8. a \in Nat /\ c \in Nat /\ l \in Nat /\ c <= l
  BY <1>0, <1>3, <1>5
<1> HIDE DEF a, c, l
<1>9. /\ Additional(n) \in Int /\ Additional(n) <= c /\ c - Additional(n) <= a
      /\ Additional(n) > 0 => c - Additional(n) = a
  BY <1>6, <1>7, <1>8
<1> QED BY <1>1, <1>2, <1>9 DEF a, c

\* After a reconfiguration the standing permits are those it did not choose.
LEMMA ReconfigureStands ==
  ASSUME BudgetInv, NEW n \in Limits, Reconfigure(n)
  PROVE  /\ entries' \in Seq(Entry) /\ Len(entries') = Len(entries)
         /\ Places(entries', Live) = Standing \ Evicted(n)
         /\ Exact(entries', counters')
<1>0. entries \in Seq(Entry) /\ Exact(entries, counters) /\ Cancel(Evicted(n)) /\ counters' = counters
  BY DEF BudgetInv, Types, TypeOK, Reconfigure
<1>1. /\ entries' \in Seq(Entry) /\ Len(entries') = Len(entries)
      /\ \A i \in 1 .. Len(entries) :
           /\ entries'[i].direction = entries[i].direction
           /\ entries'[i].phase = entries[i].phase
           /\ entries'[i].cancelled <=> (entries[i].cancelled \/ i \in Evicted(n))
  BY <1>0, CancelFacts
<1>2. Exact(entries', counters')
  BY <1>0, <1>1, StayKeeps
<1>3. /\ \A i \in 1 .. Len(entries) : entries[i] \in Entry
      /\ \A i \in 1 .. Len(entries') : entries'[i] \in Entry
  BY <1>0, <1>1
<1>4. Standing = Places(entries, Live)
  BY <1>0, ExactMeaning
<1>5. Places(entries', Live) = Standing \ Evicted(n)
  BY <1>1, <1>3, <1>4 DEF Places, Live
<1> QED BY <1>1, <1>2, <1>5

\* Those left are no more than the limit and the slack allow, and exactly as many when
\* somebody was chosen.
LEMMA EvictionExact ==
  ASSUME BudgetInv, NEW n \in Limits
  PROVE  /\ Cardinality(Standing \ Evicted(n)) <= EffectiveLimit(n) + Slack
         /\ Evicted(n) # {} => Cardinality(Standing \ Evicted(n)) = EffectiveLimit(n) + Slack
         /\ Evicted(n) \subseteq Standing
         /\ \A i \in Evicted(n), j \in Standing : Before(j, i) => j \in Evicted(n)
<1> DEFINE E == Evicted(n)
           k == Additional(n)
           c == Cardinality(Standing)
           a == EffectiveLimit(n) + Slack
<1>0. entries \in Seq(Entry) /\ a \in Nat
  BY PeerAdmissionAssumption, EffectiveLimitType DEF BudgetInv, Types, TypeOK
<1>1. /\ E = FirstOf(Standing, k) /\ Standing \in SUBSET (1 .. Len(entries))
      /\ k \in Int /\ k <= c /\ c - k <= a
      /\ k > 0 => c - k = a
  BY ReconfigureFacts
<1>2. /\ IsFiniteSet(Standing)
      /\ E # {} => Cardinality(E) <= k
      /\ E = Standing \/ Cardinality(E) >= k
      /\ \A i \in E, j \in Standing : Before(j, i) => j \in E
  <2> HIDE DEF E, k
  <2>1. /\ IsFiniteSet(Standing)
        /\ FirstOf(Standing, k) # {} => Cardinality(FirstOf(Standing, k)) <= k
        /\ FirstOf(Standing, k) = Standing \/ Cardinality(FirstOf(Standing, k)) >= k
        /\ \A i \in FirstOf(Standing, k), j \in Standing : Before(j, i) => j \in FirstOf(Standing, k)
    BY <1>0, <1>1, FirstOfFacts
  <2> QED BY <1>1, <2>1
<1>3. E \subseteq Standing
  BY <1>1 DEF FirstOf
<1> HIDE DEF E, k
<1>4. /\ IsFiniteSet(E) /\ Cardinality(E) \in Nat /\ Cardinality(E) <= c /\ c \in Nat
  BY <1>2, <1>3, FS_Subset, FS_CardinalityType
<1>5. Cardinality(Standing \ E) = c - Cardinality(E)
  <2>1. Cardinality(Standing \ E) = Cardinality(Standing) - Cardinality(Standing \cap E)
    BY <1>2, FS_Difference
  <2>2. Standing \cap E = E
    BY <1>3
  <2> QED BY <2>1, <2>2
<1>6. Cardinality(E) >= k
  BY <1>1, <1>2, <1>4
<1>7. ASSUME E # {} PROVE Cardinality(E) = k /\ k > 0
  <2>1. Cardinality(E) = k
    BY <1>1, <1>2, <1>4, <1>6, <1>7
  <2>2. Cardinality(E) # 0
    BY <1>4, <1>7, FS_EmptySet
  <2> QED BY <1>4, <2>1, <2>2
<1> HIDE DEF a, c
<1>8. /\ Cardinality(Standing \ E) <= a
      /\ E # {} => Cardinality(Standing \ E) = a
  BY <1>0, <1>1, <1>4, <1>5, <1>6, <1>7
<1> QED BY <1>2, <1>3, <1>8 DEF E, a

-----------------------------------------------------------------------------
(* The invariant holds initially and is kept by every step. *)

\* A budget without entries satisfies the invariant.
LEMMA InitBudgetInv == Init => BudgetInv /\ IncomingRetired
<1> SUFFICES ASSUME Init PROVE BudgetInv /\ IncomingRetired
  OBVIOUS
<1>1. limit \in Nat
  BY EffectiveLimitType DEF Init
<1>2. entries = <<>> /\ entries \in Seq(Entry) /\ Len(entries) = 0
  BY DEF Init
<1>3. counters = [k \in Direction \X Phase |-> 0]
  BY DEF Init
<1>4. ASSUME NEW P PROVE Count(entries, P) = 0
  <2>1. Places(entries, P) = {}
    BY <1>2 DEF Places
  <2>2. Cardinality({}) = 0
    BY FS_EmptySet, Zenon
  <2> QED BY <2>1, <2>2 DEF Count
<1>5. Exact(entries, counters)
  BY <1>3, <1>4 DEF Exact
<1>6. Count(entries, Live) <= AbsoluteLimit
  BY <1>1, <1>4, PeerAdmissionAssumption DEF AbsoluteLimit
<1>7. Types
  <2>1. yieldedLast \in BOOLEAN
    BY DEF Init
  <2>2. dialQueue \in Seq(Torrent)
    BY DEF Init
  <2>3. counters \in [Direction \X Phase -> Nat]
    BY <1>3
  <2> QED BY <1>1, <1>2, <2>1, <2>2, <2>3 DEF Init, Types, TypeOK
<1>8. IncomingRetired
  BY DEF Init, IncomingRetired
<1> QED BY <1>5, <1>6, <1>7, <1>8 DEF BudgetInv

\* A torrent asks for a turn: the queue keeps its type.
LEMMA TurnTypes ==
  ASSUME Types, NEW t \in Torrent, AskTurn(t)
  PROVE  /\ dialQueue' \in Seq(Torrent) /\ lastGranted' \in Torrent \cup {None}
         /\ yieldedLast' \in BOOLEAN /\ turn' \subseteq registered
<1>0. /\ dialQueue \in Seq(Torrent) /\ lastGranted \in Torrent \cup {None}
      /\ yieldedLast \in BOOLEAN /\ turn \subseteq registered /\ t \in registered
  BY DEF Types, TypeOK, AskTurn
<1> DEFINE q == Asked(t)
           v == Visited(t)
<1>1. q \in Seq(Torrent) /\ q # <<>>
  <2>1. CASE t \in ToSet(dialQueue)
    <3>1. dialQueue # <<>>
      <4> SUFFICES ASSUME dialQueue = <<>> PROVE FALSE
        OBVIOUS
      <4>1. ToSet(dialQueue) = {}
        BY DEF ToSet
      <4> QED BY <2>1, <4>1
    <3> QED BY <1>0, <2>1, <3>1 DEF Asked
  <2>2. CASE t \notin ToSet(dialQueue)
    <3>1. Append(dialQueue, t) \in Seq(Torrent) /\ Len(Append(dialQueue, t)) = Len(dialQueue) + 1
          /\ Len(dialQueue) \in Nat
      BY <1>0
    <3>2. Append(dialQueue, t) # <<>>
      BY <3>1
    <3> QED BY <2>2, <3>1, <3>2 DEF Asked
  <2> QED BY <2>1, <2>2
<1>2. v = q \/ v = Append(Tail(q), Head(q))
  BY DEF Visited
<1> HIDE DEF q
<1>3. Head(q) \in Torrent /\ Tail(q) \in Seq(Torrent) /\ Append(Tail(q), Head(q)) \in Seq(Torrent)
  BY <1>1
<1>4. v \in Seq(Torrent) /\ v # <<>>
  <2>1. Append(Tail(q), Head(q)) # <<>>
    <3>1. Len(Append(Tail(q), Head(q))) = Len(Tail(q)) + 1 /\ Len(Tail(q)) \in Nat
      BY <1>3
    <3> QED BY <3>1
  <2> QED BY <1>1, <1>2, <1>3, <2>1
<1>5. \/ dialQueue' = v /\ UNCHANGED <<lastGranted, yieldedLast, turn>>
      \/ dialQueue' = v /\ yieldedLast' = TRUE /\ UNCHANGED <<lastGranted, turn>>
      \/ /\ dialQueue' = Tail(v) /\ lastGranted' = t /\ yieldedLast' = FALSE
         /\ turn' = turn \cup {t}
  BY DEF AskTurn, TryTurn
<1> HIDE DEF v
<1>6. Tail(v) \in Seq(Torrent)
  BY <1>4
<1>7. dialQueue' \in Seq(Torrent)
  BY <1>4, <1>5, <1>6
<1>8. lastGranted' \in Torrent \cup {None} /\ turn' \subseteq registered
  BY <1>0, <1>5
<1>9. yieldedLast' \in BOOLEAN
  BY <1>0, <1>5
<1> QED BY <1>7, <1>8, <1>9

\* A step that does not enter the budget's lock.
LEMMA OutsideKeeps ==
  ASSUME BudgetInv, UNCHANGED budget, Types'
  PROVE  BudgetInv'
BY DEF BudgetInv, budget, AbsoluteLimit

\* The torrents: candidates, turns, dials.
LEMMA TorrentKeeps ==
  ASSUME BudgetInv, IncomingRetired, NEW t \in Torrent,
         FindCandidate(t) \/ LoseCandidate(t) \/ AskTurn(t) \/ StartDial(t)
  PROVE  BudgetInv' /\ IncomingRetired'
<1>0. Types
  BY DEF BudgetInv
<1>1. CASE FindCandidate(t) \/ LoseCandidate(t)
  <2>1. Types'
    BY <1>0, <1>1 DEF FindCandidate, LoseCandidate, Types, TypeOK, budget, dial
  <2>2. BudgetInv'
    BY <1>1, <2>1, OutsideKeeps DEF FindCandidate, LoseCandidate
  <2> QED BY <1>1, <2>2 DEF FindCandidate, LoseCandidate, IncomingRetired, budget
<1>2. CASE AskTurn(t)
  <2>1. Types'
    BY <1>0, <1>2, TurnTypes DEF AskTurn, Types, TypeOK, budget
  <2>2. BudgetInv'
    BY <1>2, <2>1, OutsideKeeps DEF AskTurn
  <2> QED BY <1>2, <2>2 DEF AskTurn, IncomingRetired, budget
<1>3. CASE StartDial(t)
  <2>1. CASE Acquire("outgoing", t)
    <3>1. "outgoing" \in Direction /\ t \in Torrent \cup {None}
      BY DEF Direction
    <3>2. /\ entries' \in Seq(Entry) /\ counters' \in [Direction \X Phase -> Nat]
          /\ Exact(entries', counters') /\ Count(entries', Live) <= AbsoluteLimit
      BY <2>1, <3>1, AcquireKeeps
    <3>3. Types'
      BY <1>0, <1>3, <3>2 DEF StartDial, Types, TypeOK, dial
    <3>4. BudgetInv'
      BY <1>3, <3>2, <3>3 DEF StartDial, BudgetInv, AbsoluteLimit
    <3>5. IncomingRetired'
      <4>1. entries \in Seq(Entry) /\ Fresh("outgoing", t).direction = "outgoing"
        BY <1>0 DEF Types, TypeOK, Fresh
      <4>2. entries' = Append(entries, Fresh("outgoing", t)) /\ Fresh("outgoing", t) \in Entry
        BY <2>1, <3>1, FreshFacts DEF Acquire, Fresh
      <4>3. /\ DOMAIN entries' = 1 .. (Len(entries) + 1) /\ Len(entries) \in Nat
            /\ DOMAIN entries = 1 .. Len(entries)
            /\ \A i \in 1 .. Len(entries) : entries'[i] = entries[i]
            /\ entries'[Len(entries) + 1] = Fresh("outgoing", t)
        BY <4>1, <4>2
      <4>4. \A i \in 1 .. (Len(entries) + 1) : i \in 1 .. Len(entries) \/ i = Len(entries) + 1
        BY <4>3
      <4> QED BY <1>3, <4>1, <4>3, <4>4 DEF StartDial, IncomingRetired
    <3> QED BY <3>4, <3>5
  <2>2. CASE UNCHANGED <<entries, counters>>
    <3>1. Types' /\ UNCHANGED budget /\ UNCHANGED incoming
      BY <1>0, <1>3, <2>2 DEF StartDial, Types, TypeOK, dial, budget
    <3> QED BY <3>1, OutsideKeeps DEF IncomingRetired, budget
  <2> QED BY <1>3, <2>1, <2>2 DEF StartDial
<1> QED BY <1>1, <1>2, <1>3

\* The listener: accepting, disabling, cancelling, enabling.
LEMMA ListenerKeeps ==
  ASSUME BudgetInv, IncomingRetired,
         Accept \/ DisableIncoming \/ CancelIncoming \/ EnableIncoming
  PROVE  BudgetInv' /\ IncomingRetired'
<1>0. Types /\ entries \in Seq(Entry) /\ Exact(entries, counters) /\ Len(entries) \in Nat
      /\ DOMAIN entries = 1 .. Len(entries)
  BY DEF BudgetInv, Types, TypeOK
<1>1. CASE Accept
  <2>1. "incoming" \in Direction /\ None \in Torrent \cup {None} /\ Acquire("incoming", None)
    BY <1>1 DEF Direction, Accept
  <2>2. /\ entries' \in Seq(Entry) /\ counters' \in [Direction \X Phase -> Nat]
        /\ Exact(entries', counters') /\ Count(entries', Live) <= AbsoluteLimit
    BY <2>1, AcquireKeeps
  <2>3. Types'
    BY <1>0, <1>1, <2>2 DEF Accept, Types, TypeOK, dial
  <2>4. BudgetInv'
    BY <1>1, <2>2, <2>3 DEF Accept, BudgetInv, AbsoluteLimit
  <2>5. IncomingRetired'
    <3>1. /\ ~Fresh("incoming", None).checked /\ Fresh("incoming", None) \in Entry
          /\ entries' = Append(entries, Fresh("incoming", None))
      <4>1. "incoming" # "outgoing"
        OBVIOUS
      <4>2. ~Fresh("incoming", None).checked
        BY <4>1 DEF Fresh
      <4> QED BY <2>1, <4>2, FreshFacts DEF Acquire, Fresh
    <3>2. /\ DOMAIN entries' = 1 .. (Len(entries) + 1)
          /\ \A i \in 1 .. Len(entries) : entries'[i] = entries[i]
          /\ entries'[Len(entries) + 1] = Fresh("incoming", None)
      BY <1>0, <3>1
    <3>3. \A i \in 1 .. (Len(entries) + 1) : i \in 1 .. Len(entries) \/ i = Len(entries) + 1
      BY <1>0
    <3> QED BY <1>0, <1>1, <3>1, <3>2, <3>3 DEF Accept, IncomingRetired
  <2> QED BY <2>4, <2>5
<1>2. CASE DisableIncoming \/ EnableIncoming
  <2>1. Types' /\ UNCHANGED budget
    BY <1>0, <1>2 DEF DisableIncoming, EnableIncoming, Types, TypeOK, dial, budget
  <2>2. IncomingRetired'
    BY <1>2 DEF DisableIncoming, EnableIncoming, IncomingRetired
  <2> QED BY <2>1, <2>2, OutsideKeeps
<1>3. CASE CancelIncoming
  <2> DEFINE S == {i \in DOMAIN entries : entries[i].direction = "incoming"}
  <2>1. Cancel(S)
    BY <1>3 DEF CancelIncoming
  <2>2. /\ entries' \in Seq(Entry) /\ Len(entries') = Len(entries)
        /\ \A i \in 1 .. Len(entries) :
             /\ entries'[i].direction = entries[i].direction
             /\ entries'[i].phase = entries[i].phase
             /\ entries'[i].cancelled <=> (entries[i].cancelled \/ i \in S)
    <3> HIDE DEF S
    <3> QED BY <1>0, <2>1, CancelFacts
  <2>3. Exact(entries', counters')
    BY <1>0, <1>3, <2>2, StayKeeps DEF CancelIncoming
  <2>4. Count(entries', Live) <= AbsoluteLimit
    <3>1. Count(entries', Live) <= Count(entries, Live)
      BY <1>0, <2>2, FewerStand
    <3>2. Count(entries', Live) \in Nat /\ Count(entries, Live) \in Nat
      BY <1>0, <2>2, PlacesFinite
    <3>3. Count(entries, Live) <= AbsoluteLimit /\ AbsoluteLimit \in Nat
      BY <1>0, PeerAdmissionAssumption DEF BudgetInv, Types, TypeOK, AbsoluteLimit
    <3> QED BY <3>1, <3>2, <3>3
  <2>5. Types'
    BY <1>0, <1>3, <2>2 DEF CancelIncoming, Types, TypeOK, dial
  <2>6. BudgetInv'
    BY <1>3, <2>3, <2>4, <2>5 DEF CancelIncoming, BudgetInv, AbsoluteLimit
  <2>7. IncomingRetired'
    <3>1. DOMAIN entries' = 1 .. Len(entries)
      BY <2>2
    <3> QED BY <1>0, <2>2, <3>1 DEF IncomingRetired
  <2> QED BY <2>6, <2>7
<1> QED BY <1>1, <1>2, <1>3

\* The permits: checking, establishing, closing.
LEMMA PermitKeeps ==
  ASSUME BudgetInv, IncomingRetired, NEW i \in DOMAIN entries,
         CheckAccepting(i) \/ Establish(i) \/ Close(i)
  PROVE  BudgetInv' /\ IncomingRetired'
<1>0. /\ Types /\ entries \in Seq(Entry) /\ Exact(entries, counters) /\ Len(entries) \in Nat
      /\ DOMAIN entries = 1 .. Len(entries) /\ entries[i] \in Entry
      /\ counters \in [Direction \X Phase -> Nat]
      /\ Count(entries, Live) <= AbsoluteLimit /\ AbsoluteLimit \in Nat
  <2>1. entries \in Seq(Entry) /\ Types
    BY DEF BudgetInv, Types, TypeOK
  <2> QED BY <2>1, PeerAdmissionAssumption DEF BudgetInv, Types, TypeOK, AbsoluteLimit
<1>1. ASSUME entries' = Without({i}), counters' = Released(i),
             UNCHANGED <<limit, dial, ready, turn, registered, incoming>>
      PROVE  BudgetInv' /\ IncomingRetired'
  <2> DEFINE d == entries[i].direction
             p == entries[i].phase
  <2>1. d \in Direction /\ p \in Phase
    BY <1>0 DEF Entry
  <2>2. counters' = [counters EXCEPT ![<<d, p>>] = @ - 1]
    BY <1>1 DEF Released
  <2>3. counters' \in [Direction \X Phase -> Int]
    BY <1>0, <2>1, <2>2
  <2>4. ASSUME NEW dd \in Direction, NEW pp \in Phase
        PROVE  counters'[<<dd, pp>>]
                 = counters[<<dd, pp>>] - Cardinality(Places(entries, Kind(dd, pp)) \cap {i})
    <3>1. i \in Places(entries, Kind(dd, pp)) <=> dd = d /\ pp = p
      BY <1>0 DEF Places, Kind
    <3>2. <<dd, pp>> \in Direction \X Phase /\ counters[<<dd, pp>>] \in Nat
      BY <1>0
    <3>3. CASE dd = d /\ pp = p
      <4>1. Places(entries, Kind(dd, pp)) \cap {i} = {i}
        BY <3>1, <3>3
      <4>2. Cardinality({i}) = 1
        BY FS_Singleton, Zenon
      <4>3. Cardinality(Places(entries, Kind(dd, pp)) \cap {i}) = 1
        BY <4>1, <4>2
      <4>4. counters'[<<dd, pp>>] = counters[<<dd, pp>>] - 1
        BY <1>0, <2>2, <3>2, <3>3
      <4> QED BY <4>3, <4>4
    <3>4. CASE ~ (dd = d /\ pp = p)
      <4>1. Places(entries, Kind(dd, pp)) \cap {i} = {}
        BY <3>1, <3>4
      <4>2. Cardinality({}) = 0
        BY FS_EmptySet, Zenon
      <4>3. Cardinality(Places(entries, Kind(dd, pp)) \cap {i}) = 0
        BY <4>1, <4>2
      <4>4. counters'[<<dd, pp>>] = counters[<<dd, pp>>]
        BY <1>0, <2>2, <3>2, <3>4
      <4> QED BY <3>2, <4>3, <4>4
    <3> QED BY <3>3, <3>4
  <2>5. {i} \in SUBSET DOMAIN entries
    OBVIOUS
  <2>6. /\ entries' \in Seq(Entry) /\ counters' \in [Direction \X Phase -> Nat]
        /\ Exact(entries', counters') /\ Count(entries', Live) <= AbsoluteLimit
        /\ \A k \in DOMAIN entries' : \E j \in DOMAIN entries : entries'[k] = entries[j]
    BY <1>1, <2>3, <2>4, <2>5, DropKeeps
  <2>7. Types'
    BY <1>0, <1>1, <2>6 DEF Types, TypeOK, dial
  <2>8. BudgetInv'
    BY <1>1, <2>6, <2>7 DEF BudgetInv, AbsoluteLimit
  <2>9. IncomingRetired'
    BY <1>1, <2>6 DEF IncomingRetired
  <2> QED BY <2>8, <2>9
<1>2. CASE Close(i)
  BY <1>1, <1>2 DEF Close
<1>3. CASE CheckAccepting(i)
  <2>1. CASE incoming # "on"
    BY <1>1, <1>3, <2>1 DEF CheckAccepting
  <2>2. CASE incoming = "on"
    <3> DEFINE u == [entries[i] EXCEPT !.checked = TRUE]
    <3>1. /\ u \in Entry /\ u.direction = entries[i].direction /\ u.phase = entries[i].phase
          /\ u.cancelled = entries[i].cancelled
      BY <1>0 DEF Entry
    <3>2. entries' = [entries EXCEPT ![i] = u] /\ counters' = counters
      BY <1>3, <2>2 DEF CheckAccepting
    <3> HIDE DEF u
    <3>3. /\ entries' \in Seq(Entry) /\ Len(entries') = Len(entries)
          /\ \A j \in 1 .. Len(entries) : entries'[j] = IF j = i THEN u ELSE entries[j]
      BY <1>0, <3>1, <3>2
    <3>4. Exact(entries', counters')
      <4>1. \A j \in 1 .. Len(entries) : entries'[j].direction = entries[j].direction
                                         /\ entries'[j].phase = entries[j].phase
        BY <3>1, <3>3
      <4> QED BY <1>0, <3>2, <3>3, <4>1, StayKeeps
    <3>5. Count(entries', Live) <= AbsoluteLimit
      <4>1. \A j \in 1 .. Len(entries) : entries[j].cancelled => entries'[j].cancelled
        BY <3>1, <3>3
      <4>2. Count(entries', Live) <= Count(entries, Live)
        BY <1>0, <3>3, <4>1, FewerStand
      <4>3. Count(entries', Live) \in Nat /\ Count(entries, Live) \in Nat
        BY <1>0, <3>3, PlacesFinite
      <4> QED BY <1>0, <4>2, <4>3
    <3>6. Types'
      BY <1>0, <1>3, <3>2, <3>3 DEF CheckAccepting, Types, TypeOK, dial
    <3>7. BudgetInv'
      BY <1>3, <3>4, <3>5, <3>6 DEF CheckAccepting, BudgetInv, AbsoluteLimit
    <3>8. IncomingRetired'
      BY <1>3, <2>2 DEF CheckAccepting, IncomingRetired
    <3> QED BY <3>7, <3>8
  <2> QED BY <2>1, <2>2
<1>4. CASE Establish(i)
  <2>1. /\ entries' \in Seq(Entry) /\ counters' \in [Direction \X Phase -> Nat]
        /\ Exact(entries', counters') /\ Count(entries', Live) <= AbsoluteLimit
    BY <1>4, EstablishKeeps
  <2>2. Types'
    BY <1>0, <1>4, <2>1 DEF Establish, Types, TypeOK, dial
  <2>3. BudgetInv'
    BY <1>4, <2>1, <2>2 DEF Establish, BudgetInv, AbsoluteLimit
  <2>4. IncomingRetired'
    <3> DEFINE u == [entries[i] EXCEPT !.phase = "established"]
    <3>1. /\ u.direction = entries[i].direction /\ u.checked = entries[i].checked
          /\ u.cancelled = entries[i].cancelled
      BY <1>0 DEF Entry
    <3>2. entries' = [entries EXCEPT ![i] = u] /\ incoming' = incoming
      BY <1>4 DEF Establish
    <3> HIDE DEF u
    <3>3. /\ DOMAIN entries' = DOMAIN entries
          /\ \A j \in DOMAIN entries : entries'[j] = IF j = i THEN u ELSE entries[j]
      BY <1>0, <3>2
    <3> QED BY <3>1, <3>2, <3>3 DEF IncomingRetired
  <2> QED BY <2>3, <2>4
<1> QED BY <1>2, <1>3, <1>4

\* The user changes the limit.
LEMMA ReconfigureKeeps ==
  ASSUME BudgetInv, IncomingRetired, NEW n \in Limits, Reconfigure(n)
  PROVE  BudgetInv' /\ IncomingRetired'
<1>0. Types /\ entries \in Seq(Entry) /\ DOMAIN entries = 1 .. Len(entries)
  BY DEF BudgetInv, Types, TypeOK
<1>1. /\ entries' \in Seq(Entry) /\ Len(entries') = Len(entries)
      /\ Places(entries', Live) = Standing \ Evicted(n)
      /\ Exact(entries', counters')
  BY ReconfigureStands
<1>2. limit' = EffectiveLimit(n) /\ limit' \in Nat
  BY EffectiveLimitType DEF Reconfigure
<1>3. Count(entries', Live) <= AbsoluteLimit'
  <2>1. Cardinality(Standing \ Evicted(n)) <= EffectiveLimit(n) + Slack
    BY EvictionExact
  <2>2. Count(entries', Live) = Cardinality(Standing \ Evicted(n))
    BY <1>1 DEF Count
  <2> QED BY <1>2, <2>1, <2>2 DEF AbsoluteLimit
<1>4. Types'
  BY <1>0, <1>1, <1>2 DEF Reconfigure, Types, TypeOK, dial
<1>5. BudgetInv'
  BY <1>1, <1>3, <1>4 DEF BudgetInv
<1>6. IncomingRetired'
  <2>1. Cancel(Evicted(n)) /\ incoming' = incoming
    BY DEF Reconfigure
  <2>2. \A i \in 1 .. Len(entries) :
           /\ entries'[i].direction = entries[i].direction
           /\ entries'[i].checked = entries[i].checked
           /\ entries'[i].cancelled <=> (entries[i].cancelled \/ i \in Evicted(n))
    BY <1>0, <2>1, CancelFacts
  <2>3. DOMAIN entries' = 1 .. Len(entries)
    BY <1>1
  <2> QED BY <1>0, <2>1, <2>2, <2>3 DEF IncomingRetired
<1> QED BY <1>5, <1>6

\* A torrent ends.
LEMMA UnregisterKeeps ==
  ASSUME BudgetInv, IncomingRetired, NEW t \in Torrent, Unregister(t)
  PROVE  BudgetInv' /\ IncomingRetired'
<1>0. /\ Types /\ entries \in Seq(Entry) /\ DOMAIN entries = 1 .. Len(entries)
      /\ dialQueue \in Seq(Torrent) /\ counters \in [Direction \X Phase -> Nat]
      /\ Len(entries) \in Nat
  BY DEF BudgetInv, Types, TypeOK
<1> DEFINE G == {i \in DOMAIN entries : entries[i].owner = t}
           C(k) == {i \in G : <<entries[i].direction, entries[i].phase>> = k}
<1>1. /\ entries' = Without(G)
      /\ counters' = [k \in DOMAIN counters |-> counters[k] - Cardinality(C(k))]
      /\ limit' = limit /\ incoming' = incoming
  BY DEF Unregister
<1>2. G \in SUBSET DOMAIN entries /\ IsFiniteSet(G)
  BY <1>0, IntervalCardinality, FS_Subset
<1>3. ASSUME NEW d \in Direction, NEW p \in Phase
      PROVE  /\ C(<<d, p>>) = Places(entries, Kind(d, p)) \cap G
             /\ Cardinality(C(<<d, p>>)) \in Nat
  <2>1. C(<<d, p>>) = {i \in G : entries[i].direction = d /\ entries[i].phase = p}
    OBVIOUS
  <2>2. \A i \in G : i \in 1 .. Len(entries) /\ entries[i] \in Entry
    BY <1>0
  <2>3. C(<<d, p>>) = Places(entries, Kind(d, p)) \cap G
    BY <2>1, <2>2 DEF Places, Kind
  <2>4. IsFiniteSet(C(<<d, p>>))
    BY <1>2, FS_Subset
  <2> QED BY <2>3, <2>4, FS_CardinalityType
<1> HIDE DEF C, G
<1>4. ASSUME NEW d \in Direction, NEW p \in Phase
      PROVE  /\ counters'[<<d, p>>]
                  = counters[<<d, p>>] - Cardinality(Places(entries, Kind(d, p)) \cap G)
             /\ counters'[<<d, p>>] \in Int
  <2>1. <<d, p>> \in Direction \X Phase
    OBVIOUS
  <2>2. counters'[<<d, p>>] = counters[<<d, p>>] - Cardinality(C(<<d, p>>)) /\ counters[<<d, p>>] \in Nat
    BY <1>0, <1>1, <2>1
  <2>3. /\ Cardinality(C(<<d, p>>)) = Cardinality(Places(entries, Kind(d, p)) \cap G)
        /\ Cardinality(C(<<d, p>>)) \in Nat
    BY <1>3
  <2> QED BY <2>2, <2>3
<1>5. counters' \in [Direction \X Phase -> Int]
  <2>1. DOMAIN counters = Direction \X Phase
    BY <1>0
  <2>2. ASSUME NEW k \in Direction \X Phase PROVE counters[k] - Cardinality(C(k)) \in Int
    <3>1. PICK d \in Direction, p \in Phase : k = <<d, p>>
      OBVIOUS
    <3>2. counters[<<d, p>>] - Cardinality(C(<<d, p>>)) \in Int
      BY <1>0, <1>3
    <3> QED BY <3>1, <3>2
  <2> QED BY <1>1, <2>1, <2>2
<1>6. /\ entries' \in Seq(Entry) /\ counters' \in [Direction \X Phase -> Nat]
      /\ Exact(entries', counters') /\ Count(entries', Live) <= AbsoluteLimit
      /\ \A k \in DOMAIN entries' : \E j \in DOMAIN entries : entries'[k] = entries[j]
  BY <1>1, <1>2, <1>4, <1>5, DropKeeps
<1>7. Types'
  <2>1. dialQueue' \in Seq(Torrent)
    BY <1>0, RetainType DEF Unregister
  <2>2. lastGranted' \in Torrent \cup {None} /\ registered' \subseteq Torrent
        /\ ready' \subseteq registered' /\ turn' \subseteq registered'
    BY <1>0 DEF Unregister, Types, TypeOK
  <2>3. yieldedLast' \in BOOLEAN
    BY <1>0 DEF Unregister, Types, TypeOK
  <2> QED BY <1>0, <1>1, <1>6, <2>1, <2>2, <2>3 DEF Types, TypeOK
<1>8. BudgetInv'
  BY <1>1, <1>6, <1>7 DEF BudgetInv, AbsoluteLimit
<1>9. IncomingRetired'
  BY <1>1, <1>6 DEF IncomingRetired
<1> QED BY <1>8, <1>9

-----------------------------------------------------------------------------
(* The theorems. *)

\* The inductive invariant holds in every state of the peer budget.
THEOREM BudgetInvariant == Spec => [](BudgetInv /\ IncomingRetired)
<1>1. BudgetInv /\ IncomingRetired /\ [Next]_vars => BudgetInv' /\ IncomingRetired'
  <2> SUFFICES ASSUME BudgetInv, IncomingRetired, [Next]_vars
               PROVE  BudgetInv' /\ IncomingRetired'
    OBVIOUS
  <2>1. CASE UNCHANGED vars
    <3>1. Types' /\ UNCHANGED budget /\ UNCHANGED incoming
      BY <2>1 DEF vars, BudgetInv, Types, TypeOK, budget
    <3> QED BY <3>1, OutsideKeeps DEF IncomingRetired, budget
  <2> QED
    BY <2>1, TorrentKeeps, ListenerKeeps, PermitKeeps, ReconfigureKeeps, UnregisterKeeps DEF Next
<1> QED BY <1>1, InitBudgetInv, PTL DEF Spec

(***************************************************************************)
(* The counters the ceilings are tested against are the permits that       *)
(* exist, and the permits nobody cancelled fit the absolute limit, for any *)
(* interleaving of dials, accepts, phase changes, drops, reconfigurations  *)
(* and torrent ends (PeerBudget of peer_budget.rs).                        *)
(***************************************************************************)
THEOREM BudgetAlwaysSound == Spec => []BudgetSound
<1>1. BudgetInv => BudgetSound
  <2> SUFFICES ASSUME BudgetInv PROVE BudgetSound
    OBVIOUS
  <2>1. TypeOK /\ entries \in Seq(Entry)
    BY DEF BudgetInv, Types, TypeOK
  <2>2. /\ Standing = Places(entries, Live)
        /\ \A d \in Direction, p \in Phase :
             {i \in DOMAIN entries : entries[i].direction = d /\ entries[i].phase = p}
               = Places(entries, Kind(d, p))
    BY <2>1, ExactMeaning
  <2>3. Cardinality(Standing) <= AbsoluteLimit
    BY <2>2 DEF BudgetInv, Count
  <2>4. ASSUME NEW d \in Direction, NEW p \in Phase
        PROVE  counters[<<d, p>>] = Cardinality({i \in DOMAIN entries : entries[i].direction = d
                                                                /\ entries[i].phase = p})
    <3>1. counters[<<d, p>>] = Cardinality(Places(entries, Kind(d, p)))
      BY DEF BudgetInv, Exact, Count
    <3>2. {i \in DOMAIN entries : entries[i].direction = d /\ entries[i].phase = p}
            = Places(entries, Kind(d, p))
      BY <2>2
    <3> QED BY <3>1, <3>2, Zenon
  <2>5. BudgetExact
    BY <2>3, <2>4, Zenon DEF BudgetExact
  <2> QED BY <2>1, <2>5 DEF BudgetSound
<1> QED BY <1>1, BudgetInvariant, PTL

(***************************************************************************)
(* A listener that was disabled keeps no peer that passed its flag, although*)
(* the flag goes down and the peers are cancelled in two steps, and a      *)
(* connection takes its permit before it looks at the flag                 *)
(* (set_incoming_enabled, run_accept_loop, run_handshake).                 *)
(***************************************************************************)
THEOREM IncomingAlwaysRetired == Spec => []IncomingRetired
<1> QED BY BudgetInvariant, PTL

(***************************************************************************)
(* Lowering the limit cancels no more peers than it must: as many as bring *)
(* the standing ones to the absolute limit, counting those cancelled       *)
(* before, and an established one only when no standing one is connecting  *)
(* (PeerBudget::reconfigure).                                              *)
(***************************************************************************)
THEOREM NoNeedlessEvictionHolds == Spec => NoNeedlessEviction
<1> DEFINE New == {i \in DOMAIN entries : entries'[i].cancelled /\ ~entries[i].cancelled}
           Thrifty == limit' # limit =>
             (New # {} =>
                /\ Cardinality(Standing \ New) = limit' + Slack
                /\ (\E i \in New : entries[i].phase = "established") =>
                     \A i \in Standing \ New : entries[i].phase = "established")
<1>1. BudgetInv /\ [Next]_vars => [Thrifty]_vars
  <2> SUFFICES ASSUME BudgetInv, [Next]_vars, limit' # limit, New # {}
               PROVE  /\ Cardinality(Standing \ New) = limit' + Slack
                      /\ (\E i \in New : entries[i].phase = "established") =>
                           \A i \in Standing \ New : entries[i].phase = "established"
    OBVIOUS
  <2>1. PICK n \in Limits : Reconfigure(n)
    BY DEF Next, vars, FindCandidate, LoseCandidate, AskTurn, StartDial, Unregister, Accept,
       DisableIncoming, CancelIncoming, EnableIncoming, CheckAccepting, Establish, Close, budget
  <2>2. entries \in Seq(Entry) /\ DOMAIN entries = 1 .. Len(entries)
    BY DEF BudgetInv, Types, TypeOK
  <2>3. /\ Cancel(Evicted(n)) /\ limit' = EffectiveLimit(n)
    BY <2>1 DEF Reconfigure
  <2>4. \A i \in 1 .. Len(entries) : entries'[i].cancelled <=> (entries[i].cancelled \/ i \in Evicted(n))
    BY <2>2, <2>3, CancelFacts
  <2>5. /\ Evicted(n) \subseteq Standing
        /\ Evicted(n) # {} => Cardinality(Standing \ Evicted(n)) = EffectiveLimit(n) + Slack
        /\ \A i \in Evicted(n), j \in Standing : Before(j, i) => j \in Evicted(n)
    BY EvictionExact
  <2>6. New = Evicted(n)
    BY <2>2, <2>4, <2>5 DEF Standing
  <2>7. \A i \in DOMAIN entries : entries[i].phase \in {"connecting", "established"}
    <3>1. \A i \in DOMAIN entries : entries[i] \in Entry
      BY <2>2
    <3> QED BY <3>1 DEF Entry, Phase
  <2>8. Cardinality(Standing \ New) = limit' + Slack
    <3>1. Evicted(n) # {}
      BY <2>6
    <3> HIDE DEF New
    <3> QED BY <2>3, <2>5, <2>6, <3>1
  <2>9. ASSUME NEW i \in New, entries[i].phase = "established", NEW j \in Standing \ New
        PROVE  entries[j].phase = "established"
    <3>1. i \in DOMAIN entries /\ j \in DOMAIN entries /\ i \in Evicted(n) /\ j \notin Evicted(n)
      BY <2>6, <2>9 DEF Standing
    <3>2. ~Before(j, i)
      BY <2>5, <2>9, <3>1
    <3> QED BY <2>7, <2>9, <3>1, <3>2 DEF Before
  <2> QED BY <2>8, <2>9
<1>2. BudgetInv /\ [Next]_vars =>
        [limit' # limit =>
           LET evicted == {i \in DOMAIN entries : entries'[i].cancelled /\ ~entries[i].cancelled}
           IN evicted # {} =>
                /\ Cardinality(Standing \ evicted) = limit' + Slack
                /\ (\E i \in evicted : entries[i].phase = "established") =>
                     \A i \in Standing \ evicted : entries[i].phase = "established"]_vars
  BY <1>1
<1> QED BY <1>2, BudgetInvariant, PTL DEF Spec, NoNeedlessEviction
=============================================================================
