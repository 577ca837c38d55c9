------------------------ MODULE SessionResourcesProofs ------------------------
(***************************************************************************)
(* Proofs about SessionResources for every set of torrents, every size of  *)
(* their blocks and pieces and every limit: the session counters are what  *)
(* the torrents hold, everything is returned in the end, the admission     *)
(* queues hold who waits, and who is selected can pay what a quantum pays. *)
(* And about StorageExecution, the other half of session_resources.rs: the *)
(* counters of FairExecutionAuthority are exact and no wake-up is lost,    *)
(* for every set of jobs, torrents and roots and every number of slots.    *)
(***************************************************************************)
EXTENDS SessionResources, StorageExecution, FiniteSetTheorems, SequenceTheorems,
        WellFoundedInduction, TLAPS

-----------------------------------------------------------------------------
(* The inductive invariant. *)

\* what torrent t has in budget b of the session
HoldOf(t, b) == usage[t][b] + InFlight(t)[b]

\* the usage of a torrent is what its owners hold and what the step under way has charged
UsageExact(t) ==
  /\ usage[t]["request"] = heldRequests[t] * BlockBytes[t]
       + (IF step[t] \in {"pieceTry", "pieceTaken", "piecePanic"} THEN BlockBytes[t] ELSE 0)
  /\ usage[t]["payload"] = heldPayload[t] * BlockBytes[t]
       + (IF buffer[t] = "charged" THEN BlockBytes[t] ELSE 0)
  /\ usage[t]["pieceBytes"] = heldPieces[t] * PieceBytes[t]
  /\ usage[t]["pieces"] = heldPieces[t]

\* a torrent that is not registered holds nothing and has no step under way
Quiet(t) ==
  handle[t] # "live" => /\ step[t] = "idle" /\ buffer[t] = "idle"
                        /\ heldRequests[t] = 0 /\ heldPieces[t] = 0 /\ heldPayload[t] = 0

HoldInv == TypeOK /\ \A t \in Torrent : UsageExact(t) /\ Quiet(t)

\* An admission queue of requests of these sizes.
Waiters(s, size) ==
  /\ s \in [queue : Seq(Torrent), costs : [Torrent -> Nat], deficits : [Torrent -> Nat]]
  /\ IsInjective(s.queue)
  /\ \A t \in Torrent : /\ t \in ToSet(s.queue) <=> s.costs[t] # 0
                        /\ s.costs[t] \in {0, size[t]}
                        /\ s.deficits[t] <= size[t] + Quantum

Registered(s) == \A t \in ToSet(s.queue) : handle[t] \in {"live", "dropping"}

QueueInv ==
  /\ Waiters(request, BlockBytes) /\ Registered(request)
  /\ Waiters(piece, PieceBytes) /\ Registered(piece)

SessionInv == HoldInv /\ BudgetsConserved /\ QueueInv /\ SelectedCanPay

-----------------------------------------------------------------------------
(* Sums over a finite set. *)

\* Induction over the natural numbers, for the set of numbers with a property.
LEMMA Induction ==
  ASSUME NEW S, 0 \in S, \A n \in Nat : n \in S => n + 1 \in S
  PROVE  Nat \subseteq S
<1> SUFFICES ASSUME Nat \ S # {} PROVE FALSE
  OBVIOUS
<1>1. PICK n \in Nat \ S : \A m \in Nat \ S : ~ (<<m, n>> \in OpToRel(<, Nat))
  BY WFMin, NatLessThanWellFounded, Zenon
<1>2. \A m \in Nat : m < n => m \in S
  BY <1>1 DEF OpToRel
<1>3. n \in Nat /\ n # 0
  BY <1>1
<1>4. n - 1 \in Nat /\ n - 1 < n /\ (n - 1) + 1 = n
  BY <1>3
<1> QED BY <1>1, <1>2, <1>4

\* Induction over the subsets of a finite set.
LEMMA SubsetInduction ==
  ASSUME NEW D, IsFiniteSet(D), NEW F, {} \in F,
         \A s \in SUBSET D : \A x \in D \ s : s \in F => s \cup {x} \in F
  PROVE  SUBSET D \subseteq F
<1> DEFINE N == {n \in Nat : \A s \in SUBSET D : Cardinality(s) = n => s \in F}
<1>0. \A s \in SUBSET D : IsFiniteSet(s) /\ Cardinality(s) \in Nat
  BY FS_Subset, FS_CardinalityType
<1>1. 0 \in N
  BY <1>0, FS_EmptySet
<1>2. ASSUME NEW n \in Nat, n \in N PROVE n + 1 \in N
  <2> SUFFICES ASSUME NEW s \in SUBSET D, Cardinality(s) = n + 1 PROVE s \in F
    OBVIOUS
  <2>1. s # {}
    <3> SUFFICES ASSUME s = {} PROVE FALSE
      OBVIOUS
    <3>1. Cardinality(s) = 0
      BY FS_EmptySet, Zenon
    <3> QED BY <3>1
  <2>2. PICK x \in s : TRUE
    BY <2>1
  <2>3. Cardinality(s \ {x}) = Cardinality(s) - 1
    BY <1>0, FS_RemoveElement
  <2>4. s \ {x} \in SUBSET D /\ Cardinality(s \ {x}) = n
    BY <2>3
  <2>5. s \ {x} \in F /\ x \in D \ (s \ {x}) /\ (s \ {x}) \cup {x} = s
    BY <1>2, <2>4
  <2> QED BY <2>4, <2>5
<1>3. Nat \subseteq N
  <2> HIDE DEF N
  <2> QED BY <1>1, <1>2, Induction
<1> QED BY <1>0, <1>3

-----------------------------------------------------------------------------
\* g adds up f over the sets of D, one element at a time
Pick(s) == CHOOSE x \in s : TRUE
Adds(f, D, g) == g = [s \in D |-> IF s = {} THEN 0 ELSE f[Pick(s)] + g[s \ {Pick(s)}]]

\* A chosen element of a set is in it.
LEMMA PickFacts ==
  ASSUME NEW s, s # {}
  PROVE  Pick(s) \in s
BY DEF Pick

\* The sums over a finite set exist.
LEMMA AddsExists ==
  ASSUME NEW S, IsFiniteSet(S), NEW f
  PROVE  \E g : Adds(f, SUBSET S, g)
<1> DEFINE D(n) == {s \in SUBSET S : Cardinality(s) <= n}
           N == {n \in Nat : \E g : Adds(f, D(n), g)}
<1>0. \A s \in SUBSET S : IsFiniteSet(s) /\ Cardinality(s) \in Nat
  BY FS_Subset, FS_CardinalityType
<1>1. 0 \in N
  <2> DEFINE g == [s \in D(0) |-> 0]
  <2>1. \A s \in D(0) : s = {}
    BY <1>0, FS_EmptySet
  <2>2. Adds(f, D(0), g)
    BY <2>1 DEF Adds
  <2> QED BY <2>2
<1>2. ASSUME NEW n \in Nat, n \in N PROVE n + 1 \in N
  <2>1. PICK g : Adds(f, D(n), g)
    BY <1>2
  <2> DEFINE h == [s \in D(n + 1) |-> IF s = {} THEN 0 ELSE f[Pick(s)] + g[s \ {Pick(s)}]]
  <2>2. ASSUME NEW s \in D(n + 1), s # {} PROVE s \ {Pick(s)} \in D(n)
    <3>1. Cardinality(s \ {Pick(s)}) = Cardinality(s) - 1
      BY <1>0, <2>2, PickFacts, FS_RemoveElement
    <3> QED BY <1>0, <2>2, <3>1
  <2>3. \A s \in D(n) : s \in D(n + 1) /\ h[s] = g[s]
    <3>1. \A s \in D(n) : s \in D(n + 1)
      BY <1>0
    <3>2. \A s \in D(n) : g[s] = IF s = {} THEN 0 ELSE f[Pick(s)] + g[s \ {Pick(s)}]
      <4> HIDE DEF D
      <4> QED BY <2>1 DEF Adds
    <3> HIDE DEF D
    <3> QED BY <3>1, <3>2
  <2>4. Adds(f, D(n + 1), h)
    <3>1. \A s \in D(n + 1) : s # {} => h[s \ {Pick(s)}] = g[s \ {Pick(s)}]
      <4> HIDE DEF h, D
      <4> QED BY <2>2, <2>3
    <3> HIDE DEF D
    <3> QED BY <3>1 DEF Adds
  <2> HIDE DEF h, D
  <2> QED BY <2>4
<1>3. Nat \subseteq N
  <2> HIDE DEF N
  <2> QED BY <1>1, <1>2, Induction
<1> DEFINE n == Cardinality(S)
<1>4. D(n) = SUBSET S /\ n \in Nat
  <2>1. \A s \in SUBSET S : Cardinality(s) <= n
    BY FS_Subset
  <2> QED BY <1>0, <2>1
<1> HIDE DEF n, D
<1> QED BY <1>3, <1>4

\* the numbers that f gives to S
Ints(f, S) == \A x \in S : f[x] \in Int

\* A sum is peeled from the element that is picked; nothing adds up to zero.
LEMMA Peel ==
  ASSUME NEW S, NEW f, NEW g, Adds(f, SUBSET S, g), NEW s \in SUBSET S, s # {}
  PROVE  g[s] = f[Pick(s)] + g[s \ {Pick(s)}] /\ Pick(s) \in s
<1>1. \A t \in SUBSET S : g[t] = IF t = {} THEN 0 ELSE f[Pick(t)] + g[t \ {Pick(t)}]
  BY DEF Adds
<1> QED BY <1>1, PickFacts

\* The empty set adds up to nothing.
LEMMA PeelEmpty ==
  ASSUME NEW S, NEW f, NEW g, Adds(f, SUBSET S, g)
  PROVE  g[{}] = 0
<1>1. {} \in SUBSET S
  OBVIOUS
<1> QED BY <1>1 DEF Adds

\* The size of a set without one of its elements.
LEMMA OneLess ==
  ASSUME NEW S, IsFiniteSet(S), NEW s \in SUBSET S, NEW n \in Nat, Cardinality(s) = n + 1
  PROVE  s # {} /\ \A x \in s : s \ {x} \in SUBSET S /\ Cardinality(s \ {x}) = n
<1>1. s # {}
  <2> SUFFICES ASSUME s = {} PROVE FALSE
    OBVIOUS
  <2>1. Cardinality(s) = 0
    BY FS_EmptySet, Zenon
  <2> QED BY <2>1
<1>2. ASSUME NEW x \in s PROVE s \ {x} \in SUBSET S /\ Cardinality(s \ {x}) = n
  <2>1. IsFiniteSet(s)
    BY FS_Subset
  <2>2. Cardinality(s \ {x}) = Cardinality(s) - 1
    BY <2>1, FS_RemoveElement
  <2> QED BY <2>2
<1> QED BY <1>1, <1>2

\* Sums of integers are integers.
LEMMA AddsType ==
  ASSUME NEW S, IsFiniteSet(S), NEW f, Ints(f, S), NEW g, Adds(f, SUBSET S, g)
  PROVE  \A s \in SUBSET S : g[s] \in Int
<1> DEFINE N == {n \in Nat : \A s \in SUBSET S : Cardinality(s) = n => g[s] \in Int}
<1>0. \A s \in SUBSET S : IsFiniteSet(s) /\ Cardinality(s) \in Nat
  BY FS_Subset, FS_CardinalityType
<1>1. 0 \in N
  <2> SUFFICES ASSUME NEW s \in SUBSET S, Cardinality(s) = 0 PROVE g[s] \in Int
    OBVIOUS
  <2>1. s = {}
    BY <1>0, FS_EmptySet
  <2>2. g[s] = 0
    BY <2>1, PeelEmpty
  <2> QED BY <2>2
<1>2. ASSUME NEW n \in Nat, n \in N PROVE n + 1 \in N
  <2> SUFFICES ASSUME NEW s \in SUBSET S, Cardinality(s) = n + 1 PROVE g[s] \in Int
    OBVIOUS
  <2> DEFINE x == Pick(s)
  <2>1. s # {} /\ \A y \in s : s \ {y} \in SUBSET S /\ Cardinality(s \ {y}) = n
    BY OneLess
  <2>2. g[s] = f[x] + g[s \ {x}] /\ x \in s
    BY <2>1, Peel
  <2> HIDE DEF x
  <2>3. g[s \ {x}] \in Int /\ f[x] \in Int
    BY <1>2, <2>1, <2>2 DEF Ints
  <2> QED BY <2>2, <2>3
<1>3. Nat \subseteq N
  <2> HIDE DEF N
  <2> QED BY <1>1, <1>2, Induction
<1> QED BY <1>0, <1>3

\* A sum may be peeled from any of its elements.
LEMMA PeelAny ==
  ASSUME NEW S, IsFiniteSet(S), NEW f, Ints(f, S), NEW g, Adds(f, SUBSET S, g),
         NEW T \in SUBSET S, NEW z \in T
  PROVE  g[T] = f[z] + g[T \ {z}]
<1> DEFINE N == {n \in Nat : \A s \in SUBSET S : Cardinality(s) = n =>
                               \A y \in s : g[s] = f[y] + g[s \ {y}]}
<1>0. \A s \in SUBSET S : IsFiniteSet(s) /\ Cardinality(s) \in Nat /\ g[s] \in Int
  BY AddsType, FS_Subset, FS_CardinalityType
<1>1. 0 \in N
  BY <1>0, FS_EmptySet
<1>2. ASSUME NEW n \in Nat, n \in N PROVE n + 1 \in N
  <2> SUFFICES ASSUME NEW s \in SUBSET S, Cardinality(s) = n + 1, NEW y \in s
               PROVE  g[s] = f[y] + g[s \ {y}]
    OBVIOUS
  <2> DEFINE x == Pick(s)
  <2>1. s # {} /\ \A u \in s : s \ {u} \in SUBSET S /\ Cardinality(s \ {u}) = n
    BY OneLess
  <2>2. g[s] = f[x] + g[s \ {x}] /\ x \in s
    BY <2>1, Peel
  <2> HIDE DEF x
  <2>3. CASE x = y
    BY <2>2, <2>3
  <2>4. CASE x # y
    <3> DEFINE rest == s \ {x, y}
    <3>1. (s \ {x}) \ {y} = rest /\ (s \ {y}) \ {x} = rest /\ y \in s \ {x} /\ x \in s \ {y}
          /\ rest \in SUBSET S
      BY <2>2, <2>4
    <3>2. g[s \ {x}] = f[y] + g[rest] /\ g[s \ {y}] = f[x] + g[rest]
      <4> HIDE DEF rest
      <4>1. \A t \in SUBSET S : Cardinality(t) = n => \A u \in t : g[t] = f[u] + g[t \ {u}]
        BY <1>2
      <4>2. /\ s \ {x} \in SUBSET S /\ Cardinality(s \ {x}) = n
            /\ s \ {y} \in SUBSET S /\ Cardinality(s \ {y}) = n
        BY <2>1, <2>2
      <4>3. /\ g[s \ {x}] = f[y] + g[(s \ {x}) \ {y}]
            /\ g[s \ {y}] = f[x] + g[(s \ {y}) \ {x}]
        BY <3>1, <4>1, <4>2
      <4> QED BY <3>1, <4>3
    <3>3. f[x] \in Int /\ f[y] \in Int /\ g[rest] \in Int
      BY <1>0, <2>2, <3>1 DEF Ints
    <3> HIDE DEF rest
    <3> QED BY <2>2, <3>2, <3>3
  <2> QED BY <2>3, <2>4
<1>3. Nat \subseteq N
  <2> HIDE DEF N
  <2> QED BY <1>1, <1>2, Induction
<1> QED BY <1>0, <1>3

\* Two sums over the same set, of numbers that agree on it.
LEMMA AddsAgree ==
  ASSUME NEW S, IsFiniteSet(S), NEW T \in SUBSET S, NEW f, NEW h, \A x \in T : f[x] = h[x],
         NEW g, Adds(f, SUBSET S, g), NEW k, Adds(h, SUBSET S, k)
  PROVE  g[T] = k[T]
<1> DEFINE N == {n \in Nat : \A s \in SUBSET T : Cardinality(s) = n => g[s] = k[s]}
<1>0. IsFiniteSet(T) /\ \A s \in SUBSET T : s \in SUBSET S /\ IsFiniteSet(s) /\ Cardinality(s) \in Nat
  BY FS_Subset, FS_CardinalityType
<1>1. \A s \in SUBSET S : g[s] = IF s = {} THEN 0 ELSE f[Pick(s)] + g[s \ {Pick(s)}]
  BY DEF Adds
<1>2. \A s \in SUBSET S : k[s] = IF s = {} THEN 0 ELSE h[Pick(s)] + k[s \ {Pick(s)}]
  BY DEF Adds
<1>3. 0 \in N
  <2> SUFFICES ASSUME NEW s \in SUBSET T, Cardinality(s) = 0 PROVE g[s] = k[s]
    OBVIOUS
  <2>1. s = {}
    BY <1>0, FS_EmptySet
  <2>2. g[s] = 0
    BY <2>1, PeelEmpty
  <2>3. k[s] = 0
    BY <2>1, PeelEmpty
  <2> QED BY <2>2, <2>3
<1>4. ASSUME NEW n \in Nat, n \in N PROVE n + 1 \in N
  <2> SUFFICES ASSUME NEW s \in SUBSET T, Cardinality(s) = n + 1 PROVE g[s] = k[s]
    OBVIOUS
  <2> DEFINE x == Pick(s)
  <2>1. s # {} /\ \A y \in s : s \ {y} \in SUBSET T /\ Cardinality(s \ {y}) = n
    <3>1. IsFiniteSet(T)
      BY <1>0
    <3> HIDE DEF N
    <3> QED BY <3>1, OneLess
  <2>2. x \in s /\ s \in SUBSET S
    BY <2>1, PickFacts
  <2>3. g[s] = f[x] + g[s \ {x}] /\ k[s] = h[x] + k[s \ {x}]
    BY <1>1, <1>2, <2>1, <2>2
  <2> HIDE DEF x
  <2>4. g[s \ {x}] = k[s \ {x}] /\ f[x] = h[x]
    BY <1>4, <2>1, <2>2
  <2> QED BY <2>3, <2>4
<1>5. Nat \subseteq N
  <2> HIDE DEF N
  <2> QED BY <1>3, <1>4, Induction
<1>6. T \in SUBSET T
  OBVIOUS
<1> QED BY <1>0, <1>5, <1>6

\* the sum of f over all torrents
Total(f) == (CHOOSE g : Adds(f, SUBSET Torrent, g))[Torrent]

\* Total adds up its function over the torrents.
LEMMA TotalAdds ==
  ASSUME NEW f
  PROVE  \E g : Adds(f, SUBSET Torrent, g) /\ Total(f) = g[Torrent]
<1>1. \E g : Adds(f, SUBSET Torrent, g)
  BY TorrentAssumption, AddsExists
<1> QED BY <1>1 DEF Total

\* Natural numbers add up to a natural number, zeros to zero.
LEMMA TotalNat ==
  ASSUME NEW f, \A t \in Torrent : f[t] \in Nat
  PROVE  Total(f) \in Nat /\ ((\A t \in Torrent : f[t] = 0) => Total(f) = 0)
<1>1. PICK g : Adds(f, SUBSET Torrent, g) /\ Total(f) = g[Torrent]
  BY TotalAdds
<1> DEFINE F == {s \in SUBSET Torrent : g[s] \in Nat /\ ((\A t \in Torrent : f[t] = 0) => g[s] = 0)}
<1>2. {} \in F
  <2>1. g[{}] = 0
    BY <1>1, PeelEmpty
  <2> QED BY <2>1
<1>3. ASSUME NEW s \in SUBSET Torrent, NEW t \in Torrent \ s, s \in F PROVE s \cup {t} \in F
  <2>1. s \cup {t} \in SUBSET Torrent /\ t \in s \cup {t} /\ (s \cup {t}) \ {t} = s
    OBVIOUS
  <2>2. IsFiniteSet(Torrent) /\ Ints(f, Torrent)
    BY TorrentAssumption DEF Ints
  <2>3. g[s \cup {t}] = f[t] + g[(s \cup {t}) \ {t}]
    BY <1>1, <2>1, <2>2, PeelAny
  <2>4. g[s \cup {t}] = f[t] + g[s]
    BY <2>1, <2>3
  <2> QED BY <1>3, <2>1, <2>4
<1>4. SUBSET Torrent \subseteq F
  <2> HIDE DEF F
  <2> QED BY <1>2, <1>3, TorrentAssumption, SubsetInduction
<1> QED BY <1>1, <1>4

\* The sum when one torrent's number changes.
LEMMA TotalChange ==
  ASSUME NEW f, NEW h, \A t \in Torrent : f[t] \in Nat /\ h[t] \in Nat,
         NEW t \in Torrent, \A u \in Torrent \ {t} : f[u] = h[u]
  PROVE  Total(h) = Total(f) + h[t] - f[t]
<1>1. PICK g : Adds(f, SUBSET Torrent, g) /\ Total(f) = g[Torrent]
  BY TotalAdds
<1>2. PICK k : Adds(h, SUBSET Torrent, k) /\ Total(h) = k[Torrent]
  BY TotalAdds
<1>3. IsFiniteSet(Torrent) /\ Ints(f, Torrent) /\ Ints(h, Torrent)
  BY TorrentAssumption DEF Ints
<1>4. Torrent \in SUBSET Torrent /\ Torrent \ {t} \in SUBSET Torrent
  OBVIOUS
<1>5. g[Torrent] = f[t] + g[Torrent \ {t}]
  BY <1>1, <1>3, <1>4, PeelAny
<1>6. k[Torrent] = h[t] + k[Torrent \ {t}]
  BY <1>2, <1>3, <1>4, PeelAny
<1>7. g[Torrent \ {t}] = k[Torrent \ {t}]
  BY <1>1, <1>2, <1>3, <1>4, AddsAgree
<1>8. \A s \in SUBSET Torrent : g[s] \in Int
  BY <1>1, <1>3, AddsType
<1>9. g[Torrent \ {t}] \in Int /\ f[t] \in Int /\ h[t] \in Int
  BY <1>4, <1>8
<1> QED BY <1>1, <1>2, <1>5, <1>6, <1>7, <1>9

\* MapThenSumSet adds up what the torrents hold.
LEMMA HoldTotal ==
  ASSUME NEW b
  PROVE  MapThenSumSet(LAMBDA t : usage[t][b] + InFlight(t)[b], Torrent)
           = Total([t \in Torrent |-> HoldOf(t, b)])
<1> DEFINE f == [t \in Torrent |-> HoldOf(t, b)]
           E(h) == h = [s \in SUBSET Torrent |-> IF s = {} THEN 0
                          ELSE LET x == CHOOSE x \in s : TRUE
                               IN (usage[x][b] + InFlight(x)[b]) + h[s \ {x}]]
           k == CHOOSE h : E(h)
<1>1. MapThenSumSet(LAMBDA t : usage[t][b] + InFlight(t)[b], Torrent) = k[Torrent]
  BY Zenon DEF MapThenSumSet, MapThenFoldSet
<1>2. ASSUME NEW h PROVE E(h) <=> Adds(f, SUBSET Torrent, h)
  <2>1. \A s \in SUBSET Torrent : s # {} => f[Pick(s)] = usage[Pick(s)][b] + InFlight(Pick(s))[b]
    <3> SUFFICES ASSUME NEW s \in SUBSET Torrent, s # {}
                 PROVE  f[Pick(s)] = usage[Pick(s)][b] + InFlight(Pick(s))[b]
      OBVIOUS
    <3>1. Pick(s) \in Torrent
      BY PickFacts
    <3> HIDE DEF E, k
    <3> QED BY <3>1 DEF HoldOf
  <2> HIDE DEF f
  <2>2. [s \in SUBSET Torrent |-> IF s = {} THEN 0
                          ELSE LET x == CHOOSE x \in s : TRUE
                               IN (usage[x][b] + InFlight(x)[b]) + h[s \ {x}]]
        = [s \in SUBSET Torrent |-> IF s = {} THEN 0 ELSE f[Pick(s)] + h[s \ {Pick(s)}]]
    BY <2>1 DEF Pick
  <2> QED BY <2>2 DEF Adds
<1> HIDE DEF f
<1>3. (CHOOSE h : E(h)) = (CHOOSE h : Adds(f, SUBSET Torrent, h))
  <2> HIDE DEF E
  <2> QED BY <1>2
<1>4. k = (CHOOSE h : Adds(f, SUBSET Torrent, h))
  BY <1>3
<1> HIDE DEF k
<1> QED BY <1>1, <1>4 DEF Total, f

-----------------------------------------------------------------------------
(* Queues without repetitions. *)

\* A non-empty set of naturals has a minimum.
LEMMA LeastIndex ==
  ASSUME NEW S \in SUBSET Nat, S # {}
  PROVE  Min(S) \in S /\ \A y \in S : Min(S) <= y
<1>1. PICK x \in S : \A y \in S : ~ (<<y, x>> \in OpToRel(<, Nat))
  BY WFMin, NatLessThanWellFounded
<1>2. \A y \in S : x <= y
  <2> TAKE y \in S
  <2>1. ~ (y < x)
    BY <1>1 DEF OpToRel
  <2> QED BY <2>1
<1> QED BY <1>2 DEF Min

\* What is left of a sequence when one position is removed.
LEMMA RemoveAtFacts ==
  ASSUME NEW S, NEW s \in Seq(S), NEW i \in 1 .. Len(s)
  PROVE  /\ RemoveAt(s, i) \in Seq(S) /\ Len(RemoveAt(s, i)) = Len(s) - 1
         /\ \A k \in 1 .. (Len(s) - 1) : RemoveAt(s, i)[k] = IF k < i THEN s[k] ELSE s[k + 1]
<1> DEFINE a == SubSeq(s, 1, i - 1)
           b == SubSeq(s, i + 1, Len(s))
<1>1. a \in Seq(S) /\ Len(a) = i - 1 /\ \A k \in 1 .. (i - 1) : a[k] = s[k]
  OBVIOUS
<1>2. b \in Seq(S) /\ Len(b) = Len(s) - i /\ \A k \in 1 .. (Len(s) - i) : b[k] = s[k + i]
  OBVIOUS
<1>3. RemoveAt(s, i) = a \o b
  BY DEF RemoveAt
<1> HIDE DEF a, b
<1>4. /\ a \o b \in Seq(S) /\ Len(a \o b) = Len(s) - 1
      /\ \A k \in 1 .. (Len(s) - 1) : (a \o b)[k] = IF k < i THEN a[k] ELSE b[k - (i - 1)]
  <2>1. /\ a \o b \in Seq(S) /\ Len(a \o b) = Len(a) + Len(b)
        /\ \A k \in 1 .. (Len(a) + Len(b)) :
             (a \o b)[k] = IF k <= Len(a) THEN a[k] ELSE b[k - Len(a)]
    BY <1>1, <1>2, ConcatProperties
  <2>2. Len(s) \in Nat /\ Len(a) + Len(b) = Len(s) - 1
    BY <1>1, <1>2
  <2>3. \A k \in 1 .. (Len(s) - 1) : k <= Len(a) <=> k < i
    BY <1>1, <2>2
  <2> QED BY <1>1, <2>1, <2>2, <2>3
<1>5. \A k \in 1 .. (Len(s) - 1) : k >= i => b[k - (i - 1)] = s[k + 1]
  BY <1>2
<1> QED BY <1>1, <1>3, <1>4, <1>5

\* Removing an element of a sequence without repetitions leaves the others.
LEMMA RemoveFirstFacts ==
  ASSUME NEW S, NEW s \in Seq(S), NEW e \in ToSet(s), IsInjective(s)
  PROVE  /\ RemoveFirst(s, e) \in Seq(S) /\ IsInjective(RemoveFirst(s, e))
         /\ ToSet(RemoveFirst(s, e)) = ToSet(s) \ {e}
<1> DEFINE found == {i \in 1 .. Len(s) : s[i] = e}
           m == Min(found)
           t == RemoveAt(s, m)
<1>1. found \in SUBSET Nat /\ found # {}
  BY DEF ToSet
<1>2. m \in 1 .. Len(s) /\ s[m] = e
  <2> HIDE DEF found
  <2>1. m \in found
    BY <1>1, LeastIndex
  <2> QED BY <2>1 DEF found
<1>3. RemoveFirst(s, e) = t
  BY <1>1 DEF RemoveFirst, SelectInSeq
<1> HIDE DEF m
<1>4. /\ t \in Seq(S) /\ Len(t) = Len(s) - 1
      /\ \A k \in 1 .. (Len(s) - 1) : t[k] = IF k < m THEN s[k] ELSE s[k + 1]
  BY <1>2, RemoveAtFacts
<1> HIDE DEF t
<1>5. \A a, b \in 1 .. Len(s) : s[a] = s[b] => a = b
  BY DEF IsInjective
<1>6. IsInjective(t)
  <2> SUFFICES ASSUME NEW a \in 1 .. (Len(s) - 1), NEW b \in 1 .. (Len(s) - 1), t[a] = t[b]
               PROVE  a = b
    BY <1>4 DEF IsInjective
  <2> QED BY <1>2, <1>4, <1>5
<1>7. ToSet(t) = ToSet(s) \ {e}
  <2>1. ASSUME NEW x \in ToSet(t) PROVE x \in ToSet(s) \ {e}
    <3>1. PICK k \in 1 .. (Len(s) - 1) : x = t[k]
      BY <1>4 DEF ToSet
    <3>2. PICK n \in 1 .. Len(s) : x = s[n] /\ n # m
      <4>1. CASE k < m
        BY <1>2, <1>4, <3>1, <4>1
      <4>2. CASE k >= m
        <5>1. (k + 1) \in 1 .. Len(s) /\ k + 1 # m /\ x = s[k + 1]
          BY <1>2, <1>4, <3>1, <4>2
        <5> QED BY <5>1
      <4> QED BY <1>2, <4>1, <4>2
    <3>3. x # e
      BY <1>2, <1>5, <3>2
    <3> QED BY <3>2, <3>3 DEF ToSet
  <2>2. ASSUME NEW x \in ToSet(s) \ {e} PROVE x \in ToSet(t)
    <3>1. PICK k \in 1 .. Len(s) : x = s[k]
      BY DEF ToSet
    <3>2. k # m
      BY <1>2, <3>1
    <3>3. CASE k < m
      <4>1. k \in 1 .. (Len(s) - 1) /\ t[k] = x
        BY <1>2, <1>4, <3>1, <3>3
      <4> QED BY <1>4, <4>1 DEF ToSet
    <3>4. CASE k > m
      <4>1. (k - 1) \in 1 .. (Len(s) - 1) /\ t[k - 1] = x
        BY <1>2, <1>4, <3>1, <3>4
      <4> QED BY <1>4, <4>1 DEF ToSet
    <3> QED BY <1>2, <3>2, <3>3, <3>4
  <2> QED BY <2>1, <2>2
<1> QED BY <1>3, <1>4, <1>6, <1>7

\* Appending a new element to a sequence without repetitions.
LEMMA AppendFacts ==
  ASSUME NEW S, NEW s \in Seq(S), NEW e \in S \ ToSet(s), IsInjective(s)
  PROVE  /\ Append(s, e) \in Seq(S) /\ IsInjective(Append(s, e))
         /\ ToSet(Append(s, e)) = ToSet(s) \cup {e}
<1> DEFINE t == Append(s, e)
<1>1. /\ t \in Seq(S) /\ Len(t) = Len(s) + 1 /\ t[Len(s) + 1] = e
      /\ \A k \in 1 .. Len(s) : t[k] = s[k]
  OBVIOUS
<1> HIDE DEF t
<1>2. \A k \in 1 .. Len(s) : s[k] # e
  BY DEF ToSet
<1>3. IsInjective(t)
  <2> SUFFICES ASSUME NEW a \in 1 .. (Len(s) + 1), NEW b \in 1 .. (Len(s) + 1), t[a] = t[b]
               PROVE  a = b
    BY <1>1 DEF IsInjective
  <2>1. \A x, y \in 1 .. Len(s) : s[x] = s[y] => x = y
    BY DEF IsInjective
  <2> QED BY <1>1, <1>2, <2>1
<1>4. ToSet(t) = ToSet(s) \cup {e}
  <2>1. DOMAIN t = 1 .. (Len(s) + 1) /\ DOMAIN s = 1 .. Len(s)
    BY <1>1
  <2>2. \A k \in DOMAIN t : k \in DOMAIN s \/ k = Len(s) + 1
    BY <2>1
  <2>3. Len(s) + 1 \in DOMAIN t /\ DOMAIN s \subseteq DOMAIN t
    BY <2>1
  <2> QED BY <1>1, <2>1, <2>2, <2>3 DEF ToSet
<1> QED BY <1>1, <1>3, <1>4 DEF t

\* A queue without its front.
LEMMA TailFacts ==
  ASSUME NEW S, NEW s \in Seq(S), s # <<>>, IsInjective(s)
  PROVE  /\ Tail(s) \in Seq(S) /\ IsInjective(Tail(s)) /\ Head(s) \in S
         /\ ToSet(Tail(s)) = ToSet(s) \ {Head(s)} /\ Head(s) \in ToSet(s)
<1> DEFINE t == Tail(s)
<1>1. /\ t \in Seq(S) /\ Len(t) = Len(s) - 1 /\ Len(s) \in Nat \ {0}
      /\ \A k \in 1 .. (Len(s) - 1) : t[k] = s[k + 1]
      /\ Head(s) = s[1] /\ s[1] \in S
  OBVIOUS
<1> HIDE DEF t
<1>2. \A a, b \in 1 .. Len(s) : s[a] = s[b] => a = b
  BY DEF IsInjective
<1>3. IsInjective(t)
  <2> SUFFICES ASSUME NEW a \in 1 .. (Len(s) - 1), NEW b \in 1 .. (Len(s) - 1), t[a] = t[b]
               PROVE  a = b
    BY <1>1 DEF IsInjective
  <2>1. (a + 1) \in 1 .. Len(s) /\ (b + 1) \in 1 .. Len(s) /\ s[a + 1] = s[b + 1]
    BY <1>1
  <2> QED BY <1>2, <2>1
<1>4. ToSet(t) = ToSet(s) \ {s[1]}
  <2>1. ASSUME NEW x \in ToSet(t) PROVE x \in ToSet(s) \ {s[1]}
    <3>1. PICK k \in 1 .. (Len(s) - 1) : x = t[k]
      BY <1>1 DEF ToSet
    <3>2. (k + 1) \in 1 .. Len(s) /\ k + 1 # 1 /\ 1 \in 1 .. Len(s) /\ x = s[k + 1]
      BY <1>1, <3>1
    <3>3. x # s[1]
      BY <1>2, <3>2
    <3> QED BY <3>2, <3>3 DEF ToSet
  <2>2. ASSUME NEW x \in ToSet(s) \ {s[1]} PROVE x \in ToSet(t)
    <3>1. PICK k \in 1 .. Len(s) : x = s[k]
      BY DEF ToSet
    <3>2. (k - 1) \in 1 .. (Len(s) - 1) /\ t[k - 1] = x
      <4>1. k # 1
        BY <3>1
      <4>2. (k - 1) \in 1 .. (Len(s) - 1) /\ (k - 1) + 1 = k
        BY <1>1, <4>1
      <4> QED BY <1>1, <3>1, <4>2
    <3> QED BY <1>1, <3>2 DEF ToSet
  <2> QED BY <2>1, <2>2
<1>5. s[1] \in ToSet(s)
  BY <1>1 DEF ToSet
<1> QED BY <1>1, <1>3, <1>4, <1>5 DEF t

\* One turn of the wheel is taken off.
LEMMA Modulo ==
  ASSUME NEW n \in Nat \ {0}, NEW k \in Nat, k < 2 * n
  PROVE  k % n = IF k < n THEN k ELSE k - n
<1>1. CASE k < n
  BY <1>1
<1>2. CASE k >= n
  <2> DEFINE q == k \div n
             r == k % n
  <2>1. q \in Int /\ r \in 0 .. (n - 1) /\ k = n * q + r
    OBVIOUS
  <2> HIDE DEF q, r
  <2>2. q = 1
    <3>1. CASE q <= 0
      <4>1. n * q <= 0
        BY <2>1, <3>1
      <4> QED BY <1>2, <2>1, <4>1
    <3>2. CASE q >= 2
      <4>1. n * q >= 2 * n
        BY <2>1, <3>2
      <4> QED BY <2>1, <4>1
    <3> QED BY <2>1, <3>1, <3>2
  <2> QED BY <1>2, <2>1, <2>2 DEF r
<1> QED BY <1>1, <1>2

\* A rotated queue holds the same waiters.
LEMMA RotatedFacts ==
  ASSUME NEW S, NEW s \in Seq(S), s # <<>>, IsInjective(s), NEW n \in 0 .. Len(s)
  PROVE  /\ Rotated(s, n) \in Seq(S) /\ IsInjective(Rotated(s, n))
         /\ ToSet(Rotated(s, n)) = ToSet(s) /\ Len(Rotated(s, n)) = Len(s)
         /\ n < Len(s) => Head(Rotated(s, n)) = s[n + 1]
<1> DEFINE t == Rotated(s, n)
           L == Len(s)
           at(i) == ((i - 1 + n) % L) + 1
<1>1. L \in Nat \ {0} /\ DOMAIN s = 1 .. L
  OBVIOUS
<1> HIDE DEF L
<1>2. \A i \in 1 .. L : at(i) = (IF i + n <= L THEN i + n ELSE i + n - L) /\ at(i) \in 1 .. L
  <2> SUFFICES ASSUME NEW i \in 1 .. L
               PROVE  at(i) = (IF i + n <= L THEN i + n ELSE i + n - L) /\ at(i) \in 1 .. L
    OBVIOUS
  <2>0. n \in 0 .. L
    BY DEF L
  <2>1. (i - 1 + n) \in Nat /\ i - 1 + n < 2 * L
    BY <1>1, <2>0
  <2>2. (i - 1 + n) % L = IF i - 1 + n < L THEN i - 1 + n ELSE (i - 1 + n) - L
    <3> DEFINE k == i - 1 + n
    <3>1. k \in Nat /\ k < 2 * L
      BY <2>1
    <3> HIDE DEF k
    <3>2. k % L = IF k < L THEN k ELSE k - L
      BY <1>1, <3>1, Modulo
    <3> QED BY <3>2 DEF k
  <2> QED BY <1>1, <2>0, <2>1, <2>2
<1>3. t = [i \in 1 .. L |-> s[at(i)]]
  BY <1>1 DEF Rotated, L
<1> HIDE DEF at, t
<1>4. t \in Seq(S) /\ Len(t) = L /\ \A i \in 1 .. L : t[i] = s[at(i)]
  <2>1. \A i \in 1 .. L : s[at(i)] \in S
    BY <1>1, <1>2
  <2> QED BY <1>1, <1>3, <2>1
<1>5. \A a, b \in 1 .. L : s[a] = s[b] => a = b
  BY <1>1 DEF IsInjective
<1>6. IsInjective(t)
  <2> SUFFICES ASSUME NEW a \in 1 .. L, NEW b \in 1 .. L, t[a] = t[b] PROVE a = b
    BY <1>4 DEF IsInjective
  <2>1. at(a) \in 1 .. L /\ at(b) \in 1 .. L
    BY <1>2
  <2>2. s[at(a)] = s[at(b)]
    BY <1>4
  <2>3. at(a) = at(b)
    BY <1>5, <2>1, <2>2
  <2>4. n \in 0 .. L
    BY DEF L
  <2>5. /\ at(a) = IF a + n <= L THEN a + n ELSE a + n - L
        /\ at(b) = IF b + n <= L THEN b + n ELSE b + n - L
    BY <1>2
  <2>6. L \in Nat /\ n \in Nat /\ a \in Int /\ b \in Int /\ 1 <= a /\ a <= L /\ 1 <= b /\ b <= L
    BY <1>1, <2>4
  <2>7. (IF a + n <= L THEN a + n ELSE a + n - L) = (IF b + n <= L THEN b + n ELSE b + n - L)
    BY <2>3, <2>5, Zenon
  <2> QED BY <2>6, <2>7
<1>7. ToSet(t) = ToSet(s)
  <2>1. ASSUME NEW x \in ToSet(t) PROVE x \in ToSet(s)
    <3>1. PICK i \in 1 .. L : x = t[i]
      BY <1>4 DEF ToSet
    <3> QED BY <1>1, <1>2, <1>4, <3>1 DEF ToSet
  <2>2. ASSUME NEW x \in ToSet(s) PROVE x \in ToSet(t)
    <3>1. PICK k \in 1 .. L : x = s[k]
      BY <1>1 DEF ToSet
    <3> DEFINE i == IF k > n THEN k - n ELSE k - n + L
    <3>2. i \in 1 .. L /\ at(i) = k
      <4>1. n \in 0 .. L
        BY DEF L
      <4>2. i \in 1 .. L
        BY <1>1, <4>1
      <4>3. at(i) = IF i + n <= L THEN i + n ELSE i + n - L
        BY <1>2, <4>2
      <4> QED BY <1>1, <4>1, <4>2, <4>3
    <3> HIDE DEF i
    <3> QED BY <1>4, <3>1, <3>2 DEF ToSet
  <2> QED BY <2>1, <2>2
<1>8. n < L => Head(t) = s[n + 1]
  <2> SUFFICES ASSUME n < L PROVE Head(t) = s[n + 1]
    OBVIOUS
  <2>1. Head(t) = t[1] /\ 1 \in 1 .. L /\ n \in Nat
    BY <1>1, <1>4 DEF L
  <2>2. at(1) = n + 1
    BY <1>1, <1>2, <2>1
  <2> QED BY <1>4, <2>1, <2>2
<1> QED BY <1>4, <1>6, <1>7, <1>8 DEF t, L

-----------------------------------------------------------------------------
(* FairTryAdmission. *)

\* The smaller and the greater of two numbers.
LEMMA MinTwo ==
  ASSUME NEW a \in Nat, NEW b \in Nat
  PROVE  Min({a, b}) = IF a <= b THEN a ELSE b
BY DEF Min

\* The larger of two numbers.
LEMMA MaxTwo ==
  ASSUME NEW a \in Nat, NEW b \in Nat
  PROVE  Max({a, b}) = IF a >= b THEN a ELSE b
BY DEF Max

\* BYTE_ADMISSION_QUANTUM is above zero.
LEMMA QuantumType == Quantum \in Nat \ {0}
BY BudgetAssumption

\* The parts of an admission queue, and a queue from its parts.
LEMMA WaitersParts ==
  ASSUME NEW size, NEW s, Waiters(s, size)
  PROVE  /\ s = [queue |-> s.queue, costs |-> s.costs, deficits |-> s.deficits]
         /\ s.queue \in Seq(Torrent) /\ s.costs \in [Torrent -> Nat]
         /\ s.deficits \in [Torrent -> Nat] /\ IsInjective(s.queue)
         /\ \A t \in Torrent : /\ t \in ToSet(s.queue) <=> s.costs[t] # 0
                               /\ s.costs[t] \in {0, size[t]}
                               /\ s.deficits[t] <= size[t] + Quantum
BY DEF Waiters

\* What a FairTryState must satisfy, for one put together from its fields.
LEMMA WaitersBuilt ==
  ASSUME NEW size, NEW q \in Seq(Torrent), IsInjective(q),
         NEW c \in [Torrent -> Nat], NEW d \in [Torrent -> Nat],
         \A t \in Torrent : /\ t \in ToSet(q) <=> c[t] # 0
                            /\ c[t] \in {0, size[t]} /\ d[t] <= size[t] + Quantum
  PROVE  Waiters([queue |-> q, costs |-> c, deficits |-> d], size)
BY DEF Waiters

\* The elements of a queue are torrents.
LEMMA QueuedType ==
  ASSUME NEW q \in Seq(Torrent)
  PROVE  /\ \A i \in 1 .. Len(q) : q[i] \in Torrent /\ q[i] \in ToSet(q)
         /\ DOMAIN q = 1 .. Len(q) /\ Len(q) \in Nat /\ ToSet(q) \subseteq Torrent
         /\ q # <<>> => Len(q) # 0 /\ Head(q) = q[1] /\ 1 \in 1 .. Len(q)
BY DEF ToSet

\* A credit is at most a quantum above the cost, and enough when no cost exceeds a quantum.
LEMMA CreditedFacts ==
  ASSUME NEW size \in [Torrent -> Nat \ {0}], NEW s, Waiters(s, size), NEW t \in Torrent
  PROVE  /\ Credited(s, t) \in Nat /\ Credited(s, t) <= size[t] + Quantum
         /\ size[t] <= Quantum => Credited(s, t) >= s.costs[t]
<1>1. s.deficits[t] \in Nat /\ s.costs[t] \in Nat /\ s.costs[t] \in {0, size[t]} /\ size[t] \in Nat
  BY WaitersParts
<1>2. Quantum \in Nat
  BY QuantumType
<1> DEFINE a == s.deficits[t] + Quantum
           b == s.costs[t] + Quantum
<1>3. a \in Nat /\ b \in Nat
  BY <1>1, <1>2
<1>4. Credited(s, t) = Min({a, b})
  BY DEF Credited
<1> HIDE DEF a, b
<1>5. Credited(s, t) = IF a <= b THEN a ELSE b
  BY <1>3, <1>4, MinTwo
<1> QED BY <1>1, <1>2, <1>5 DEF a, b

\* Advancing the queue keeps the waiters and their costs; when at most one cost exceeds a
\* quantum the front waiter can pay.
LEMMA AdvanceFacts ==
  ASSUME NEW size \in [Torrent -> Nat \ {0}], NEW s, Waiters(s, size), s.queue # <<>>
  PROVE  /\ Waiters(Advance(s), size) /\ Advance(s).costs = s.costs
         /\ ToSet(Advance(s).queue) = ToSet(s.queue) /\ Advance(s).queue # <<>>
         /\ OneLarge(size) =>
              Advance(s).deficits[Head(Advance(s).queue)] >= s.costs[Head(Advance(s).queue)]
<1> DEFINE q == s.queue
           c == s.costs
           d == s.deficits
           able == {i \in DOMAIN q : Credited(s, q[i]) >= s.costs[q[i]]}
           last == IF able = {} THEN Len(q) ELSE Min(able)
<1>0. s = [queue |-> q, costs |-> c, deficits |-> d]
  BY WaitersParts
<1>1. /\ q \in Seq(Torrent) /\ c \in [Torrent -> Nat] /\ d \in [Torrent -> Nat] /\ IsInjective(q)
      /\ \A t \in Torrent : /\ t \in ToSet(q) <=> c[t] # 0
                            /\ c[t] \in {0, size[t]} /\ d[t] <= size[t] + Quantum
  BY WaitersParts
<1>2. /\ \A i \in 1 .. Len(q) : q[i] \in Torrent /\ q[i] \in ToSet(q)
      /\ DOMAIN q = 1 .. Len(q) /\ Len(q) \in Nat \ {0} /\ Head(q) = q[1] /\ 1 \in 1 .. Len(q)
  BY <1>1, QueuedType
<1>3. Quantum \in Nat
  BY QuantumType
<1>4. CASE Len(q) = 1
  <2> DEFINE m == Max({d[q[1]], c[q[1]]})
             e == [d EXCEPT ![q[1]] = m]
  <2>1. d[q[1]] \in Nat /\ c[q[1]] \in Nat /\ q[1] \in Torrent
    BY <1>1, <1>2
  <2>2. m \in Nat /\ m <= size[q[1]] + Quantum /\ m >= c[q[1]]
    <3>1. m = IF d[q[1]] >= c[q[1]] THEN d[q[1]] ELSE c[q[1]]
      BY <2>1, MaxTwo
    <3>2. c[q[1]] \in {0, size[q[1]]} /\ d[q[1]] <= size[q[1]] + Quantum /\ size[q[1]] \in Nat
      BY <1>1, <2>1
    <3> HIDE DEF m, q, d, c
    <3> QED BY <1>3, <2>1, <3>1, <3>2
  <2>3. Advance(s) = [queue |-> q, costs |-> c, deficits |-> e]
    BY <1>0, <1>4 DEF Advance
  <2> HIDE DEF m
  <2>4. /\ e \in [Torrent -> Nat] /\ \A t \in Torrent : e[t] <= size[t] + Quantum
        /\ e[q[1]] >= c[q[1]]
    <3> HIDE DEF q, d, c
    <3> QED BY <1>1, <2>1, <2>2
  <2> HIDE DEF e, q, d, c
  <2>5. Waiters([queue |-> q, costs |-> c, deficits |-> e], size)
    BY <1>1, <2>4, WaitersBuilt
  <2> QED BY <1>2, <2>3, <2>4, <2>5 DEF q, c
<1>5. CASE Len(q) # 1 /\ d[q[1]] >= c[q[1]]
  <2>1. Advance(s) = s
    BY <1>5 DEF Advance
  <2> QED BY <1>2, <1>5, <2>1
<1>6. CASE Len(q) # 1 /\ ~ (d[q[1]] >= c[q[1]])
  <2> DEFINE n == IF able = {} THEN 0 ELSE last - 1
             e == [t \in Torrent |-> IF \E i \in 1..last : q[i] = t THEN Credited(s, t) ELSE d[t]]
             r == Rotated(q, n)
  <2>1. Advance(s) = [queue |-> r, costs |-> c, deficits |-> e]
    BY <1>0, <1>6 DEF Advance
  <2>2. \A t \in Torrent : /\ Credited(s, t) \in Nat /\ Credited(s, t) <= size[t] + Quantum
                           /\ size[t] <= Quantum => Credited(s, t) >= c[t]
    BY CreditedFacts
  <2>3. able \subseteq Nat /\ able \subseteq 1 .. Len(q)
    BY <1>2
  <2>4. able # {} => Min(able) \in able /\ \A y \in able : Min(able) <= y
    <3> HIDE DEF able
    <3> QED BY <2>3, LeastIndex
  <2>5. n \in 0 .. Len(q) /\ last \in 1 .. Len(q)
    <3>1. CASE able = {}
      BY <1>2, <3>1
    <3>2. CASE able # {}
      <4>1. Min(able) \in 1 .. Len(q) /\ last = Min(able) /\ n = Min(able) - 1
        BY <2>3, <2>4, <3>2, Zenon
      <4> HIDE DEF able, last, n, q
      <4> QED BY <1>2, <4>1
    <3> HIDE DEF able
    <3> QED BY <3>1, <3>2
  <2>6. /\ r \in Seq(Torrent) /\ IsInjective(r) /\ ToSet(r) = ToSet(q) /\ Len(r) = Len(q)
        /\ n < Len(q) => Head(r) = q[n + 1]
    <3> HIDE DEF n, q
    <3> QED BY SMTT(30), <1>1, <1>2, <2>5, RotatedFacts
  <2>7. e \in [Torrent -> Nat] /\ \A t \in Torrent : e[t] <= size[t] + Quantum
    <3> HIDE DEF last, q, d, c
    <3> QED BY <1>1, <2>2
  <2>8. ASSUME OneLarge(size) PROVE Head(r) = q[n + 1] /\ e[q[n + 1]] >= c[q[n + 1]]
    <3>1. able # {}
      <4>1. 1 \in 1 .. Len(q) /\ 2 \in 1 .. Len(q)
        <5> DEFINE l == Len(q)
        <5>1. l \in Nat \ {0} /\ l # 1
          BY <1>2, <1>6
        <5> HIDE DEF l
        <5>2. 1 \in 1 .. l /\ 2 \in 1 .. l
          BY <5>1
        <5> QED BY <5>2 DEF l
      <4>2. q[1] # q[2]
        <5>1. IsInjective(q) /\ DOMAIN q = 1 .. Len(q)
          BY <1>1, <1>2
        <5> HIDE DEF q
        <5>2. \A a, b \in DOMAIN q : q[a] = q[b] => a = b
          BY <5>1, Zenon DEF IsInjective
        <5>3. 1 \in DOMAIN q /\ 2 \in DOMAIN q
          BY <4>1, <5>1
        <5>4. q[1] = q[2] => 1 = 2
          BY <5>2, <5>3, Zenon
        <5> QED BY <5>4
      <4>3. q[1] \in Torrent /\ q[2] \in Torrent
        BY <1>2, <4>1
      <4>4. PICK i \in {1, 2} : ~ (size[q[i]] > Quantum)
        BY <2>8, <4>2, <4>3 DEF OneLarge
      <4>5. i \in DOMAIN q /\ q[i] \in Torrent
        BY <1>2, <4>1, <4>3
      <4>6. size[q[i]] <= Quantum
        <5>1. size[q[i]] \in Nat
          BY <4>5
        <5> QED BY <1>3, <4>4, <5>1
      <4>7. Credited(s, q[i]) >= s.costs[q[i]]
        BY <2>2, <4>5, <4>6
      <4> QED BY <4>5, <4>7
    <3>2. last \in able /\ last = n + 1
      <4>1. last = Min(able) /\ n = last - 1 /\ last \in able
        <5> HIDE DEF able
        <5> QED BY <2>4, <3>1
      <4>2. last \in Nat
        BY <2>5, <1>2
      <4> HIDE DEF able, last, n
      <4> QED BY <4>1, <4>2
    <3>3. Credited(s, q[last]) >= c[q[last]] /\ q[last] \in Torrent
      <4> HIDE DEF last
      <4> QED BY <1>2, <2>5, <3>2
    <3> HIDE DEF able, last, n
    <3>4. Head(r) = q[n + 1]
      <4> DEFINE l == Len(q)
      <4>1. n + 1 \in 1 .. l /\ n \in 0 .. l /\ l \in Nat
        BY <1>2, <2>5, <3>2
      <4> HIDE DEF l
      <4>2. n < l
        BY <4>1
      <4> QED BY <2>6, <4>2 DEF l
    <3>5. e[q[last]] = Credited(s, q[last])
      <4>1. last \in 1 .. last
        BY <1>2, <2>5
      <4> HIDE DEF q, d
      <4> QED BY <3>3, <4>1
    <3> HIDE DEF e
    <3> QED BY <3>2, <3>3, <3>4, <3>5
  <2> HIDE DEF able, last, n, e, r
  <2>9. Waiters([queue |-> r, costs |-> c, deficits |-> e], size)
    <3> HIDE DEF q, c, d
    <3> QED BY <1>1, <2>6, <2>7, WaitersBuilt
  <2>10. r # <<>>
    BY <1>2, <2>6
  <2> QED BY <1>2, <2>1, <2>6, <2>8, <2>9, <2>10
<1> QED BY <1>4, <1>5, <1>6

\* A queue whose waiter t has no cost any more.
LEMMA WithoutCost ==
  ASSUME NEW size, NEW s, Waiters(s, size), NEW q, NEW t \in Torrent
  PROVE  [s EXCEPT !.queue = q, !.costs[t] = 0]
           = [queue |-> q, costs |-> [s.costs EXCEPT ![t] = 0], deficits |-> s.deficits]
<1> DEFINE R == [queue : {q}, costs : [Torrent -> Nat], deficits : [Torrent -> Nat]]
           r == [s EXCEPT !.queue = q, !.costs[t] = 0]
<1>1. s \in [queue : Seq(Torrent), costs : [Torrent -> Nat], deficits : [Torrent -> Nat]]
  BY DEF Waiters
<1>2. r \in R
  BY <1>1
<1>3. r.queue = q /\ r.costs = [s.costs EXCEPT ![t] = 0] /\ r.deficits = s.deficits
  BY <1>1
<1> HIDE DEF r
<1>4. r = [queue |-> q, costs |-> [s.costs EXCEPT ![t] = 0], deficits |-> s.deficits]
  BY <1>2, <1>3
<1> QED BY <1>4 DEF r

\* Whoever asks is in the queue.
LEMMA AskedFacts ==
  ASSUME NEW size \in [Torrent -> Nat \ {0}], NEW s, Waiters(s, size), NEW t \in Torrent
  PROVE  LET now == Asked(s, t, size[t])
         IN /\ Waiters(now, size) /\ now.costs[t] = size[t]
            /\ ToSet(now.queue) = ToSet(s.queue) \cup {t} /\ now.queue # <<>>
            /\ OneLarge(size) =>
                 now.deficits[Head(now.queue)] >= now.costs[Head(now.queue)]
<1> DEFINE q == IF s.costs[t] # 0 THEN s.queue ELSE Append(s.queue, t)
           c == [s.costs EXCEPT ![t] = size[t]]
           mid == [queue |-> q, costs |-> c, deficits |-> s.deficits]
<1>1. Asked(s, t, size[t]) = Advance(mid)
  <2>1. Asked(s, t, size[t]) = Advance([s EXCEPT !.queue = q, !.costs[t] = size[t]])
    BY Zenon DEF Asked
  <2>2. size[t] \in Nat
    OBVIOUS
  <2>3. [s EXCEPT !.queue = q, !.costs[t] = size[t]] = mid
    <3> HIDE DEF q
    <3>1. [s EXCEPT !.queue = q, !.costs[t] = size[t]]
            = [queue |-> q, costs |-> [s.costs EXCEPT ![t] = size[t]], deficits |-> s.deficits]
      <4> DEFINE r == [s EXCEPT !.queue = q, !.costs[t] = size[t]]
      <4>1. s \in [queue : Seq(Torrent), costs : [Torrent -> Nat], deficits : [Torrent -> Nat]]
        BY DEF Waiters
      <4>2. r \in [queue : {q}, costs : [Torrent -> Nat], deficits : [Torrent -> Nat]]
        BY <2>2, <4>1
      <4>3. r.queue = q /\ r.costs = [s.costs EXCEPT ![t] = size[t]] /\ r.deficits = s.deficits
        BY <4>1
      <4> HIDE DEF r
      <4>4. r = [queue |-> q, costs |-> [s.costs EXCEPT ![t] = size[t]], deficits |-> s.deficits]
        BY <4>2, <4>3
      <4> QED BY <4>4 DEF r
    <3> QED BY <3>1
  <2> QED BY <2>1, <2>3, Zenon
<1>2. /\ s.queue \in Seq(Torrent) /\ s.costs \in [Torrent -> Nat]
      /\ s.deficits \in [Torrent -> Nat] /\ IsInjective(s.queue)
      /\ \A u \in Torrent : /\ u \in ToSet(s.queue) <=> s.costs[u] # 0
                            /\ s.costs[u] \in {0, size[u]}
                            /\ s.deficits[u] <= size[u] + Quantum
  BY WaitersParts
<1>3. q \in Seq(Torrent) /\ IsInjective(q) /\ ToSet(q) = ToSet(s.queue) \cup {t}
  <2>1. CASE s.costs[t] # 0
    BY <1>2, <2>1
  <2>2. CASE s.costs[t] = 0
    <3>1. t \in Torrent \ ToSet(s.queue)
      BY <1>2, <2>2
    <3> QED BY <1>2, <2>2, <3>1, AppendFacts
  <2> QED BY <2>1, <2>2
<1>4. c \in [Torrent -> Nat] /\ c[t] = size[t] /\ size[t] # 0
      /\ \A u \in Torrent : c[u] \in {0, size[u]} /\ (u \in ToSet(q) <=> c[u] # 0)
  <2> HIDE DEF q
  <2> QED BY <1>2, <1>3
<1>5. q # <<>>
  <2>1. t \in ToSet(q)
    BY <1>3
  <2>2. ToSet(<<>>) = {}
    BY DEF ToSet
  <2> HIDE DEF q
  <2> QED BY <2>1, <2>2
<1> HIDE DEF q, c
<1>6. Waiters(mid, size) /\ mid.queue = q /\ mid.costs = c
  <2>1. Waiters(mid, size)
    BY <1>2, <1>3, <1>4, WaitersBuilt
  <2> QED BY <2>1
<1> HIDE DEF mid
<1>7. /\ Waiters(Advance(mid), size) /\ Advance(mid).costs = mid.costs
      /\ ToSet(Advance(mid).queue) = ToSet(mid.queue) /\ Advance(mid).queue # <<>>
      /\ OneLarge(size) =>
           Advance(mid).deficits[Head(Advance(mid).queue)] >= mid.costs[Head(Advance(mid).queue)]
  BY <1>5, <1>6, AdvanceFacts
<1> QED BY <1>1, <1>3, <1>4, <1>6, <1>7

\* An admission leaves a queue of the waiters and, when refused, the one that asked; a grant
\* and a panic need room in the session, and a panic two costs above a quantum.
LEMMA AdmitFacts ==
  ASSUME NEW size \in [Torrent -> Nat \ {0}], NEW s, Waiters(s, size), NEW t \in Torrent,
         NEW fits \in BOOLEAN
  PROVE  LET ask == Admit(s, t, size[t], fits)
         IN /\ Waiters(ask.state, size) /\ ToSet(ask.state.queue) \subseteq ToSet(s.queue) \cup {t}
            /\ ask.outcome \in {"refused", "granted", "panic"}
            /\ ask.outcome # "refused" => fits
            /\ OneLarge(size) => ask.outcome # "panic"
<1> DEFINE now == Asked(s, t, size[t])
           ask == Admit(s, t, size[t], fits)
           q == now.queue
           c == now.costs
           d == now.deficits
<1>1. /\ Waiters(now, size) /\ now.costs[t] = size[t]
      /\ ToSet(now.queue) = ToSet(s.queue) \cup {t} /\ now.queue # <<>>
      /\ OneLarge(size) =>
           now.deficits[Head(now.queue)] >= now.costs[Head(now.queue)]
  BY AskedFacts
<1>2. ask = IF Head(now.queue) # t THEN [outcome |-> "refused", state |-> now]
            ELSE IF ~fits THEN [outcome |-> "refused", state |-> [now EXCEPT !.queue = Rotated(@, 1)]]
            ELSE IF now.deficits[t] >= size[t] THEN [outcome |-> "granted", state |-> Granted(now)]
            ELSE [outcome |-> "panic", state |-> [now EXCEPT !.queue = Tail(@), !.costs[t] = 0]]
  BY DEF Admit
<1> HIDE DEF now, ask
<1>3. now = [queue |-> q, costs |-> c, deficits |-> d]
  BY <1>1, WaitersParts
<1>4. /\ q \in Seq(Torrent) /\ c \in [Torrent -> Nat] /\ d \in [Torrent -> Nat] /\ IsInjective(q)
      /\ \A u \in Torrent : /\ u \in ToSet(q) <=> c[u] # 0
                            /\ c[u] \in {0, size[u]} /\ d[u] <= size[u] + Quantum
  BY <1>1, WaitersParts
<1>5. c[t] = size[t] /\ ToSet(q) = ToSet(s.queue) \cup {t} /\ q # <<>>
      /\ (OneLarge(size) => d[Head(q)] >= c[Head(q)])
  BY <1>1
<1>6. /\ Tail(q) \in Seq(Torrent) /\ IsInjective(Tail(q)) /\ ToSet(Tail(q)) = ToSet(q) \ {Head(q)}
  BY <1>4, <1>5, TailFacts
<1>7. CASE Head(q) # t
  BY <1>1, <1>2, <1>7 DEF ask
<1>8. CASE Head(q) = t /\ ~fits
  <2>1. ask = [outcome |-> "refused", state |-> [queue |-> Rotated(q, 1), costs |-> c, deficits |-> d]]
    BY <1>2, <1>3, <1>8
  <2> HIDE DEF q, c, d
  <2>2. 1 \in 0 .. Len(q)
    BY <1>4, <1>5, QueuedType
  <2>3. Rotated(q, 1) \in Seq(Torrent) /\ IsInjective(Rotated(q, 1)) /\ ToSet(Rotated(q, 1)) = ToSet(q)
    BY <1>4, <1>5, <2>2, RotatedFacts
  <2>4. Waiters([queue |-> Rotated(q, 1), costs |-> c, deficits |-> d], size)
    BY <1>4, <2>3, WaitersBuilt
  <2> QED BY <1>5, <2>1, <2>3, <2>4 DEF ask
<1>9. CASE Head(q) = t /\ fits
  <2> DEFINE e == [c EXCEPT ![t] = 0]
  <2>1. e \in [Torrent -> Nat]
        /\ \A u \in Torrent : (u \in ToSet(Tail(q)) <=> e[u] # 0) /\ e[u] \in {0, size[u]}
    <3> HIDE DEF q, c, d
    <3> QED BY <1>4, <1>6, <1>9
  <2>2. CASE d[t] >= size[t]
    <3> DEFINE f == [d EXCEPT ![t] = @ - c[t]]
    <3>1. ask = [outcome |-> "granted", state |-> [queue |-> Tail(q), costs |-> e, deficits |-> f]]
      <4>1. Granted(now) = [now EXCEPT !.queue = Tail(q), !.costs[t] = 0, !.deficits[t] = d[t] - c[t]]
        BY <1>9 DEF Granted
      <4>2. d[t] - c[t] \in Nat
        BY <1>4, <1>5, <2>2
      <4>3. Granted(now) = [queue |-> Tail(q), costs |-> e, deficits |-> f]
        <5> DEFINE w == d[t] - c[t]
        <5>1. w \in Nat
          BY <4>2
        <5>2. Granted(now) = [now EXCEPT !.queue = Tail(q), !.costs[t] = 0, !.deficits[t] = w]
              /\ f = [d EXCEPT ![t] = w]
          BY <4>1
        <5> HIDE DEF w, f
        <5>3. [now EXCEPT !.queue = Tail(q), !.costs[t] = 0, !.deficits[t] = w]
                = [queue |-> Tail(q), costs |-> e, deficits |-> [d EXCEPT ![t] = w]]
          <6> DEFINE r == [now EXCEPT !.queue = Tail(q), !.costs[t] = 0, !.deficits[t] = w]
          <6>1. now \in [queue : Seq(Torrent), costs : [Torrent -> Nat], deficits : [Torrent -> Nat]]
            BY <1>1 DEF Waiters
          <6>2. r \in [queue : {Tail(q)}, costs : [Torrent -> Nat], deficits : [Torrent -> Nat]]
            BY <5>1, <6>1
          <6>3. r.queue = Tail(q) /\ r.costs = e /\ r.deficits = [d EXCEPT ![t] = w]
            BY <6>1
          <6> HIDE DEF r
          <6>4. r = [queue |-> Tail(q), costs |-> e, deficits |-> [d EXCEPT ![t] = w]]
            BY <6>2, <6>3
          <6> QED BY <6>4 DEF r
        <5> QED BY <5>2, <5>3
      <4> QED BY <1>2, <1>9, <2>2, <4>3
    <3> HIDE DEF q, c, d
    <3>2. f \in [Torrent -> Nat] /\ \A u \in Torrent : f[u] <= size[u] + Quantum
      <4>1. d[t] - c[t] \in Nat /\ d[t] - c[t] <= size[t] + Quantum
        BY <1>4, <1>5, <2>2, QuantumType
      <4> QED BY <1>4, <4>1
    <3> HIDE DEF e, f
    <3>3. Waiters([queue |-> Tail(q), costs |-> e, deficits |-> f], size)
      BY <1>6, <2>1, <3>2, WaitersBuilt
    <3>4. ask.outcome = "granted" /\ ask.state = [queue |-> Tail(q), costs |-> e, deficits |-> f]
          /\ ask.state.queue = Tail(q)
      BY <3>1
    <3>5. Waiters(ask.state, size) /\ ToSet(ask.state.queue) \subseteq ToSet(s.queue) \cup {t}
      BY <1>5, <1>6, <3>3, <3>4
    <3> QED BY <1>9, <3>4, <3>5 DEF ask
  <2>3. CASE ~ (d[t] >= size[t])
    <3>1. ask = [outcome |-> "panic", state |-> [queue |-> Tail(q), costs |-> e, deficits |-> d]]
      <4>1. [now EXCEPT !.queue = Tail(@), !.costs[t] = 0] = [now EXCEPT !.queue = Tail(q), !.costs[t] = 0]
        OBVIOUS
      <4>2. [now EXCEPT !.queue = Tail(q), !.costs[t] = 0] = [queue |-> Tail(q), costs |-> e, deficits |-> d]
        BY <1>1, WithoutCost
      <4> QED BY <1>2, <1>9, <2>3, <4>1, <4>2
    <3> HIDE DEF q, c, d, e
    <3>2. Waiters([queue |-> Tail(q), costs |-> e, deficits |-> d], size)
      BY <1>4, <1>6, <2>1, WaitersBuilt
    <3>3. ask.outcome = "panic" /\ ask.state = [queue |-> Tail(q), costs |-> e, deficits |-> d]
          /\ ask.state.queue = Tail(q)
      BY <3>1
    <3>4. Waiters(ask.state, size) /\ ToSet(ask.state.queue) \subseteq ToSet(s.queue) \cup {t}
      BY <1>5, <1>6, <3>2, <3>3
    <3>5. ~ OneLarge(size)
      BY <1>5, <1>9, <2>3
    <3> QED BY <1>9, <3>3, <3>4, <3>5 DEF ask
  <2> QED BY <2>2, <2>3
<1> QED BY <1>7, <1>8, <1>9

\* A removed registration leaves the queue; the others stay.
LEMMA ForgetFacts ==
  ASSUME NEW size \in [Torrent -> Nat \ {0}], NEW s, Waiters(s, size), NEW t \in Torrent
  PROVE  Waiters(Forget(s, t), size) /\ ToSet(Forget(s, t).queue) = ToSet(s.queue) \ {t}
<1> DEFINE q == RemoveFirst(s.queue, t)
           c == [s.costs EXCEPT ![t] = 0]
           d == [s.deficits EXCEPT ![t] = 0]
<1>1. Forget(s, t) = [queue |-> q, costs |-> c, deficits |-> d]
  BY DEF Forget
<1>2. /\ s.queue \in Seq(Torrent) /\ s.costs \in [Torrent -> Nat]
      /\ s.deficits \in [Torrent -> Nat] /\ IsInjective(s.queue)
      /\ \A u \in Torrent : /\ u \in ToSet(s.queue) <=> s.costs[u] # 0
                            /\ s.costs[u] \in {0, size[u]}
                            /\ s.deficits[u] <= size[u] + Quantum
  BY WaitersParts
<1>3. q \in Seq(Torrent) /\ IsInjective(q) /\ ToSet(q) = ToSet(s.queue) \ {t}
  <2>1. CASE t \in ToSet(s.queue)
    BY <1>2, <2>1, RemoveFirstFacts
  <2>2. CASE t \notin ToSet(s.queue)
    <3>1. ~ \E i \in 1 .. Len(s.queue) : s.queue[i] = t
      BY <1>2, <2>2, QueuedType
    <3>2. q = s.queue
      BY <3>1, Zenon DEF RemoveFirst
    <3> QED BY <1>2, <2>2, <3>2
  <2> QED BY <2>1, <2>2
<1>4. /\ c \in [Torrent -> Nat] /\ d \in [Torrent -> Nat]
      /\ \A u \in Torrent : (u \in ToSet(q) <=> c[u] # 0) /\ c[u] \in {0, size[u]}
      /\ \A u \in Torrent : d[u] <= size[u] + Quantum
  <2> HIDE DEF q
  <2> QED BY <1>2, <1>3, QuantumType
<1> HIDE DEF q, c, d
<1>5. Waiters([queue |-> q, costs |-> c, deficits |-> d], size)
  BY <1>3, <1>4, WaitersBuilt
<1> QED BY <1>1, <1>3, <1>5

-----------------------------------------------------------------------------
(* The budgets: how a step of one torrent changes a session counter. *)

\* every budget is the sum that MapThenSumSet computes
Summed(b) == MapThenSumSet(LAMBDA t : usage[t][b] + InFlight(t)[b], Torrent)
Holdings(b) == [t \in Torrent |-> HoldOf(t, b)]
Sums == \A b \in Budget : Summed(b) = Total(Holdings(b))

\* The sums of the session counters.
LEMMA SumsNow == Sums
<1> SUFFICES ASSUME NEW b \in Budget PROVE Summed(b) = Total(Holdings(b))
  BY DEF Sums
<1>1. MapThenSumSet(LAMBDA t : usage[t][b] + InFlight(t)[b], Torrent)
        = Total([t \in Torrent |-> HoldOf(t, b)])
  BY HoldTotal
<1> QED BY <1>1, Zenon DEF Summed, Holdings

\* The same of the next state.
LEMMA SumsNext == Sums'
BY SumsNow, PTL

\* A session counter is what the torrents hold, and no more than its limit.
Conserved == \A b \in Budget : session[b] = Total(Holdings(b)) /\ session[b] <= Limit[b]

\* BudgetsConserved, budget by budget.
LEMMA ConservedNow == BudgetsConserved <=> Conserved
<1>1. Sums
  BY SumsNow
<1>2. BudgetsConserved <=> \A b \in Budget : session[b] = Summed(b) /\ session[b] <= Limit[b]
  BY Zenon DEF BudgetsConserved, Summed
<1> QED BY <1>1, <1>2, Zenon DEF Sums, Conserved

\* The same of the next state.
LEMMA ConservedNext == BudgetsConserved' <=> Conserved'
BY ConservedNow, PTL

\* What a torrent holds, budget by budget.
HoldParts ==
  \A t \in Torrent :
    /\ HoldOf(t, "request") = usage[t]["request"] +
         IF step[t] \in {"requestTaken", "requestTakenFirst", "requestReturned", "requestPanic"}
         THEN BlockBytes[t] ELSE 0
    /\ HoldOf(t, "payload") = usage[t]["payload"] +
         IF buffer[t] \in {"taken", "returned"} THEN BlockBytes[t] ELSE 0
    /\ HoldOf(t, "pieceBytes") = usage[t]["pieceBytes"] +
         IF step[t] \in {"pieceTaken", "pieceReturned", "piecePanic"} THEN PieceBytes[t] ELSE 0
    /\ HoldOf(t, "pieces") = usage[t]["pieces"] +
         IF step[t] \in {"pieceTaken", "pieceReturned", "pieceBytesReturned", "piecePanic"} THEN 1 ELSE 0

\* What a torrent has in each of the four budgets.
LEMMA HoldPartsNow == HoldParts
BY DEF HoldParts, HoldOf, InFlight, Budget

\* The same of the next state.
LEMMA HoldPartsNext == HoldParts'
BY HoldPartsNow, PTL

\* TypeOK, of the torrents' own counters and steps.
OwnType ==
  /\ usage \in [Torrent -> [Budget -> Nat]]
  /\ handle \in [Torrent -> {"new", "live", "dropping", "gone"}]
  /\ wants \subseteq Torrent
  /\ step \in [Torrent -> Steps] /\ buffer \in [Torrent -> {"idle", "taken", "charged", "returned"}]
  /\ heldRequests \in [Torrent -> Nat] /\ heldPieces \in [Torrent -> Nat]
  /\ heldPayload \in [Torrent -> Nat]

\* The types of what one torrent owns.
LEMMA OwnTypeNow == TypeOK => OwnType /\ session \in [Budget -> Nat]
BY DEF TypeOK, OwnType

\* The sizes are positive.
LEMMA Sizes ==
  /\ BlockBytes \in [Torrent -> Nat \ {0}] /\ PieceBytes \in [Torrent -> Nat \ {0}]
  /\ \A t \in Torrent : BlockBytes[t] \in Nat \ {0} /\ PieceBytes[t] \in Nat \ {0}
BY TorrentAssumption

\* What a torrent has in a budget is a number.
LEMMA HoldTypeNow == OwnType => \A t \in Torrent, b \in Budget : HoldOf(t, b) \in Nat
<1> SUFFICES ASSUME OwnType, NEW t \in Torrent, NEW b \in Budget PROVE HoldOf(t, b) \in Nat
  OBVIOUS
<1>1. usage[t][b] \in Nat /\ BlockBytes[t] \in Nat /\ PieceBytes[t] \in Nat
  BY Sizes DEF OwnType
<1>2. InFlight(t)[b] \in Nat
  BY <1>1 DEF InFlight
<1> QED BY <1>1, <1>2 DEF HoldOf

\* The same of the next state.
LEMMA HoldTypeNext == OwnType' => (\A t \in Torrent, b \in Budget : HoldOf(t, b) \in Nat)'
BY HoldTypeNow, PTL

\* Nobody holds more than the session has counted.
LEMMA HoldCounted ==
  ASSUME SessionInv, NEW t \in Torrent, NEW b \in Budget
  PROVE  HoldOf(t, b) \in Nat /\ session[b] \in Nat /\ HoldOf(t, b) <= session[b] /\ session[b] <= Limit[b]
<1> DEFINE f == Holdings(b)
           h == [f EXCEPT ![t] = 0]
<1>1. OwnType
  BY OwnTypeNow DEF SessionInv, HoldInv
<1>2. \A u \in Torrent : f[u] \in Nat /\ f[u] = HoldOf(u, b)
  BY <1>1, HoldTypeNow DEF Holdings
<1>3. session[b] = Total(f) /\ session[b] <= Limit[b]
  BY ConservedNow DEF SessionInv, Conserved
<1>4. f = [u \in Torrent |-> f[u]]
  BY DEF Holdings
<1> HIDE DEF f
<1>5. (\A u \in Torrent : h[u] \in Nat) /\ h[t] = 0 /\ \A u \in Torrent \ {t} : f[u] = h[u]
  BY <1>2, <1>4
<1> HIDE DEF h
<1>6. Total(h) = Total(f) + h[t] - f[t]
  BY <1>2, <1>5, TotalChange
<1>7. Total(h) \in Nat /\ Total(f) \in Nat
  BY <1>2, <1>5, TotalNat
<1> QED BY <1>2, <1>3, <1>5, <1>6, <1>7

\* The budgets after a step of one torrent.
LEMMA BudgetStep ==
  ASSUME SessionInv, OwnType', NEW t \in Torrent,
         \A b \in Budget : \A u \in Torrent \ {t} : HoldOf(u, b)' = HoldOf(u, b),
         \A b \in Budget : /\ session'[b] = session[b] + (HoldOf(t, b)' - HoldOf(t, b))
                           /\ session'[b] <= Limit[b]
  PROVE  BudgetsConserved' /\ \A b \in Budget : session'[b] \in Nat
<1> SUFFICES ASSUME NEW b \in Budget
             PROVE  session'[b] = Total(Holdings(b)') /\ session'[b] <= Limit[b] /\ session'[b] \in Nat
  BY ConservedNext DEF Conserved, Limit
<1> DEFINE f == Holdings(b)
           h == Holdings(b)'
<1>1. OwnType
  BY OwnTypeNow DEF SessionInv, HoldInv
<1>2. \A u \in Torrent : f[u] \in Nat /\ f[u] = HoldOf(u, b)
  BY <1>1, HoldTypeNow DEF Holdings
<1>3. \A u \in Torrent : h[u] \in Nat /\ h[u] = HoldOf(u, b)'
  BY HoldTypeNext DEF Holdings
<1>4. session[b] = Total(f)
  BY ConservedNow DEF SessionInv, Conserved
<1>5. session'[b] = session[b] + (HoldOf(t, b)' - HoldOf(t, b)) /\ session'[b] <= Limit[b]
  OBVIOUS
<1>6. \A u \in Torrent \ {t} : f[u] = h[u]
  BY <1>2, <1>3
<1> HIDE DEF f, h
<1>7. Total(h) = Total(f) + h[t] - f[t]
  BY <1>2, <1>3, <1>6, TotalChange
<1>8. Total(h) \in Nat /\ Total(f) \in Nat
  BY <1>2, <1>3, TotalNat
<1>9. session'[b] = Total(h)
  BY <1>2, <1>3, <1>4, <1>5, <1>7, <1>8
<1> QED BY <1>5, <1>8, <1>9 DEF h

\* Multiples of a size.
LEMMA Times ==
  ASSUME NEW n \in Nat, NEW h \in Nat
  PROVE  /\ h * n \in Nat /\ (h + 1) * n = h * n + n /\ 0 * n = 0
         /\ h > 0 => h - 1 \in Nat /\ (h - 1) * n = h * n - n /\ h * n >= n
<1>1. h * n \in Nat /\ (h + 1) * n = h * n + n /\ 0 * n = 0
  OBVIOUS
<1>2. ASSUME h > 0 PROVE h - 1 \in Nat /\ (h - 1) * n = h * n - n /\ h * n >= n
  <2>1. h - 1 \in Nat /\ (h - 1) * n = h * n - n
    BY <1>2
  <2>2. (h - 1) * n \in Nat
    BY <2>1
  <2> QED BY <1>1, <2>1, <2>2
<1> QED BY <1>1, <1>2

\* What a step of another torrent leaves of torrent u.
Same(u) ==
  /\ usage'[u] = usage[u] /\ step'[u] = step[u] /\ buffer'[u] = buffer[u]
  /\ handle'[u] = handle[u] /\ heldRequests'[u] = heldRequests[u]
  /\ heldPieces'[u] = heldPieces[u] /\ heldPayload'[u] = heldPayload[u]

\* A torrent that is left alone has what it had.
LEMMA OthersKeep ==
  ASSUME SessionInv, NEW u \in Torrent, Same(u)
  PROVE  UsageExact(u)' /\ Quiet(u)' /\ \A b \in Budget : HoldOf(u, b)' = HoldOf(u, b)
<1>1. UsageExact(u) /\ Quiet(u)
  BY DEF SessionInv, HoldInv
<1>2. UsageExact(u)'
  BY <1>1 DEF UsageExact, Same
<1>3. Quiet(u)'
  BY <1>1 DEF Quiet, Same
<1>4. InFlight(u)' = InFlight(u)
  BY DEF InFlight, Same
<1>5. \A b \in Budget : HoldOf(u, b)' = HoldOf(u, b)
  BY <1>4, Zenon DEF HoldOf, Same
<1> QED BY <1>2, <1>3, <1>5

\* The invariant from its parts.
Parts ==
  /\ OwnType /\ session \in [Budget -> Nat] /\ (\A t \in Torrent : UsageExact(t) /\ Quiet(t))
  /\ BudgetsConserved /\ QueueInv /\ SelectedCanPay

\* The parts of the invariant give the whole.
LEMMA PartsNow == Parts => SessionInv
<1> SUFFICES ASSUME Parts PROVE SessionInv
  OBVIOUS
<1>1. \A s \in {request, piece} :
        /\ s.queue \in Seq(Torrent) /\ s.costs \in [Torrent -> Nat]
        /\ s.deficits \in [Torrent -> Nat]
  BY WaitersParts DEF Parts, QueueInv
<1>2. TypeOK
  BY <1>1 DEF Parts, OwnType, TypeOK
<1> QED BY <1>2 DEF Parts, SessionInv, HoldInv

\* The same of the next state.
LEMMA PartsNext == Parts' => SessionInv'
BY PartsNow, PTL

\* A session counter and what t holds in it change by the same amount n.
Moved(t, b, n) ==
  /\ n \in Int /\ session'[b] = session[b] + n /\ HoldOf(t, b)' = HoldOf(t, b) + n
  /\ n <= 0 \/ session'[b] <= Limit[b]

\* What a step moves in a budget it moves in the session counter and in one torrent.
LEMMA MovedFacts ==
  ASSUME SessionInv, NEW t \in Torrent, NEW b \in Budget, NEW n, Moved(t, b, n)
  PROVE  /\ session'[b] = session[b] + (HoldOf(t, b)' - HoldOf(t, b))
         /\ session'[b] <= Limit[b]
<1>1. HoldOf(t, b) \in Nat /\ session[b] \in Nat /\ session[b] <= Limit[b]
  BY HoldCounted
<1>2. Limit[b] \in Nat
  BY BudgetAssumption DEF Limit
<1> QED BY <1>1, <1>2 DEF Moved

\* A step of torrent t is sound when it accounts for what t holds and keeps the queues.
LEMMA StepSound ==
  ASSUME SessionInv, NEW t \in Torrent, OwnType',
         \A u \in Torrent \ {t} : Same(u), UsageExact(t)', Quiet(t)',
         session' = [b \in Budget |-> session'[b]],
         \A b \in Budget : \E n : Moved(t, b, n),
         QueueInv', SelectedCanPay'
  PROVE  SessionInv'
<1>1. \A u \in Torrent \ {t} :
        UsageExact(u)' /\ Quiet(u)' /\ \A b \in Budget : HoldOf(u, b)' = HoldOf(u, b)
  BY OthersKeep
<1>2. \A u \in Torrent : UsageExact(u)' /\ Quiet(u)'
  BY <1>1
<1>3. BudgetsConserved' /\ \A b \in Budget : session'[b] \in Nat
  <2>1. \A b \in Budget : \A u \in Torrent \ {t} : HoldOf(u, b)' = HoldOf(u, b)
    BY <1>1
  <2>2. \A b \in Budget : /\ session'[b] = session[b] + (HoldOf(t, b)' - HoldOf(t, b))
                          /\ session'[b] <= Limit[b]
    BY MovedFacts
  <2> QED BY <2>1, <2>2, BudgetStep
<1>4. session' \in [Budget -> Nat]
  BY <1>3
<1>5. Parts'
  BY <1>2, <1>3, <1>4 DEF Parts
<1> QED BY <1>5, PartsNext

\* Torrent t moves these amounts, in the four budgets.
Moves(t, w, x, y, z) ==
  /\ Moved(t, "request", w) /\ Moved(t, "payload", x)
  /\ Moved(t, "pieceBytes", y) /\ Moved(t, "pieces", z)

\* A step that says what it moves in each of the four budgets says it of all.
LEMMA MovesAll ==
  ASSUME NEW t, NEW w, NEW x, NEW y, NEW z, Moves(t, w, x, y, z)
  PROVE  \A b \in Budget : \E n : Moved(t, b, n)
BY DEF Moves, Budget

\* The facts about torrent t that its steps use.
LEMMA OwnFacts ==
  ASSUME SessionInv, NEW t \in Torrent
  PROVE  /\ OwnType /\ session \in [Budget -> Nat] /\ UsageExact(t) /\ Quiet(t)
         /\ usage[t] \in [Budget -> Nat] /\ step[t] \in Steps
         /\ heldRequests[t] \in Nat /\ heldPieces[t] \in Nat /\ heldPayload[t] \in Nat
         /\ BlockBytes[t] \in Nat \ {0} /\ PieceBytes[t] \in Nat \ {0}
         /\ QueueInv /\ SelectedCanPay /\ \A b \in Budget : session[b] <= Limit[b]
<1>1. OwnType /\ session \in [Budget -> Nat] /\ UsageExact(t) /\ Quiet(t) /\ QueueInv /\ SelectedCanPay
  BY OwnTypeNow DEF SessionInv, HoldInv
<1>2. \A b \in Budget : session[b] <= Limit[b]
  BY ConservedNow DEF SessionInv, Conserved
<1> QED BY <1>1, <1>2, Sizes DEF OwnType

-----------------------------------------------------------------------------
(* The steps. *)

\* The queues when nobody asks and nobody who waits is gone.
LEMMA QueuesKept ==
  ASSUME SessionInv, request' = request, piece' = piece,
         \A u \in Torrent : handle[u] \in {"live", "dropping"} => handle'[u] \in {"live", "dropping"}
  PROVE  QueueInv'
<1>1. QueueInv
  BY DEF SessionInv
<1>2. /\ request.queue \in Seq(Torrent) /\ ToSet(request.queue) \subseteq Torrent
      /\ piece.queue \in Seq(Torrent) /\ ToSet(piece.queue) \subseteq Torrent
  BY <1>1, WaitersParts, QueuedType DEF QueueInv
<1>3. Waiters(request, BlockBytes)' /\ Waiters(piece, PieceBytes)'
  BY <1>1 DEF QueueInv, Waiters
<1>4. Registered(request)' /\ Registered(piece)'
  BY <1>1, <1>2 DEF QueueInv, Registered
<1> QED BY <1>3, <1>4 DEF QueueInv

\* Nobody starts to panic.
LEMMA NoNewPanic ==
  ASSUME SessionInv,
         \A u \in Torrent : step'[u] \in {"requestPanic", "piecePanic"} => step'[u] = step[u]
  PROVE  SelectedCanPay'
BY DEF SessionInv, SelectedCanPay, OneLarge

\* Registering a torrent keeps the invariant.
LEMMA RegisterStep ==
  ASSUME SessionInv, NEW t \in Torrent, Register(t)
  PROVE  SessionInv'
<1>1. /\ OwnType /\ session \in [Budget -> Nat] /\ UsageExact(t) /\ Quiet(t)
      /\ heldRequests[t] \in Nat /\ heldPieces[t] \in Nat /\ heldPayload[t] \in Nat
      /\ BlockBytes[t] \in Nat \ {0} /\ PieceBytes[t] \in Nat \ {0}
  BY OwnFacts
<1>2. /\ handle[t] = "new"
      /\ handle' = [handle EXCEPT ![t] = "live"]
      /\ request' = request /\ piece' = piece
      /\ UNCHANGED <<usage, wants, step, buffer, heldRequests, heldPieces, heldPayload, session>>
  BY DEF Register, admission, held
<1>3. /\ handle'[t] = "live"
      /\ \A u \in Torrent \ {t} : Same(u)
  BY <1>1, <1>2 DEF OwnType, Same, Budget
<1>4. UsageExact(t)' /\ Quiet(t)'
  BY <1>1, <1>2, <1>3 DEF UsageExact, Quiet
<1>5. OwnType'
  BY <1>1, <1>2, <1>3 DEF OwnType, Steps, Budget
<1>6. session' = [b \in Budget |-> session'[b]]
  BY <1>1, <1>2
<1>7. Moves(t, 0, 0, 0, 0)
  <2>1. /\ session'["request"] = session["request"]
        /\ session'["payload"] = session["payload"]
        /\ session'["pieceBytes"] = session["pieceBytes"]
        /\ session'["pieces"] = session["pieces"]
    BY <1>1, <1>2 DEF Budget
  <2>2. \A b \in Budget : session[b] \in Nat /\ HoldOf(t, b) \in Nat /\ usage[t][b] \in Nat
    BY <1>1, HoldCounted DEF OwnType
  <2> QED BY <1>1, <1>2, <1>3, <2>1, <2>2, HoldPartsNow, HoldPartsNext
          DEF Moves, Moved, HoldParts, Budget
<1>8. QueueInv' /\ SelectedCanPay'
  BY <1>1, <1>2, <1>3, QueuesKept, NoNewPanic DEF Same, OwnType
<1> QED BY <1>3, <1>4, <1>5, <1>6, <1>7, <1>8, MovesAll, StepSound

\* A scheduler that finds a block to request keeps the invariant.
LEMMA FindWorkStep ==
  ASSUME SessionInv, NEW t \in Torrent, FindWork(t)
  PROVE  SessionInv'
<1>1. /\ OwnType /\ session \in [Budget -> Nat] /\ UsageExact(t) /\ Quiet(t)
      /\ heldRequests[t] \in Nat /\ heldPieces[t] \in Nat /\ heldPayload[t] \in Nat
      /\ BlockBytes[t] \in Nat \ {0} /\ PieceBytes[t] \in Nat \ {0}
  BY OwnFacts
<1>2. /\ wants' = wants \cup {t}
      /\ request' = request /\ piece' = piece
      /\ UNCHANGED <<usage, handle, step, buffer, heldRequests, heldPieces, heldPayload, session>>
  BY DEF FindWork, admission, held
<1>3. /\ wants' \subseteq Torrent
      /\ \A u \in Torrent \ {t} : Same(u)
  BY <1>1, <1>2 DEF OwnType, Same, Budget
<1>4. UsageExact(t)' /\ Quiet(t)'
  BY <1>1, <1>2, <1>3 DEF UsageExact, Quiet
<1>5. OwnType'
  BY <1>1, <1>2, <1>3 DEF OwnType, Steps, Budget
<1>6. session' = [b \in Budget |-> session'[b]]
  BY <1>1, <1>2
<1>7. Moves(t, 0, 0, 0, 0)
  <2>1. /\ session'["request"] = session["request"]
        /\ session'["payload"] = session["payload"]
        /\ session'["pieceBytes"] = session["pieceBytes"]
        /\ session'["pieces"] = session["pieces"]
    BY <1>1, <1>2 DEF Budget
  <2>2. \A b \in Budget : session[b] \in Nat /\ HoldOf(t, b) \in Nat /\ usage[t][b] \in Nat
    BY <1>1, HoldCounted DEF OwnType
  <2> QED BY <1>1, <1>2, <1>3, <2>1, <2>2, HoldPartsNow, HoldPartsNext
          DEF Moves, Moved, HoldParts, Budget
<1>8. QueueInv' /\ SelectedCanPay'
  BY <1>1, <1>2, <1>3, QueuesKept, NoNewPanic DEF Same, OwnType
<1> QED BY <1>3, <1>4, <1>5, <1>6, <1>7, <1>8, MovesAll, StepSound

\* A scheduler whose blocks are gone keeps the invariant: it stays queued.
LEMMA LoseWorkStep ==
  ASSUME SessionInv, NEW t \in Torrent, LoseWork(t)
  PROVE  SessionInv'
<1>1. /\ OwnType /\ session \in [Budget -> Nat] /\ UsageExact(t) /\ Quiet(t)
      /\ heldRequests[t] \in Nat /\ heldPieces[t] \in Nat /\ heldPayload[t] \in Nat
      /\ BlockBytes[t] \in Nat \ {0} /\ PieceBytes[t] \in Nat \ {0}
  BY OwnFacts
<1>2. /\ wants' = wants \ {t}
      /\ request' = request /\ piece' = piece
      /\ UNCHANGED <<usage, handle, step, buffer, heldRequests, heldPieces, heldPayload, session>>
  BY DEF LoseWork, admission, held
<1>3. /\ wants' \subseteq Torrent
      /\ \A u \in Torrent \ {t} : Same(u)
  BY <1>1, <1>2 DEF OwnType, Same, Budget
<1>4. UsageExact(t)' /\ Quiet(t)'
  BY <1>1, <1>2, <1>3 DEF UsageExact, Quiet
<1>5. OwnType'
  BY <1>1, <1>2, <1>3 DEF OwnType, Steps, Budget
<1>6. session' = [b \in Budget |-> session'[b]]
  BY <1>1, <1>2
<1>7. Moves(t, 0, 0, 0, 0)
  <2>1. /\ session'["request"] = session["request"]
        /\ session'["payload"] = session["payload"]
        /\ session'["pieceBytes"] = session["pieceBytes"]
        /\ session'["pieces"] = session["pieces"]
    BY <1>1, <1>2 DEF Budget
  <2>2. \A b \in Budget : session[b] \in Nat /\ HoldOf(t, b) \in Nat /\ usage[t][b] \in Nat
    BY <1>1, HoldCounted DEF OwnType
  <2> QED BY <1>1, <1>2, <1>3, <2>1, <2>2, HoldPartsNow, HoldPartsNext
          DEF Moves, Moved, HoldParts, Budget
<1>8. QueueInv' /\ SelectedCanPay'
  BY <1>1, <1>2, <1>3, QueuesKept, NoNewPanic DEF Same, OwnType
<1> QED BY <1>3, <1>4, <1>5, <1>6, <1>7, <1>8, MovesAll, StepSound

\* request_budget_allows changes no counter.
LEMMA CheckRequestStep ==
  ASSUME SessionInv, NEW t \in Torrent, NEW activates \in BOOLEAN, CheckRequest(t, activates)
  PROVE  SessionInv'
<1>1. /\ OwnType /\ session \in [Budget -> Nat] /\ UsageExact(t) /\ Quiet(t)
      /\ heldRequests[t] \in Nat /\ heldPieces[t] \in Nat /\ heldPayload[t] \in Nat
      /\ BlockBytes[t] \in Nat \ {0} /\ PieceBytes[t] \in Nat \ {0}
  BY OwnFacts
<1>2. /\ handle[t] = "live" /\ step[t] = "idle"
      /\ step' = [step EXCEPT ![t] = IF activates THEN "requestTryFirst" ELSE "requestTry"]
      /\ request' = request /\ piece' = piece
      /\ UNCHANGED <<usage, handle, wants, buffer, heldRequests, heldPieces, heldPayload, session>>
  BY DEF CheckRequest, admission, held, Ready
<1>3. /\ step'[t] \in {"requestTryFirst", "requestTry"}
      /\ \A u \in Torrent \ {t} : Same(u)
  BY <1>1, <1>2 DEF OwnType, Same, Budget
<1>4. UsageExact(t)' /\ Quiet(t)'
  BY <1>1, <1>2, <1>3 DEF UsageExact, Quiet
<1>5. OwnType'
  BY <1>1, <1>2, <1>3 DEF OwnType, Steps, Budget
<1>6. session' = [b \in Budget |-> session'[b]]
  BY <1>1, <1>2
<1>7. Moves(t, 0, 0, 0, 0)
  <2>1. /\ session'["request"] = session["request"]
        /\ session'["payload"] = session["payload"]
        /\ session'["pieceBytes"] = session["pieceBytes"]
        /\ session'["pieces"] = session["pieces"]
    BY <1>1, <1>2 DEF Budget
  <2>2. \A b \in Budget : session[b] \in Nat /\ HoldOf(t, b) \in Nat /\ usage[t][b] \in Nat
    BY <1>1, HoldCounted DEF OwnType
  <2> QED BY <1>1, <1>2, <1>3, <2>1, <2>2, HoldPartsNow, HoldPartsNext
          DEF Moves, Moved, HoldParts, Budget
<1>8. QueueInv' /\ SelectedCanPay'
  BY <1>1, <1>2, <1>3, QueuesKept, NoNewPanic DEF Same, OwnType
<1> QED BY <1>3, <1>4, <1>5, <1>6, <1>7, <1>8, MovesAll, StepSound

\* Charging a piece to the usage keeps the invariant.
LEMMA ChargePieceStep ==
  ASSUME SessionInv, NEW t \in Torrent, ChargePiece(t)
  PROVE  SessionInv'
<1>1. /\ OwnType /\ session \in [Budget -> Nat] /\ UsageExact(t) /\ Quiet(t)
      /\ heldRequests[t] \in Nat /\ heldPieces[t] \in Nat /\ heldPayload[t] \in Nat
      /\ BlockBytes[t] \in Nat \ {0} /\ PieceBytes[t] \in Nat \ {0}
  BY OwnFacts
<1>2. /\ step[t] = "pieceTaken"
      /\ usage' = [usage EXCEPT ![t]["pieceBytes"] = @ + PieceBytes[t], ![t]["pieces"] = @ + 1]
      /\ heldRequests' = [heldRequests EXCEPT ![t] = @ + 1]
      /\ heldPieces' = [heldPieces EXCEPT ![t] = @ + 1]
      /\ step' = [step EXCEPT ![t] = "idle"]
      /\ request' = request /\ piece' = piece
      /\ UNCHANGED <<handle, wants, buffer, heldPayload, session>>
  BY DEF ChargePiece, admission, held
<1>3. /\ usage'[t]["request"] = usage[t]["request"] /\ usage'[t]["payload"] = usage[t]["payload"]
      /\ usage'[t]["pieceBytes"] = usage[t]["pieceBytes"] + PieceBytes[t]
      /\ usage'[t]["pieces"] = usage[t]["pieces"] + 1
      /\ heldRequests'[t] = heldRequests[t] + 1 /\ heldPieces'[t] = heldPieces[t] + 1
      /\ step[t] = "pieceTaken" /\ step'[t] = "idle" /\ buffer'[t] = buffer[t]
      /\ \A u \in Torrent \ {t} : Same(u)
  BY <1>1, <1>2 DEF OwnType, Same, Budget
<1>4. /\ (heldRequests[t] + 1) * BlockBytes[t] = heldRequests[t] * BlockBytes[t] + BlockBytes[t]
      /\ (heldPieces[t] + 1) * PieceBytes[t] = heldPieces[t] * PieceBytes[t] + PieceBytes[t]
      /\ heldRequests[t] * BlockBytes[t] \in Nat /\ heldPieces[t] * PieceBytes[t] \in Nat
  BY <1>1, <1>2, Times
<1>5. UsageExact(t)' /\ Quiet(t)'
  <2>1. usage'[t]["request"] = heldRequests'[t] * BlockBytes[t]
        /\ heldRequests'[t] * BlockBytes[t] \in Nat
    <3>1. heldRequests'[t] * BlockBytes[t] = heldRequests[t] * BlockBytes[t] + BlockBytes[t]
      BY <1>3, <1>4
    <3>2. usage[t]["request"] = heldRequests[t] * BlockBytes[t] + BlockBytes[t]
      BY <1>1, <1>3 DEF UsageExact
    <3> QED BY <1>1, <1>3, <1>4, <3>1, <3>2
  <2>2. usage'[t]["pieceBytes"] = heldPieces'[t] * PieceBytes[t] /\ usage'[t]["pieces"] = heldPieces'[t]
    BY <1>1, <1>2, <1>3, <1>4 DEF UsageExact
  <2>3. usage'[t]["payload"] = heldPayload'[t] * BlockBytes[t]
          + (IF buffer'[t] = "charged" THEN BlockBytes[t] ELSE 0)
    BY <1>1, <1>2, <1>3 DEF UsageExact
  <2>4. UsageExact(t)'
    BY <1>3, <2>1, <2>2, <2>3 DEF UsageExact
  <2>5. Quiet(t)'
    BY <1>1, <1>2, <1>3 DEF Quiet
  <2> QED BY <2>4, <2>5
<1>6. OwnType'
  BY <1>1, <1>2, <1>3, <1>4 DEF OwnType, Steps, Budget
<1>7. session' = [b \in Budget |-> session'[b]]
  BY <1>1, <1>2
<1>8. Moves(t, 0, 0, 0, 0)
  <2>1. /\ session'["request"] = session["request"]
        /\ session'["payload"] = session["payload"]
        /\ session'["pieceBytes"] = session["pieceBytes"]
        /\ session'["pieces"] = session["pieces"]
    BY <1>1, <1>2 DEF Budget
  <2>2. \A b \in Budget : session[b] \in Nat /\ HoldOf(t, b) \in Nat /\ usage[t][b] \in Nat
    BY <1>1, HoldCounted DEF OwnType
  <2>3. HoldParts /\ HoldParts'
    BY HoldPartsNow, HoldPartsNext
  <2>4. Moved(t, "request", 0)
    BY <1>1, <1>3, <2>1, <2>2, <2>3 DEF Moved, HoldParts, Budget
  <2>5. Moved(t, "payload", 0)
    BY <1>1, <1>3, <2>1, <2>2, <2>3 DEF Moved, HoldParts, Budget
  <2>6. Moved(t, "pieceBytes", 0)
    BY <1>1, <1>3, <2>1, <2>2, <2>3 DEF Moved, HoldParts, Budget
  <2>7. Moved(t, "pieces", 0)
    BY <1>1, <1>3, <2>1, <2>2, <2>3 DEF Moved, HoldParts, Budget
  <2> QED BY <2>4, <2>5, <2>6, <2>7 DEF Moves
<1>9. QueueInv' /\ SelectedCanPay'
  BY <1>1, <1>2, <1>3, QueuesKept, NoNewPanic DEF Same, OwnType
<1> QED BY <1>3, <1>5, <1>6, <1>7, <1>8, <1>9, MovesAll, StepSound

\* A request's release from the usage keeps the invariant.
LEMMA ReleaseRequestStep ==
  ASSUME SessionInv, NEW t \in Torrent, ReleaseRequest(t)
  PROVE  SessionInv'
<1>1. /\ OwnType /\ session \in [Budget -> Nat] /\ UsageExact(t) /\ Quiet(t)
      /\ heldRequests[t] \in Nat /\ heldPieces[t] \in Nat /\ heldPayload[t] \in Nat
      /\ BlockBytes[t] \in Nat \ {0} /\ PieceBytes[t] \in Nat \ {0}
  BY OwnFacts
<1>2. /\ handle[t] = "live" /\ step[t] = "idle" /\ heldRequests[t] > 0
      /\ usage' = [usage EXCEPT ![t]["request"] = @ - BlockBytes[t]]
      /\ heldRequests' = [heldRequests EXCEPT ![t] = @ - 1]
      /\ step' = [step EXCEPT ![t] = "requestReturned"]
      /\ request' = request /\ piece' = piece
      /\ UNCHANGED <<handle, wants, buffer, heldPieces, heldPayload, session>>
  BY DEF ReleaseRequest, admission, held
<1>3. /\ usage'[t]["request"] = usage[t]["request"] - BlockBytes[t]
      /\ usage'[t]["payload"] = usage[t]["payload"] /\ usage'[t]["pieces"] = usage[t]["pieces"]
      /\ usage'[t]["pieceBytes"] = usage[t]["pieceBytes"]
      /\ heldRequests'[t] = heldRequests[t] - 1
      /\ step'[t] = "requestReturned"
      /\ \A u \in Torrent \ {t} : Same(u)
  BY <1>1, <1>2 DEF OwnType, Same, Budget
<1>4. /\ (heldRequests[t] - 1) * BlockBytes[t] = heldRequests[t] * BlockBytes[t] - BlockBytes[t]
      /\ heldRequests[t] * BlockBytes[t] \in Nat /\ heldRequests[t] * BlockBytes[t] >= BlockBytes[t]
  BY <1>1, <1>2, Times
<1>5. UsageExact(t)' /\ Quiet(t)'
  BY <1>1, <1>2, <1>3, <1>4 DEF UsageExact, Quiet
<1>6. usage[t]["request"] - BlockBytes[t] \in Nat
  BY <1>1, <1>2, <1>4 DEF UsageExact
<1>7. OwnType'
  BY <1>1, <1>2, <1>3, <1>4, <1>6 DEF OwnType, Steps, Budget
<1>8. session' = [b \in Budget |-> session'[b]]
  BY <1>1, <1>2
<1>9. Moves(t, 0, 0, 0, 0)
  <2>1. /\ session'["request"] = session["request"]
        /\ session'["payload"] = session["payload"]
        /\ session'["pieceBytes"] = session["pieceBytes"]
        /\ session'["pieces"] = session["pieces"]
    BY <1>1, <1>2 DEF Budget
  <2>2. \A b \in Budget : session[b] \in Nat /\ HoldOf(t, b) \in Nat /\ usage[t][b] \in Nat
    BY <1>1, HoldCounted DEF OwnType
  <2> QED BY <1>1, <1>2, <1>3, <2>1, <2>2, HoldPartsNow, HoldPartsNext
          DEF Moves, Moved, HoldParts, Budget
<1>10. QueueInv' /\ SelectedCanPay'
  BY <1>1, <1>2, <1>3, QueuesKept, NoNewPanic DEF Same, OwnType
<1> QED BY <1>3, <1>5, <1>7, <1>8, <1>9, <1>10, MovesAll, StepSound

\* A request's return to the session keeps the invariant.
LEMMA ReturnRequestStep ==
  ASSUME SessionInv, NEW t \in Torrent, ReturnRequest(t)
  PROVE  SessionInv'
<1>1. /\ OwnType /\ session \in [Budget -> Nat] /\ UsageExact(t) /\ Quiet(t)
      /\ heldRequests[t] \in Nat /\ heldPieces[t] \in Nat /\ heldPayload[t] \in Nat
      /\ BlockBytes[t] \in Nat \ {0} /\ PieceBytes[t] \in Nat \ {0}
  BY OwnFacts
<1>2. /\ step[t] = "requestReturned"
      /\ step' = [step EXCEPT ![t] = "idle"]
      /\ session' = [session EXCEPT !["request"] = @ - BlockBytes[t]]
      /\ request' = request /\ piece' = piece
      /\ UNCHANGED <<usage, handle, wants, buffer, heldRequests, heldPieces, heldPayload>>
  BY DEF ReturnRequest, admission, held
<1>3. /\ step'[t] = "idle"
      /\ \A u \in Torrent \ {t} : Same(u)
  BY <1>1, <1>2 DEF OwnType, Same, Budget
<1>4. UsageExact(t)' /\ Quiet(t)'
  BY <1>1, <1>2, <1>3 DEF UsageExact, Quiet
<1>5. OwnType'
  BY <1>1, <1>2, <1>3 DEF OwnType, Steps, Budget
<1>6. session' = [b \in Budget |-> session'[b]]
  BY <1>1, <1>2
<1>7. Moves(t, 0 - BlockBytes[t], 0, 0, 0)
  <2>1. /\ session'["request"] = session["request"] - BlockBytes[t]
        /\ session'["payload"] = session["payload"]
        /\ session'["pieceBytes"] = session["pieceBytes"]
        /\ session'["pieces"] = session["pieces"]
    BY <1>1, <1>2 DEF Budget
  <2>2. \A b \in Budget : session[b] \in Nat /\ HoldOf(t, b) \in Nat /\ usage[t][b] \in Nat
    BY <1>1, HoldCounted DEF OwnType
  <2> QED BY <1>1, <1>2, <1>3, <2>1, <2>2, HoldPartsNow, HoldPartsNext
          DEF Moves, Moved, HoldParts, Budget
<1>8. QueueInv' /\ SelectedCanPay'
  BY <1>1, <1>2, <1>3, QueuesKept, NoNewPanic DEF Same, OwnType
<1> QED BY <1>3, <1>4, <1>5, <1>6, <1>7, <1>8, MovesAll, StepSound

\* A piece's release from the usage keeps the invariant.
LEMMA ReleasePieceStep ==
  ASSUME SessionInv, NEW t \in Torrent, ReleasePiece(t)
  PROVE  SessionInv'
<1>1. /\ OwnType /\ session \in [Budget -> Nat] /\ UsageExact(t) /\ Quiet(t)
      /\ heldRequests[t] \in Nat /\ heldPieces[t] \in Nat /\ heldPayload[t] \in Nat
      /\ BlockBytes[t] \in Nat \ {0} /\ PieceBytes[t] \in Nat \ {0}
  BY OwnFacts
<1>2. /\ handle[t] = "live" /\ step[t] = "idle" /\ heldPieces[t] > 0
      /\ usage' = [usage EXCEPT ![t]["pieceBytes"] = @ - PieceBytes[t], ![t]["pieces"] = @ - 1]
      /\ heldPieces' = [heldPieces EXCEPT ![t] = @ - 1]
      /\ step' = [step EXCEPT ![t] = "pieceReturned"]
      /\ request' = request /\ piece' = piece
      /\ UNCHANGED <<handle, wants, buffer, heldRequests, heldPayload, session>>
  BY DEF ReleasePiece, admission, held
<1>3. /\ usage'[t]["request"] = usage[t]["request"] /\ usage'[t]["payload"] = usage[t]["payload"]
      /\ usage'[t]["pieceBytes"] = usage[t]["pieceBytes"] - PieceBytes[t]
      /\ usage'[t]["pieces"] = usage[t]["pieces"] - 1
      /\ heldPieces'[t] = heldPieces[t] - 1
      /\ step[t] = "idle" /\ step'[t] = "pieceReturned" /\ buffer'[t] = buffer[t]
      /\ \A u \in Torrent \ {t} : Same(u)
  BY <1>1, <1>2 DEF OwnType, Same, Budget
<1>4. /\ (heldPieces[t] - 1) * PieceBytes[t] = heldPieces[t] * PieceBytes[t] - PieceBytes[t]
      /\ heldPieces[t] * PieceBytes[t] \in Nat /\ heldPieces[t] * PieceBytes[t] >= PieceBytes[t]
  BY <1>1, <1>2, Times
<1>5. UsageExact(t)' /\ Quiet(t)'
  BY <1>1, <1>2, <1>3, <1>4 DEF UsageExact, Quiet
<1>6. /\ usage[t]["pieceBytes"] - PieceBytes[t] \in Nat /\ usage[t]["pieces"] - 1 \in Nat
  BY <1>1, <1>2, <1>4 DEF UsageExact
<1>7. OwnType'
  BY <1>1, <1>2, <1>3, <1>4, <1>6 DEF OwnType, Steps, Budget
<1>8. session' = [b \in Budget |-> session'[b]]
  BY <1>1, <1>2
<1>9. Moves(t, 0, 0, 0, 0)
  <2>1. /\ session'["request"] = session["request"]
        /\ session'["payload"] = session["payload"]
        /\ session'["pieceBytes"] = session["pieceBytes"]
        /\ session'["pieces"] = session["pieces"]
    BY <1>1, <1>2 DEF Budget
  <2>2. \A b \in Budget : session[b] \in Nat /\ HoldOf(t, b) \in Nat /\ usage[t][b] \in Nat
    BY <1>1, HoldCounted DEF OwnType
  <2>3. HoldParts /\ HoldParts'
    BY HoldPartsNow, HoldPartsNext
  <2>4. Moved(t, "request", 0)
    BY <1>1, <1>3, <2>1, <2>2, <2>3 DEF Moved, HoldParts, Budget
  <2>5. Moved(t, "payload", 0)
    BY <1>1, <1>3, <2>1, <2>2, <2>3 DEF Moved, HoldParts, Budget
  <2>6. Moved(t, "pieceBytes", 0)
    BY <1>1, <1>3, <2>1, <2>2, <2>3 DEF Moved, HoldParts, Budget
  <2>7. Moved(t, "pieces", 0)
    BY <1>1, <1>3, <2>1, <2>2, <2>3 DEF Moved, HoldParts, Budget
  <2> QED BY <2>4, <2>5, <2>6, <2>7 DEF Moves
<1>10. QueueInv' /\ SelectedCanPay'
  BY <1>1, <1>2, <1>3, QueuesKept, NoNewPanic DEF Same, OwnType
<1> QED BY <1>3, <1>5, <1>7, <1>8, <1>9, <1>10, MovesAll, StepSound

\* The return of a piece's bytes to the session keeps the invariant.
LEMMA ReturnPieceBytesStep ==
  ASSUME SessionInv, NEW t \in Torrent, ReturnPieceBytes(t)
  PROVE  SessionInv'
<1>1. /\ OwnType /\ session \in [Budget -> Nat] /\ UsageExact(t) /\ Quiet(t)
      /\ heldRequests[t] \in Nat /\ heldPieces[t] \in Nat /\ heldPayload[t] \in Nat
      /\ BlockBytes[t] \in Nat \ {0} /\ PieceBytes[t] \in Nat \ {0}
  BY OwnFacts
<1>2. /\ step[t] = "pieceReturned"
      /\ step' = [step EXCEPT ![t] = "pieceBytesReturned"]
      /\ session' = [session EXCEPT !["pieceBytes"] = @ - PieceBytes[t]]
      /\ request' = request /\ piece' = piece
      /\ UNCHANGED <<usage, handle, wants, buffer, heldRequests, heldPieces, heldPayload>>
  BY DEF ReturnPieceBytes, admission, held
<1>3. /\ step'[t] = "pieceBytesReturned"
      /\ \A u \in Torrent \ {t} : Same(u)
  BY <1>1, <1>2 DEF OwnType, Same, Budget
<1>4. UsageExact(t)' /\ Quiet(t)'
  BY <1>1, <1>2, <1>3 DEF UsageExact, Quiet
<1>5. OwnType'
  BY <1>1, <1>2, <1>3 DEF OwnType, Steps, Budget
<1>6. session' = [b \in Budget |-> session'[b]]
  BY <1>1, <1>2
<1>7. Moves(t, 0, 0, 0 - PieceBytes[t], 0)
  <2>1. /\ session'["request"] = session["request"]
        /\ session'["payload"] = session["payload"]
        /\ session'["pieceBytes"] = session["pieceBytes"] - PieceBytes[t]
        /\ session'["pieces"] = session["pieces"]
    BY <1>1, <1>2 DEF Budget
  <2>2. \A b \in Budget : session[b] \in Nat /\ HoldOf(t, b) \in Nat /\ usage[t][b] \in Nat
    BY <1>1, HoldCounted DEF OwnType
  <2> QED BY <1>1, <1>2, <1>3, <2>1, <2>2, HoldPartsNow, HoldPartsNext
          DEF Moves, Moved, HoldParts, Budget
<1>8. QueueInv' /\ SelectedCanPay'
  BY <1>1, <1>2, <1>3, QueuesKept, NoNewPanic DEF Same, OwnType
<1> QED BY <1>3, <1>4, <1>5, <1>6, <1>7, <1>8, MovesAll, StepSound

\* The return of the piece itself keeps the invariant.
LEMMA ReturnPieceStep ==
  ASSUME SessionInv, NEW t \in Torrent, ReturnPiece(t)
  PROVE  SessionInv'
<1>1. /\ OwnType /\ session \in [Budget -> Nat] /\ UsageExact(t) /\ Quiet(t)
      /\ heldRequests[t] \in Nat /\ heldPieces[t] \in Nat /\ heldPayload[t] \in Nat
      /\ BlockBytes[t] \in Nat \ {0} /\ PieceBytes[t] \in Nat \ {0}
  BY OwnFacts
<1>2. /\ step[t] = "pieceBytesReturned"
      /\ step' = [step EXCEPT ![t] = "idle"]
      /\ session' = [session EXCEPT !["pieces"] = @ - 1]
      /\ request' = request /\ piece' = piece
      /\ UNCHANGED <<usage, handle, wants, buffer, heldRequests, heldPieces, heldPayload>>
  BY DEF ReturnPiece, admission, held
<1>3. /\ step'[t] = "idle"
      /\ \A u \in Torrent \ {t} : Same(u)
  BY <1>1, <1>2 DEF OwnType, Same, Budget
<1>4. UsageExact(t)' /\ Quiet(t)'
  BY <1>1, <1>2, <1>3 DEF UsageExact, Quiet
<1>5. OwnType'
  BY <1>1, <1>2, <1>3 DEF OwnType, Steps, Budget
<1>6. session' = [b \in Budget |-> session'[b]]
  BY <1>1, <1>2
<1>7. Moves(t, 0, 0, 0, 0 - 1)
  <2>1. /\ session'["request"] = session["request"]
        /\ session'["payload"] = session["payload"]
        /\ session'["pieceBytes"] = session["pieceBytes"]
        /\ session'["pieces"] = session["pieces"] - 1
    BY <1>1, <1>2 DEF Budget
  <2>2. \A b \in Budget : session[b] \in Nat /\ HoldOf(t, b) \in Nat /\ usage[t][b] \in Nat
    BY <1>1, HoldCounted DEF OwnType
  <2> QED BY <1>1, <1>2, <1>3, <2>1, <2>2, HoldPartsNow, HoldPartsNext
          DEF Moves, Moved, HoldParts, Budget
<1>8. QueueInv' /\ SelectedCanPay'
  BY <1>1, <1>2, <1>3, QueuesKept, NoNewPanic DEF Same, OwnType
<1> QED BY <1>3, <1>4, <1>5, <1>6, <1>7, <1>8, MovesAll, StepSound

\* Reserving payload in the session keeps the invariant.
LEMMA ReservePayloadStep ==
  ASSUME SessionInv, NEW t \in Torrent, ReservePayload(t)
  PROVE  SessionInv'
<1>1. /\ OwnType /\ session \in [Budget -> Nat] /\ UsageExact(t) /\ Quiet(t)
      /\ heldRequests[t] \in Nat /\ heldPieces[t] \in Nat /\ heldPayload[t] \in Nat
      /\ BlockBytes[t] \in Nat \ {0} /\ PieceBytes[t] \in Nat \ {0}
  BY OwnFacts
<1>2. /\ handle[t] = "live" /\ buffer[t] = "idle"
      /\ session["payload"] + BlockBytes[t] <= Limit["payload"]
      /\ buffer' = [buffer EXCEPT ![t] = "taken"]
      /\ session' = [session EXCEPT !["payload"] = @ + BlockBytes[t]]
      /\ request' = request /\ piece' = piece
      /\ UNCHANGED <<usage, handle, wants, step, heldRequests, heldPieces, heldPayload>>
  BY DEF ReservePayload, admission, held, Fits
<1>3. /\ buffer'[t] = "taken"
      /\ \A u \in Torrent \ {t} : Same(u)
  BY <1>1, <1>2 DEF OwnType, Same, Budget
<1>4. UsageExact(t)' /\ Quiet(t)'
  BY <1>1, <1>2, <1>3 DEF UsageExact, Quiet
<1>5. OwnType'
  BY <1>1, <1>2, <1>3 DEF OwnType, Steps, Budget
<1>6. session' = [b \in Budget |-> session'[b]]
  BY <1>1, <1>2
<1>7. Moves(t, 0, BlockBytes[t], 0, 0)
  <2>1. /\ session'["request"] = session["request"]
        /\ session'["payload"] = session["payload"] + BlockBytes[t]
        /\ session'["pieceBytes"] = session["pieceBytes"]
        /\ session'["pieces"] = session["pieces"]
    BY <1>1, <1>2 DEF Budget
  <2>2. \A b \in Budget : session[b] \in Nat /\ HoldOf(t, b) \in Nat /\ usage[t][b] \in Nat
    BY <1>1, HoldCounted DEF OwnType
  <2> QED BY <1>1, <1>2, <1>3, <2>1, <2>2, HoldPartsNow, HoldPartsNext
          DEF Moves, Moved, HoldParts, Budget
<1>8. QueueInv' /\ SelectedCanPay'
  BY <1>1, <1>2, <1>3, QueuesKept, NoNewPanic DEF Same, OwnType
<1> QED BY <1>3, <1>4, <1>5, <1>6, <1>7, <1>8, MovesAll, StepSound

\* Charging payload to the usage keeps the invariant.
LEMMA ChargePayloadStep ==
  ASSUME SessionInv, NEW t \in Torrent, ChargePayload(t)
  PROVE  SessionInv'
<1>1. /\ OwnType /\ session \in [Budget -> Nat] /\ UsageExact(t) /\ Quiet(t)
      /\ heldRequests[t] \in Nat /\ heldPieces[t] \in Nat /\ heldPayload[t] \in Nat
      /\ BlockBytes[t] \in Nat \ {0} /\ PieceBytes[t] \in Nat \ {0}
  BY OwnFacts
<1>2. /\ buffer[t] = "taken"
      /\ buffer' = [buffer EXCEPT ![t] = "charged"]
      /\ usage' = [usage EXCEPT ![t]["payload"] = @ + BlockBytes[t]]
      /\ request' = request /\ piece' = piece
      /\ UNCHANGED <<handle, wants, step, heldRequests, heldPieces, heldPayload, session>>
  BY DEF ChargePayload, admission, held
<1>3. /\ usage'[t]["payload"] = usage[t]["payload"] + BlockBytes[t]
      /\ usage'[t]["request"] = usage[t]["request"] /\ usage'[t]["pieces"] = usage[t]["pieces"]
      /\ usage'[t]["pieceBytes"] = usage[t]["pieceBytes"]
      /\ buffer'[t] = "charged"
      /\ \A u \in Torrent \ {t} : Same(u)
  BY <1>1, <1>2 DEF OwnType, Same, Budget
<1>4. /\ heldPayload[t] * BlockBytes[t] \in Nat
  BY <1>1, <1>2, Times
<1>5. UsageExact(t)' /\ Quiet(t)'
  BY <1>1, <1>2, <1>3, <1>4 DEF UsageExact, Quiet
<1>6. OwnType'
  BY <1>1, <1>2, <1>3, <1>4 DEF OwnType, Steps, Budget
<1>7. session' = [b \in Budget |-> session'[b]]
  BY <1>1, <1>2
<1>8. Moves(t, 0, 0, 0, 0)
  <2>1. /\ session'["request"] = session["request"]
        /\ session'["payload"] = session["payload"]
        /\ session'["pieceBytes"] = session["pieceBytes"]
        /\ session'["pieces"] = session["pieces"]
    BY <1>1, <1>2 DEF Budget
  <2>2. \A b \in Budget : session[b] \in Nat /\ HoldOf(t, b) \in Nat /\ usage[t][b] \in Nat
    BY <1>1, HoldCounted DEF OwnType
  <2> QED BY <1>1, <1>2, <1>3, <2>1, <2>2, HoldPartsNow, HoldPartsNext
          DEF Moves, Moved, HoldParts, Budget
<1>9. QueueInv' /\ SelectedCanPay'
  BY <1>1, <1>2, <1>3, QueuesKept, NoNewPanic DEF Same, OwnType
<1> QED BY <1>3, <1>5, <1>6, <1>7, <1>8, <1>9, MovesAll, StepSound

\* The release of payload from the usage keeps the invariant.
LEMMA ReleasePayloadStep ==
  ASSUME SessionInv, NEW t \in Torrent, ReleasePayload(t)
  PROVE  SessionInv'
<1>1. /\ OwnType /\ session \in [Budget -> Nat] /\ UsageExact(t) /\ Quiet(t)
      /\ heldRequests[t] \in Nat /\ heldPieces[t] \in Nat /\ heldPayload[t] \in Nat
      /\ BlockBytes[t] \in Nat \ {0} /\ PieceBytes[t] \in Nat \ {0}
  BY OwnFacts
<1>2. /\ handle[t] = "live" /\ buffer[t] = "idle" /\ heldPayload[t] > 0
      /\ buffer' = [buffer EXCEPT ![t] = "returned"]
      /\ usage' = [usage EXCEPT ![t]["payload"] = @ - BlockBytes[t]]
      /\ heldPayload' = [heldPayload EXCEPT ![t] = @ - 1]
      /\ request' = request /\ piece' = piece
      /\ UNCHANGED <<handle, wants, step, heldRequests, heldPieces, session>>
  BY DEF ReleasePayload, admission, held
<1>3. /\ usage'[t]["payload"] = usage[t]["payload"] - BlockBytes[t]
      /\ usage'[t]["request"] = usage[t]["request"] /\ usage'[t]["pieces"] = usage[t]["pieces"]
      /\ usage'[t]["pieceBytes"] = usage[t]["pieceBytes"]
      /\ heldPayload'[t] = heldPayload[t] - 1
      /\ buffer'[t] = "returned"
      /\ \A u \in Torrent \ {t} : Same(u)
  BY <1>1, <1>2 DEF OwnType, Same, Budget
<1>4. /\ (heldPayload[t] - 1) * BlockBytes[t] = heldPayload[t] * BlockBytes[t] - BlockBytes[t]
      /\ heldPayload[t] * BlockBytes[t] \in Nat /\ heldPayload[t] * BlockBytes[t] >= BlockBytes[t]
  BY <1>1, <1>2, Times
<1>5. UsageExact(t)' /\ Quiet(t)'
  BY <1>1, <1>2, <1>3, <1>4 DEF UsageExact, Quiet
<1>6. usage[t]["payload"] - BlockBytes[t] \in Nat
  BY <1>1, <1>2, <1>4 DEF UsageExact
<1>7. OwnType'
  BY <1>1, <1>2, <1>3, <1>4, <1>6 DEF OwnType, Steps, Budget
<1>8. session' = [b \in Budget |-> session'[b]]
  BY <1>1, <1>2
<1>9. Moves(t, 0, 0, 0, 0)
  <2>1. /\ session'["request"] = session["request"]
        /\ session'["payload"] = session["payload"]
        /\ session'["pieceBytes"] = session["pieceBytes"]
        /\ session'["pieces"] = session["pieces"]
    BY <1>1, <1>2 DEF Budget
  <2>2. \A b \in Budget : session[b] \in Nat /\ HoldOf(t, b) \in Nat /\ usage[t][b] \in Nat
    BY <1>1, HoldCounted DEF OwnType
  <2> QED BY <1>1, <1>2, <1>3, <2>1, <2>2, HoldPartsNow, HoldPartsNext
          DEF Moves, Moved, HoldParts, Budget
<1>10. QueueInv' /\ SelectedCanPay'
  BY <1>1, <1>2, <1>3, QueuesKept, NoNewPanic DEF Same, OwnType
<1> QED BY <1>3, <1>5, <1>7, <1>8, <1>9, <1>10, MovesAll, StepSound

\* The return of payload to the session keeps the invariant.
LEMMA ReturnPayloadStep ==
  ASSUME SessionInv, NEW t \in Torrent, ReturnPayload(t)
  PROVE  SessionInv'
<1>1. /\ OwnType /\ session \in [Budget -> Nat] /\ UsageExact(t) /\ Quiet(t)
      /\ heldRequests[t] \in Nat /\ heldPieces[t] \in Nat /\ heldPayload[t] \in Nat
      /\ BlockBytes[t] \in Nat \ {0} /\ PieceBytes[t] \in Nat \ {0}
  BY OwnFacts
<1>2. /\ buffer[t] = "returned"
      /\ buffer' = [buffer EXCEPT ![t] = "idle"]
      /\ session' = [session EXCEPT !["payload"] = @ - BlockBytes[t]]
      /\ request' = request /\ piece' = piece
      /\ UNCHANGED <<usage, handle, wants, step, heldRequests, heldPieces, heldPayload>>
  BY DEF ReturnPayload, admission, held
<1>3. /\ buffer'[t] = "idle"
      /\ \A u \in Torrent \ {t} : Same(u)
  BY <1>1, <1>2 DEF OwnType, Same, Budget
<1>4. UsageExact(t)' /\ Quiet(t)'
  BY <1>1, <1>2, <1>3 DEF UsageExact, Quiet
<1>5. OwnType'
  BY <1>1, <1>2, <1>3 DEF OwnType, Steps, Budget
<1>6. session' = [b \in Budget |-> session'[b]]
  BY <1>1, <1>2
<1>7. Moves(t, 0, 0 - BlockBytes[t], 0, 0)
  <2>1. /\ session'["request"] = session["request"]
        /\ session'["payload"] = session["payload"] - BlockBytes[t]
        /\ session'["pieceBytes"] = session["pieceBytes"]
        /\ session'["pieces"] = session["pieces"]
    BY <1>1, <1>2 DEF Budget
  <2>2. \A b \in Budget : session[b] \in Nat /\ HoldOf(t, b) \in Nat /\ usage[t][b] \in Nat
    BY <1>1, HoldCounted DEF OwnType
  <2> QED BY <1>1, <1>2, <1>3, <2>1, <2>2, HoldPartsNow, HoldPartsNext
          DEF Moves, Moved, HoldParts, Budget
<1>8. QueueInv' /\ SelectedCanPay'
  BY <1>1, <1>2, <1>3, QueuesKept, NoNewPanic DEF Same, OwnType
<1> QED BY <1>3, <1>4, <1>5, <1>6, <1>7, <1>8, MovesAll, StepSound

\* ChargeRequest, for a block of an active piece.
LEMMA ChargeOnlyStep ==
  ASSUME SessionInv, NEW t \in Torrent, ChargeRequest(t), step[t] = "requestTaken"
  PROVE  SessionInv'
<1>1. /\ OwnType /\ session \in [Budget -> Nat] /\ UsageExact(t) /\ Quiet(t)
      /\ heldRequests[t] \in Nat /\ heldPieces[t] \in Nat /\ heldPayload[t] \in Nat
      /\ BlockBytes[t] \in Nat \ {0} /\ PieceBytes[t] \in Nat \ {0}
  BY OwnFacts
<1>2. /\ step[t] = "requestTaken"
      /\ usage' = [usage EXCEPT ![t]["request"] = @ + BlockBytes[t]]
      /\ heldRequests' = [heldRequests EXCEPT ![t] = @ + 1]
      /\ step' = [step EXCEPT ![t] = "idle"]
      /\ request' = request /\ piece' = piece
      /\ UNCHANGED <<handle, wants, buffer, heldPieces, heldPayload, session>>
  BY DEF ChargeRequest, admission, held
<1>3. /\ usage'[t]["request"] = usage[t]["request"] + BlockBytes[t]
      /\ usage'[t]["payload"] = usage[t]["payload"] /\ usage'[t]["pieces"] = usage[t]["pieces"]
      /\ usage'[t]["pieceBytes"] = usage[t]["pieceBytes"]
      /\ heldRequests'[t] = heldRequests[t] + 1
      /\ step'[t] = "idle"
      /\ \A u \in Torrent \ {t} : Same(u)
  BY <1>1, <1>2 DEF OwnType, Same, Budget
<1>4. /\ (heldRequests[t] + 1) * BlockBytes[t] = heldRequests[t] * BlockBytes[t] + BlockBytes[t]
      /\ heldRequests[t] * BlockBytes[t] \in Nat
  BY <1>1, <1>2, Times
<1>5. UsageExact(t)' /\ Quiet(t)'
  BY <1>1, <1>2, <1>3, <1>4 DEF UsageExact, Quiet
<1>6. OwnType'
  BY <1>1, <1>2, <1>3, <1>4 DEF OwnType, Steps, Budget
<1>7. session' = [b \in Budget |-> session'[b]]
  BY <1>1, <1>2
<1>8. Moves(t, 0, 0, 0, 0)
  <2>1. /\ session'["request"] = session["request"]
        /\ session'["payload"] = session["payload"]
        /\ session'["pieceBytes"] = session["pieceBytes"]
        /\ session'["pieces"] = session["pieces"]
    BY <1>1, <1>2 DEF Budget
  <2>2. \A b \in Budget : session[b] \in Nat /\ HoldOf(t, b) \in Nat /\ usage[t][b] \in Nat
    BY <1>1, HoldCounted DEF OwnType
  <2> QED BY <1>1, <1>2, <1>3, <2>1, <2>2, HoldPartsNow, HoldPartsNext
          DEF Moves, Moved, HoldParts, Budget
<1>9. QueueInv' /\ SelectedCanPay'
  BY <1>1, <1>2, <1>3, QueuesKept, NoNewPanic DEF Same, OwnType
<1> QED BY <1>3, <1>5, <1>6, <1>7, <1>8, <1>9, MovesAll, StepSound

\* ChargeRequest, for the first block of a piece.
LEMMA ChargeFirstStep ==
  ASSUME SessionInv, NEW t \in Torrent, ChargeRequest(t), step[t] = "requestTakenFirst"
  PROVE  SessionInv'
<1>1. /\ OwnType /\ session \in [Budget -> Nat] /\ UsageExact(t) /\ Quiet(t)
      /\ heldRequests[t] \in Nat /\ heldPieces[t] \in Nat /\ heldPayload[t] \in Nat
      /\ BlockBytes[t] \in Nat \ {0} /\ PieceBytes[t] \in Nat \ {0}
  BY OwnFacts
<1>2. /\ step[t] = "requestTakenFirst"
      /\ usage' = [usage EXCEPT ![t]["request"] = @ + BlockBytes[t]]
      /\ step' = [step EXCEPT ![t] = "pieceTry"]
      /\ request' = request /\ piece' = piece
      /\ UNCHANGED <<handle, wants, buffer, heldRequests, heldPieces, heldPayload, session>>
  BY DEF ChargeRequest, admission, held
<1>3. /\ usage'[t]["request"] = usage[t]["request"] + BlockBytes[t]
      /\ usage'[t]["payload"] = usage[t]["payload"] /\ usage'[t]["pieces"] = usage[t]["pieces"]
      /\ usage'[t]["pieceBytes"] = usage[t]["pieceBytes"]
      /\ step'[t] = "pieceTry"
      /\ \A u \in Torrent \ {t} : Same(u)
  BY <1>1, <1>2 DEF OwnType, Same, Budget
<1>4. /\ heldRequests[t] * BlockBytes[t] \in Nat
  BY <1>1, <1>2, Times
<1>5. UsageExact(t)' /\ Quiet(t)'
  BY <1>1, <1>2, <1>3, <1>4 DEF UsageExact, Quiet
<1>6. OwnType'
  BY <1>1, <1>2, <1>3, <1>4 DEF OwnType, Steps, Budget
<1>7. session' = [b \in Budget |-> session'[b]]
  BY <1>1, <1>2
<1>8. Moves(t, 0, 0, 0, 0)
  <2>1. /\ session'["request"] = session["request"]
        /\ session'["payload"] = session["payload"]
        /\ session'["pieceBytes"] = session["pieceBytes"]
        /\ session'["pieces"] = session["pieces"]
    BY <1>1, <1>2 DEF Budget
  <2>2. \A b \in Budget : session[b] \in Nat /\ HoldOf(t, b) \in Nat /\ usage[t][b] \in Nat
    BY <1>1, HoldCounted DEF OwnType
  <2> QED BY <1>1, <1>2, <1>3, <2>1, <2>2, HoldPartsNow, HoldPartsNext
          DEF Moves, Moved, HoldParts, Budget
<1>9. QueueInv' /\ SelectedCanPay'
  BY <1>1, <1>2, <1>3, QueuesKept, NoNewPanic DEF Same, OwnType
<1> QED BY <1>3, <1>5, <1>6, <1>7, <1>8, <1>9, MovesAll, StepSound

\* CommitPayload, within the limit of the torrent.
LEMMA CommitKeptStep ==
  ASSUME SessionInv, NEW t \in Torrent, CommitPayload(t), heldPayload[t] < MaxLocal
  PROVE  SessionInv'
<1>1. /\ OwnType /\ session \in [Budget -> Nat] /\ UsageExact(t) /\ Quiet(t)
      /\ heldRequests[t] \in Nat /\ heldPieces[t] \in Nat /\ heldPayload[t] \in Nat
      /\ BlockBytes[t] \in Nat \ {0} /\ PieceBytes[t] \in Nat \ {0}
  BY OwnFacts
<1>2. /\ buffer[t] = "charged"
      /\ buffer' = [buffer EXCEPT ![t] = "idle"]
      /\ heldPayload' = [heldPayload EXCEPT ![t] = @ + 1]
      /\ request' = request /\ piece' = piece
      /\ UNCHANGED <<usage, handle, wants, step, heldRequests, heldPieces, session>>
  BY DEF CommitPayload, admission, held
<1>3. /\ heldPayload'[t] = heldPayload[t] + 1
      /\ buffer'[t] = "idle"
      /\ \A u \in Torrent \ {t} : Same(u)
  BY <1>1, <1>2 DEF OwnType, Same, Budget
<1>4. /\ (heldPayload[t] + 1) * BlockBytes[t] = heldPayload[t] * BlockBytes[t] + BlockBytes[t]
      /\ heldPayload[t] * BlockBytes[t] \in Nat
  BY <1>1, <1>2, Times
<1>5. UsageExact(t)' /\ Quiet(t)'
  BY <1>1, <1>2, <1>3, <1>4 DEF UsageExact, Quiet
<1>6. OwnType'
  BY <1>1, <1>2, <1>3, <1>4 DEF OwnType, Steps, Budget
<1>7. session' = [b \in Budget |-> session'[b]]
  BY <1>1, <1>2
<1>8. Moves(t, 0, 0, 0, 0)
  <2>1. /\ session'["request"] = session["request"]
        /\ session'["payload"] = session["payload"]
        /\ session'["pieceBytes"] = session["pieceBytes"]
        /\ session'["pieces"] = session["pieces"]
    BY <1>1, <1>2 DEF Budget
  <2>2. \A b \in Budget : session[b] \in Nat /\ HoldOf(t, b) \in Nat /\ usage[t][b] \in Nat
    BY <1>1, HoldCounted DEF OwnType
  <2> QED BY <1>1, <1>2, <1>3, <2>1, <2>2, HoldPartsNow, HoldPartsNext
          DEF Moves, Moved, HoldParts, Budget
<1>9. QueueInv' /\ SelectedCanPay'
  BY <1>1, <1>2, <1>3, QueuesKept, NoNewPanic DEF Same, OwnType
<1> QED BY <1>3, <1>5, <1>6, <1>7, <1>8, <1>9, MovesAll, StepSound

\* CommitPayload, above the limit of the torrent.
LEMMA CommitDroppedStep ==
  ASSUME SessionInv, NEW t \in Torrent, CommitPayload(t), ~ (heldPayload[t] < MaxLocal)
  PROVE  SessionInv'
<1>1. /\ OwnType /\ session \in [Budget -> Nat] /\ UsageExact(t) /\ Quiet(t)
      /\ heldRequests[t] \in Nat /\ heldPieces[t] \in Nat /\ heldPayload[t] \in Nat
      /\ BlockBytes[t] \in Nat \ {0} /\ PieceBytes[t] \in Nat \ {0}
  BY OwnFacts
<1>2. /\ buffer[t] = "charged"
      /\ buffer' = [buffer EXCEPT ![t] = "returned"]
      /\ usage' = [usage EXCEPT ![t]["payload"] = @ - BlockBytes[t]]
      /\ request' = request /\ piece' = piece
      /\ UNCHANGED <<handle, wants, step, heldRequests, heldPieces, heldPayload, session>>
  BY DEF CommitPayload, admission, held
<1>3. /\ usage'[t]["payload"] = usage[t]["payload"] - BlockBytes[t]
      /\ usage'[t]["request"] = usage[t]["request"] /\ usage'[t]["pieces"] = usage[t]["pieces"]
      /\ usage'[t]["pieceBytes"] = usage[t]["pieceBytes"]
      /\ buffer'[t] = "returned"
      /\ \A u \in Torrent \ {t} : Same(u)
  BY <1>1, <1>2 DEF OwnType, Same, Budget
<1>4. /\ heldPayload[t] * BlockBytes[t] \in Nat
  BY <1>1, <1>2, Times
<1>5. UsageExact(t)' /\ Quiet(t)'
  BY <1>1, <1>2, <1>3, <1>4 DEF UsageExact, Quiet
<1>6. usage[t]["payload"] - BlockBytes[t] \in Nat
  BY <1>1, <1>2, <1>4 DEF UsageExact
<1>7. OwnType'
  BY <1>1, <1>2, <1>3, <1>4, <1>6 DEF OwnType, Steps, Budget
<1>8. session' = [b \in Budget |-> session'[b]]
  BY <1>1, <1>2
<1>9. Moves(t, 0, 0, 0, 0)
  <2>1. /\ session'["request"] = session["request"]
        /\ session'["payload"] = session["payload"]
        /\ session'["pieceBytes"] = session["pieceBytes"]
        /\ session'["pieces"] = session["pieces"]
    BY <1>1, <1>2 DEF Budget
  <2>2. \A b \in Budget : session[b] \in Nat /\ HoldOf(t, b) \in Nat /\ usage[t][b] \in Nat
    BY <1>1, HoldCounted DEF OwnType
  <2> QED BY <1>1, <1>2, <1>3, <2>1, <2>2, HoldPartsNow, HoldPartsNext
          DEF Moves, Moved, HoldParts, Budget
<1>10. QueueInv' /\ SelectedCanPay'
  BY <1>1, <1>2, <1>3, QueuesKept, NoNewPanic DEF Same, OwnType
<1> QED BY <1>3, <1>5, <1>7, <1>8, <1>9, <1>10, MovesAll, StepSound

\* The queues when torrent t has asked one of them.
LEMMA QueuesAsked ==
  ASSUME SessionInv, NEW t \in Torrent, handle[t] = "live", handle' = handle,
         Waiters(request', BlockBytes), ToSet(request'.queue) \subseteq ToSet(request.queue) \cup {t},
         Waiters(piece', PieceBytes), ToSet(piece'.queue) \subseteq ToSet(piece.queue) \cup {t}
  PROVE  QueueInv'
<1>1. Registered(request) /\ Registered(piece)
  BY DEF SessionInv, QueueInv
<1>2. Registered(request)' /\ Registered(piece)'
  BY <1>1 DEF Registered
<1>3. Waiters(request, BlockBytes)' /\ Waiters(piece, PieceBytes)'
  BY DEF Waiters
<1> QED BY <1>2, <1>3 DEF QueueInv

\* try_admit for a request keeps the invariant, its panic included.
LEMMA TryRequestStep ==
  ASSUME SessionInv, NEW t \in Torrent, TryRequest(t)
  PROVE  SessionInv'
<1> DEFINE fits == Fits("request", BlockBytes[t])
           ask == Admit(request, t, BlockBytes[t], fits)
<1>1. /\ OwnType /\ session \in [Budget -> Nat] /\ UsageExact(t) /\ Quiet(t)
      /\ heldRequests[t] \in Nat /\ heldPieces[t] \in Nat /\ heldPayload[t] \in Nat
      /\ BlockBytes[t] \in Nat \ {0} /\ QueueInv /\ SelectedCanPay
  BY OwnFacts
<1>2. /\ step[t] \in {"requestTry", "requestTryFirst"} /\ request' = ask.state
      /\ session' = IF ask.outcome = "refused" THEN session
                    ELSE [session EXCEPT !["request"] = @ + BlockBytes[t]]
      /\ step' = [step EXCEPT ![t] = CASE ask.outcome = "refused" -> "idle"
                                       [] ask.outcome = "panic" -> "requestPanic"
                                       [] ask.outcome = "granted" /\ @ = "requestTry" -> "requestTaken"
                                       [] OTHER -> "requestTakenFirst"]
      /\ UNCHANGED <<usage, piece, handle, wants, buffer, heldRequests, heldPieces, heldPayload>>
  BY DEF TryRequest, held
<1>3. /\ Waiters(ask.state, BlockBytes)
      /\ ToSet(ask.state.queue) \subseteq ToSet(request.queue) \cup {t}
      /\ ask.outcome \in {"refused", "granted", "panic"}
      /\ ask.outcome # "refused" => fits
      /\ OneLarge(BlockBytes) => ask.outcome # "panic"
  <2>1. fits \in BOOLEAN /\ Waiters(request, BlockBytes)
    BY <1>1 DEF Fits, QueueInv
  <2> HIDE DEF fits
  <2>2. PICK f \in BOOLEAN : f = fits
    BY <2>1
  <2> DEFINE it == Admit(request, t, BlockBytes[t], f)
  <2>3. /\ Waiters(it.state, BlockBytes)
        /\ ToSet(it.state.queue) \subseteq ToSet(request.queue) \cup {t}
        /\ it.outcome \in {"refused", "granted", "panic"}
        /\ it.outcome # "refused" => f
        /\ OneLarge(BlockBytes) => it.outcome # "panic"
    <3>1. BlockBytes \in [Torrent -> Nat \ {0}] /\ Waiters(request, BlockBytes)
      BY <2>1, Sizes
    <3>2. Waiters(it.state, BlockBytes) /\ ToSet(it.state.queue) \subseteq ToSet(request.queue) \cup {t}
      BY <3>1, AdmitFacts
    <3>3. it.outcome \in {"refused", "granted", "panic"}
      BY <3>1, AdmitFacts
    <3>4. it.outcome # "refused" => f
      BY <3>1, AdmitFacts
    <3>5. OneLarge(BlockBytes) => it.outcome # "panic"
      BY <3>1, AdmitFacts
    <3> QED BY <3>2, <3>3, <3>4, <3>5
  <2>4. it = ask
    BY <2>2, Zenon
  <2> HIDE DEF it, ask
  <2> QED BY <2>2, <2>3, <2>4
<1> HIDE DEF ask
<1>4. /\ ask.outcome = "refused" => step'[t] = "idle"
      /\ ask.outcome = "panic" => step'[t] = "requestPanic"
      /\ ask.outcome = "granted" => step'[t] \in {"requestTaken", "requestTakenFirst"}
      /\ \A u \in Torrent \ {t} : Same(u)
  BY <1>1, <1>2, <1>3 DEF OwnType, Same
<1>5. UsageExact(t)' /\ Quiet(t)' /\ handle[t] = "live"
  BY <1>1, <1>2, <1>3, <1>4 DEF UsageExact, Quiet
<1>6. OwnType'
  BY <1>1, <1>2, <1>3, <1>4 DEF OwnType, Steps
<1>7. session' = [b \in Budget |-> session'[b]]
  BY <1>1, <1>2
<1>8. \A b \in Budget : \E n : Moved(t, b, n)
  <2>1. \A b \in Budget : session[b] \in Nat /\ HoldOf(t, b) \in Nat /\ usage[t][b] \in Nat
    BY <1>1, HoldCounted DEF OwnType
  <2>2. CASE ask.outcome = "refused"
    <3>1. Moves(t, 0, 0, 0, 0)
      BY <1>1, <1>2, <1>4, <2>1, <2>2, HoldPartsNow, HoldPartsNext DEF Moves, Moved, HoldParts, Budget
    <3> QED BY <3>1, MovesAll
  <2>3. CASE ask.outcome # "refused"
    <3>1. /\ session'["request"] = session["request"] + BlockBytes[t]
          /\ session'["payload"] = session["payload"]
          /\ session'["pieceBytes"] = session["pieceBytes"]
          /\ session'["pieces"] = session["pieces"]
          /\ session["request"] + BlockBytes[t] <= Limit["request"]
      BY <1>1, <1>2, <1>3, <2>3 DEF Budget, Fits
    <3>2. step'[t] \in {"requestTaken", "requestTakenFirst", "requestPanic"}
      BY <1>3, <1>4, <2>3
    <3>3. Moves(t, BlockBytes[t], 0, 0, 0)
      BY <1>1, <1>2, <2>1, <3>1, <3>2, HoldPartsNow, HoldPartsNext DEF Moves, Moved, HoldParts, Budget
    <3> QED BY <3>3, MovesAll
  <2> QED BY <2>2, <2>3
<1>9. QueueInv'
  <2>1. Waiters(piece', PieceBytes)
    BY <1>1, <1>2 DEF QueueInv
  <2> QED BY <1>2, <1>3, <1>5, <2>1, QueuesAsked
<1>10. SelectedCanPay'
  BY <1>1, <1>3, <1>4 DEF SelectedCanPay, OneLarge, Same
<1> QED BY <1>4, <1>5, <1>6, <1>7, <1>8, <1>9, <1>10, StepSound

\* try_admit for a piece keeps the invariant, its panic included.
LEMMA TryPieceStep ==
  ASSUME SessionInv, NEW t \in Torrent, TryPiece(t)
  PROVE  SessionInv'
<1> DEFINE fits == Fits("pieceBytes", PieceBytes[t]) /\ session["pieces"] < MaxPieces
           ask == Admit(piece, t, PieceBytes[t], fits)
<1>1. /\ OwnType /\ session \in [Budget -> Nat] /\ UsageExact(t) /\ Quiet(t)
      /\ heldRequests[t] \in Nat /\ heldPieces[t] \in Nat /\ heldPayload[t] \in Nat
      /\ BlockBytes[t] \in Nat \ {0} /\ PieceBytes[t] \in Nat \ {0} /\ QueueInv /\ SelectedCanPay
  BY OwnFacts
<1>2. /\ step[t] = "pieceTry" /\ piece' = ask.state
      /\ UNCHANGED <<request, handle, wants, buffer, heldRequests, heldPieces, heldPayload>>
  BY DEF TryPiece, held
<1>3. /\ Waiters(ask.state, PieceBytes)
      /\ ToSet(ask.state.queue) \subseteq ToSet(piece.queue) \cup {t}
      /\ ask.outcome \in {"refused", "granted", "panic"}
      /\ ask.outcome # "refused" => fits
      /\ OneLarge(PieceBytes) => ask.outcome # "panic"
  <2>1. fits \in BOOLEAN /\ Waiters(piece, PieceBytes)
    BY <1>1 DEF Fits, QueueInv
  <2> HIDE DEF fits
  <2>2. PICK f \in BOOLEAN : f = fits
    BY <2>1
  <2> DEFINE it == Admit(piece, t, PieceBytes[t], f)
  <2>3. /\ Waiters(it.state, PieceBytes)
        /\ ToSet(it.state.queue) \subseteq ToSet(piece.queue) \cup {t}
        /\ it.outcome \in {"refused", "granted", "panic"}
        /\ it.outcome # "refused" => f
        /\ OneLarge(PieceBytes) => it.outcome # "panic"
    <3>1. PieceBytes \in [Torrent -> Nat \ {0}] /\ Waiters(piece, PieceBytes)
      BY <2>1, Sizes
    <3>2. Waiters(it.state, PieceBytes) /\ ToSet(it.state.queue) \subseteq ToSet(piece.queue) \cup {t}
      BY <3>1, AdmitFacts
    <3>3. it.outcome \in {"refused", "granted", "panic"}
      BY <3>1, AdmitFacts
    <3>4. it.outcome # "refused" => f
      BY <3>1, AdmitFacts
    <3>5. OneLarge(PieceBytes) => it.outcome # "panic"
      BY <3>1, AdmitFacts
    <3> QED BY <3>2, <3>3, <3>4, <3>5
  <2>4. it = ask
    BY <2>2, Zenon
  <2> HIDE DEF it, ask
  <2> QED BY <2>2, <2>3, <2>4
<1>4. CASE ask.outcome # "refused"
  <2>1. /\ session' = [session EXCEPT !["pieceBytes"] = @ + PieceBytes[t], !["pieces"] = @ + 1]
        /\ step' = [step EXCEPT ![t] = IF ask.outcome = "granted" THEN "pieceTaken" ELSE "piecePanic"]
        /\ usage' = usage
    BY <1>4 DEF TryPiece
  <2> HIDE DEF ask
  <2>2. /\ ask.outcome = "granted" => step'[t] = "pieceTaken"
        /\ ask.outcome = "panic" => step'[t] = "piecePanic"
        /\ step'[t] \in {"pieceTaken", "piecePanic"}
        /\ \A u \in Torrent \ {t} : Same(u)
    BY <1>1, <1>2, <1>3, <1>4, <2>1 DEF OwnType, Same
  <2>3. UsageExact(t)' /\ Quiet(t)' /\ handle[t] = "live"
    BY <1>1, <1>2, <2>1, <2>2 DEF UsageExact, Quiet
  <2>4. OwnType'
    BY <1>1, <1>2, <2>1, <2>2 DEF OwnType, Steps
  <2>5. session' = [b \in Budget |-> session'[b]]
    BY <1>1, <2>1
  <2>6. Moves(t, 0, 0, PieceBytes[t], 1)
    <3>1. \A b \in Budget : session[b] \in Nat /\ HoldOf(t, b) \in Nat /\ usage[t][b] \in Nat
      BY <1>1, HoldCounted DEF OwnType
    <3>2. /\ session'["request"] = session["request"] /\ session'["payload"] = session["payload"]
          /\ session'["pieceBytes"] = session["pieceBytes"] + PieceBytes[t]
          /\ session'["pieces"] = session["pieces"] + 1
      BY <1>1, <2>1 DEF Budget
    <3>3. /\ session["pieceBytes"] + PieceBytes[t] <= Limit["pieceBytes"]
          /\ session["pieces"] + 1 <= Limit["pieces"]
      <4>1. Limit["pieces"] = MaxPieces /\ MaxPieces \in Nat /\ session["pieces"] \in Nat
        BY <3>1, BudgetAssumption DEF Limit, Budget
      <4> QED BY <1>3, <1>4, <4>1 DEF Fits
    <3>4. HoldParts /\ HoldParts'
      BY HoldPartsNow, HoldPartsNext
    <3>5. Moved(t, "request", 0)
      BY <1>1, <1>2, <2>1, <2>2, <3>1, <3>2, <3>4 DEF Moved, HoldParts, Budget
    <3>6. Moved(t, "payload", 0)
      BY <1>1, <1>2, <2>1, <2>2, <3>1, <3>2, <3>4 DEF Moved, HoldParts, Budget
    <3>7. Moved(t, "pieceBytes", PieceBytes[t])
      BY <1>1, <1>2, <2>1, <2>2, <3>1, <3>2, <3>3, <3>4 DEF Moved, HoldParts, Budget
    <3>8. Moved(t, "pieces", 1)
      BY <1>1, <1>2, <2>1, <2>2, <3>1, <3>2, <3>3, <3>4 DEF Moved, HoldParts, Budget
    <3> QED BY <3>5, <3>6, <3>7, <3>8 DEF Moves
  <2>7. QueueInv'
    <3>1. Waiters(request', BlockBytes)
      BY <1>1, <1>2 DEF QueueInv
    <3> QED BY <1>2, <1>3, <2>3, <3>1, QueuesAsked
  <2>8. SelectedCanPay'
    BY <1>1, <1>3, <1>4, <2>2 DEF SelectedCanPay, OneLarge, Same
  <2> QED BY <2>2, <2>3, <2>4, <2>5, <2>6, <2>7, <2>8, MovesAll, StepSound
<1>5. CASE ask.outcome = "refused"
  <2>1. /\ session' = session /\ step' = [step EXCEPT ![t] = "requestReturned"]
        /\ usage' = [usage EXCEPT ![t]["request"] = @ - BlockBytes[t]]
    BY <1>5 DEF TryPiece
  <2> HIDE DEF ask
  <2>2. /\ usage'[t]["request"] = usage[t]["request"] - BlockBytes[t]
        /\ usage'[t]["payload"] = usage[t]["payload"] /\ usage'[t]["pieces"] = usage[t]["pieces"]
        /\ usage'[t]["pieceBytes"] = usage[t]["pieceBytes"]
        /\ step'[t] = "requestReturned" /\ \A u \in Torrent \ {t} : Same(u)
    BY <1>1, <1>2, <2>1 DEF OwnType, Same, Budget
  <2>3. heldRequests[t] * BlockBytes[t] \in Nat
    BY <1>1, Times
  <2>4. UsageExact(t)' /\ Quiet(t)' /\ handle[t] = "live"
    BY <1>1, <1>2, <2>1, <2>2, <2>3 DEF UsageExact, Quiet
  <2>5. usage[t]["request"] - BlockBytes[t] \in Nat
    BY <1>1, <1>2, <2>3 DEF UsageExact
  <2>6. OwnType'
    BY <1>1, <1>2, <2>1, <2>2, <2>5 DEF OwnType, Steps, Budget
  <2>7. session' = [b \in Budget |-> session'[b]]
    BY <1>1, <2>1
  <2>8. Moves(t, 0, 0, 0, 0)
    <3>1. \A b \in Budget : session[b] \in Nat /\ HoldOf(t, b) \in Nat /\ usage[t][b] \in Nat
      BY <1>1, HoldCounted DEF OwnType
    <3> QED BY <1>1, <1>2, <2>1, <2>2, <3>1, HoldPartsNow, HoldPartsNext
            DEF Moves, Moved, HoldParts, Budget
  <2>9. QueueInv'
    <3>1. Waiters(request', BlockBytes)
      BY <1>1, <1>2 DEF QueueInv
    <3> QED BY <1>2, <1>3, <2>4, <3>1, QueuesAsked
  <2>10. SelectedCanPay'
    BY <1>1, <2>2, NoNewPanic DEF Same
  <2> QED BY <2>2, <2>4, <2>6, <2>7, <2>8, <2>9, <2>10, MovesAll, StepSound
<1> QED BY <1>4, <1>5

\* Dropping a torrent's handle returns what it holds and keeps the invariant.
LEMMA DropCountersStep ==
  ASSUME SessionInv, NEW t \in Torrent, DropCounters(t)
  PROVE  SessionInv'
<1>1. /\ OwnType /\ session \in [Budget -> Nat] /\ UsageExact(t) /\ Quiet(t)
      /\ BlockBytes[t] \in Nat \ {0} /\ PieceBytes[t] \in Nat \ {0}
  BY OwnFacts
<1>2. /\ handle[t] = "live" /\ step[t] = "idle" /\ buffer[t] = "idle"
      /\ handle' = [handle EXCEPT ![t] = "dropping"]
      /\ session' = [b \in Budget |-> session[b] - usage[t][b]]
      /\ usage' = [usage EXCEPT ![t] = [b \in Budget |-> 0]] /\ wants' = wants \ {t}
      /\ heldRequests' = [heldRequests EXCEPT ![t] = 0]
      /\ heldPieces' = [heldPieces EXCEPT ![t] = 0]
      /\ heldPayload' = [heldPayload EXCEPT ![t] = 0]
      /\ request' = request /\ piece' = piece /\ step' = step /\ buffer' = buffer
  BY DEF DropCounters, admission
<1>3. /\ usage'[t] = [b \in Budget |-> 0] /\ handle'[t] = "dropping"
      /\ heldRequests'[t] = 0 /\ heldPieces'[t] = 0 /\ heldPayload'[t] = 0
      /\ \A u \in Torrent \ {t} : Same(u)
  BY <1>1, <1>2 DEF OwnType, Same
<1>4. /\ usage'[t]["request"] = 0 /\ usage'[t]["payload"] = 0
      /\ usage'[t]["pieceBytes"] = 0 /\ usage'[t]["pieces"] = 0
  BY <1>3 DEF Budget
<1>5. UsageExact(t)' /\ Quiet(t)'
  <2>1. 0 * BlockBytes[t] = 0 /\ 0 * PieceBytes[t] = 0
    BY <1>1
  <2> QED BY <1>1, <1>2, <1>3, <1>4, <2>1 DEF UsageExact, Quiet
<1>6. OwnType'
  BY <1>1, <1>2 DEF OwnType
<1>7. session' = [b \in Budget |-> session'[b]]
  BY <1>2
<1>8. Moves(t, 0 - usage[t]["request"], 0 - usage[t]["payload"],
               0 - usage[t]["pieceBytes"], 0 - usage[t]["pieces"])
  <2>1. \A b \in Budget : session[b] \in Nat /\ HoldOf(t, b) \in Nat /\ usage[t][b] \in Nat
    BY <1>1, HoldCounted DEF OwnType
  <2>2. /\ session'["request"] = session["request"] - usage[t]["request"]
        /\ session'["payload"] = session["payload"] - usage[t]["payload"]
        /\ session'["pieceBytes"] = session["pieceBytes"] - usage[t]["pieceBytes"]
        /\ session'["pieces"] = session["pieces"] - usage[t]["pieces"]
    BY <1>2 DEF Budget
  <2>3. HoldParts /\ HoldParts'
    BY HoldPartsNow, HoldPartsNext
  <2>4. step'[t] = "idle" /\ buffer'[t] = "idle" /\ step[t] = "idle" /\ buffer[t] = "idle"
    BY <1>2
  <2>5. /\ HoldOf(t, "request") = usage[t]["request"] /\ HoldOf(t, "payload") = usage[t]["payload"]
        /\ HoldOf(t, "pieceBytes") = usage[t]["pieceBytes"] /\ HoldOf(t, "pieces") = usage[t]["pieces"]
    BY <2>1, <2>3, <2>4 DEF HoldParts, Budget
  <2>6. /\ HoldOf(t, "request")' = 0 /\ HoldOf(t, "payload")' = 0
        /\ HoldOf(t, "pieceBytes")' = 0 /\ HoldOf(t, "pieces")' = 0
    BY <1>4, <2>3, <2>4 DEF HoldParts
  <2> QED BY <2>1, <2>2, <2>5, <2>6 DEF Moves, Moved, Budget
<1>9. QueueInv' /\ SelectedCanPay'
  BY <1>1, <1>2, <1>3, QueuesKept, NoNewPanic DEF Same, OwnType
<1> QED BY <1>3, <1>5, <1>6, <1>7, <1>8, <1>9, MovesAll, StepSound

\* Leaving the queues when the handle is dropped keeps the invariant.
LEMMA DropAdmissionStep ==
  ASSUME SessionInv, NEW t \in Torrent, DropAdmission(t)
  PROVE  SessionInv'
<1>1. /\ OwnType /\ session \in [Budget -> Nat] /\ UsageExact(t) /\ Quiet(t) /\ QueueInv
  BY OwnFacts
<1>2. /\ handle[t] = "dropping" /\ handle' = [handle EXCEPT ![t] = "gone"]
      /\ request' = Forget(request, t) /\ piece' = Forget(piece, t)
      /\ UNCHANGED <<session, usage, wants, step, buffer, heldRequests, heldPieces, heldPayload>>
  BY DEF DropAdmission, held
<1>3. handle'[t] = "gone" /\ \A u \in Torrent \ {t} : Same(u)
  BY <1>1, <1>2 DEF OwnType, Same
<1>4. UsageExact(t)' /\ Quiet(t)'
  BY <1>1, <1>2 DEF UsageExact, Quiet
<1>5. OwnType'
  BY <1>1, <1>2 DEF OwnType
<1>6. session' = [b \in Budget |-> session'[b]]
  BY <1>1, <1>2
<1>7. Moves(t, 0, 0, 0, 0)
  <2>1. \A b \in Budget : session[b] \in Nat /\ HoldOf(t, b) \in Nat
    BY HoldCounted
  <2> QED BY <1>2, <2>1, HoldPartsNow, HoldPartsNext DEF Moves, Moved, HoldParts, Budget
<1>8. QueueInv'
  <2>1. Waiters(request', BlockBytes) /\ ToSet(request'.queue) = ToSet(request.queue) \ {t}
    BY <1>1, <1>2, Sizes, ForgetFacts DEF QueueInv
  <2>2. Waiters(piece', PieceBytes) /\ ToSet(piece'.queue) = ToSet(piece.queue) \ {t}
    BY <1>1, <1>2, Sizes, ForgetFacts DEF QueueInv
  <2>3. Waiters(request, BlockBytes)' /\ Waiters(piece, PieceBytes)'
    BY <2>1, <2>2 DEF Waiters
  <2>4. ToSet(request.queue) \subseteq Torrent /\ ToSet(piece.queue) \subseteq Torrent
    BY <1>1, WaitersParts, QueuedType DEF QueueInv
  <2>5. Registered(request)' /\ Registered(piece)'
    BY <1>1, <1>3, <2>1, <2>2, <2>4 DEF QueueInv, Registered, Same
  <2> QED BY <2>3, <2>5 DEF QueueInv
<1>9. SelectedCanPay'
  BY <1>2, NoNewPanic
<1> QED BY <1>3, <1>4, <1>5, <1>6, <1>7, <1>8, <1>9, MovesAll, StepSound

-----------------------------------------------------------------------------
(* The theorems. *)

\* A session without torrents satisfies the invariant.
LEMMA SessionInit ==
  ASSUME Init
  PROVE  SessionInv
<1>1. OwnType /\ session \in [Budget -> Nat]
  BY DEF Init, OwnType, Steps
<1>2. \A t \in Torrent : UsageExact(t) /\ Quiet(t)
  <2> SUFFICES ASSUME NEW t \in Torrent PROVE UsageExact(t) /\ Quiet(t)
    OBVIOUS
  <2>1. 0 * BlockBytes[t] = 0 /\ 0 * PieceBytes[t] = 0 /\ BlockBytes[t] \in Nat
    BY Sizes
  <2>2. /\ usage[t]["request"] = 0 /\ usage[t]["payload"] = 0
        /\ usage[t]["pieceBytes"] = 0 /\ usage[t]["pieces"] = 0
    BY DEF Init, Budget
  <2>3. /\ step[t] = "idle" /\ buffer[t] = "idle" /\ heldRequests[t] = 0
        /\ heldPieces[t] = 0 /\ heldPayload[t] = 0
    BY DEF Init
  <2> QED BY <2>1, <2>2, <2>3 DEF UsageExact, Quiet
<1>3. BudgetsConserved
  <2> SUFFICES ASSUME NEW b \in Budget PROVE session[b] = Total(Holdings(b)) /\ session[b] <= Limit[b]
    BY ConservedNow DEF Conserved
  <2>1. \A t \in Torrent : HoldOf(t, b) = 0
    <3> SUFFICES ASSUME NEW t \in Torrent PROVE HoldOf(t, b) = 0
      OBVIOUS
    <3>1. usage[t][b] = 0 /\ step[t] = "idle" /\ buffer[t] = "idle"
      BY DEF Init
    <3>2. InFlight(t)[b] = 0
      BY <3>1 DEF InFlight
    <3> QED BY <3>1, <3>2 DEF HoldOf
  <2>2. \A t \in Torrent : Holdings(b)[t] \in Nat /\ Holdings(b)[t] = 0
    BY <2>1 DEF Holdings
  <2>3. Total(Holdings(b)) = 0
    BY <2>2, TotalNat
  <2>4. session[b] = 0 /\ Limit[b] \in Nat
    BY BudgetAssumption DEF Init, Limit
  <2> QED BY <2>3, <2>4
<1>4. QueueInv
  <2>1. /\ request = [queue |-> <<>>, costs |-> [t \in Torrent |-> 0], deficits |-> [t \in Torrent |-> 0]]
        /\ piece = request
    BY DEF Init, Nobody
  <2>2. /\ <<>> \in Seq(Torrent) /\ IsInjective(<<>>) /\ ToSet(<<>>) = {}
        /\ [t \in Torrent |-> 0] \in [Torrent -> Nat]
    BY DEF IsInjective, ToSet
  <2>3. ASSUME NEW size \in [Torrent -> Nat \ {0}] PROVE Waiters(request, size)
    <3>1. \A t \in Torrent : size[t] \in Nat
      OBVIOUS
    <3> QED BY <2>1, <2>2, <3>1, QuantumType DEF Waiters
  <2>4. Waiters(request, BlockBytes) /\ Waiters(piece, PieceBytes)
    BY <2>1, <2>3, Sizes
  <2> QED BY <2>1, <2>2, <2>4 DEF QueueInv, Registered
<1>5. SelectedCanPay
  BY DEF Init, SelectedCanPay, OneLarge
<1>6. Parts
  BY <1>1, <1>2, <1>3, <1>4, <1>5 DEF Parts
<1> QED BY <1>6, PartsNow

\* A step that changes nothing keeps the invariant.
LEMMA SessionStutter ==
  ASSUME SessionInv, UNCHANGED vars
  PROVE  SessionInv'
<1>1. \A u \in Torrent : Same(u)
  BY DEF vars, Same
<1>2. \A u \in Torrent : UsageExact(u)' /\ Quiet(u)' /\ \A b \in Budget : HoldOf(u, b)' = HoldOf(u, b)
  BY <1>1, OthersKeep
<1>3. OwnType' /\ session' \in [Budget -> Nat]
  BY OwnTypeNow DEF SessionInv, HoldInv, OwnType, vars
<1>4. BudgetsConserved'
  <2>1. Conserved
    BY ConservedNow DEF SessionInv
  <2>2. \A b \in Budget : Holdings(b)' = Holdings(b)
    BY <1>2 DEF Holdings
  <2>3. \A b \in Budget : session'[b] = Total(Holdings(b)') /\ session'[b] <= Limit[b]
    BY <2>1, <2>2 DEF Conserved, vars
  <2>4. Conserved'
    BY <2>3 DEF Conserved, Limit
  <2> QED BY <2>4, ConservedNext
<1>5. QueueInv' /\ SelectedCanPay'
  BY QueuesKept, NoNewPanic DEF vars
<1>6. Parts'
  BY <1>2, <1>3, <1>4, <1>5 DEF Parts
<1> QED BY <1>6, PartsNext

\* Every step keeps the invariant.
LEMMA SessionNext ==
  ASSUME SessionInv, [Next]_vars
  PROVE  SessionInv'
<1>1. CASE UNCHANGED vars
  BY <1>1, SessionStutter
<1>2. CASE Over
  BY <1>2, SessionStutter DEF Over
<1>3. ASSUME NEW t \in Torrent, Attempt(t) PROVE SessionInv'
  BY <1>3, CheckRequestStep DEF Attempt
<1>4. ASSUME NEW t \in Torrent, Finish(t) PROVE SessionInv'
  <2>1. CASE TryRequest(t)
    BY <2>1, TryRequestStep
  <2>2. CASE ChargeRequest(t)
    <3>1. step[t] \in {"requestTaken", "requestTakenFirst"}
      BY <2>2 DEF ChargeRequest
    <3> QED BY <2>2, <3>1, ChargeOnlyStep, ChargeFirstStep
  <2>3. CASE TryPiece(t)
    BY <2>3, TryPieceStep
  <2>4. CASE ChargePiece(t)
    BY <2>4, ChargePieceStep
  <2>5. CASE ReturnRequest(t)
    BY <2>5, ReturnRequestStep
  <2>6. CASE ReturnPieceBytes(t)
    BY <2>6, ReturnPieceBytesStep
  <2>7. CASE ReturnPiece(t)
    BY <2>7, ReturnPieceStep
  <2>8. CASE DropAdmission(t)
    BY <2>8, DropAdmissionStep
  <2> QED BY <1>4, <2>1, <2>2, <2>3, <2>4, <2>5, <2>6, <2>7, <2>8 DEF Finish
<1>5. ASSUME NEW t \in Torrent,
             \/ ReservePayload(t) \/ ChargePayload(t) \/ CommitPayload(t)
             \/ ReleasePayload(t) \/ ReturnPayload(t)
      PROVE  SessionInv'
  <2>1. CASE ReservePayload(t)
    BY <2>1, ReservePayloadStep
  <2>2. CASE ChargePayload(t)
    BY <2>2, ChargePayloadStep
  <2>3. CASE CommitPayload(t)
    BY <2>3, CommitKeptStep, CommitDroppedStep
  <2>4. CASE ReleasePayload(t)
    BY <2>4, ReleasePayloadStep
  <2>5. CASE ReturnPayload(t)
    BY <2>5, ReturnPayloadStep
  <2> QED BY <1>5, <2>1, <2>2, <2>3, <2>4, <2>5
<1>6. ASSUME NEW t \in Torrent,
             \/ Register(t) \/ FindWork(t) \/ LoseWork(t)
             \/ ReleaseRequest(t) \/ ReleasePiece(t) \/ DropCounters(t)
      PROVE  SessionInv'
  <2>1. CASE Register(t)
    BY <2>1, RegisterStep
  <2>2. CASE FindWork(t)
    BY <2>2, FindWorkStep
  <2>3. CASE LoseWork(t)
    BY <2>3, LoseWorkStep
  <2>4. CASE ReleaseRequest(t)
    BY <2>4, ReleaseRequestStep
  <2>5. CASE ReleasePiece(t)
    BY <2>5, ReleasePieceStep
  <2>6. CASE DropCounters(t)
    BY <2>6, DropCountersStep
  <2> QED BY <1>6, <2>1, <2>2, <2>3, <2>4, <2>5, <2>6
<1> QED BY <1>1, <1>2, <1>3, <1>4, <1>5, <1>6 DEF Next

\* The inductive invariant of the session budgets and admission queues holds.
THEOREM SessionInvHolds == Spec => []SessionInv
<1>1. Init => SessionInv
  BY SessionInit
<1>2. SessionInv /\ [Next]_vars => SessionInv'
  BY SessionNext
<1> QED BY <1>1, <1>2, PTL DEF Spec

\* Everything is returned when no torrent is registered.
LEMMA NothingLeft ==
  ASSUME SessionInv
  PROVE  AllReturned
<1> SUFFICES ASSUME \A t \in Torrent : handle[t] \in {"new", "gone"}
             PROVE  session = [b \in Budget |-> 0] /\ request.queue = <<>> /\ piece.queue = <<>>
  BY DEF AllReturned
<1>1. OwnType /\ session \in [Budget -> Nat] /\ QueueInv
  BY OwnTypeNow DEF SessionInv, HoldInv
<1>2. \A t \in Torrent : \A b \in Budget : HoldOf(t, b) = 0
  <2> SUFFICES ASSUME NEW t \in Torrent PROVE \A b \in Budget : HoldOf(t, b) = 0
    OBVIOUS
  <2>1. UsageExact(t) /\ Quiet(t) /\ BlockBytes[t] \in Nat /\ PieceBytes[t] \in Nat
    BY OwnFacts
  <2>2. /\ step[t] = "idle" /\ buffer[t] = "idle"
        /\ heldRequests[t] = 0 /\ heldPieces[t] = 0 /\ heldPayload[t] = 0
    BY <2>1 DEF Quiet
  <2>3. 0 * BlockBytes[t] = 0 /\ 0 * PieceBytes[t] = 0
    BY <2>1
  <2>4. /\ usage[t]["request"] = 0 /\ usage[t]["payload"] = 0
        /\ usage[t]["pieceBytes"] = 0 /\ usage[t]["pieces"] = 0
    BY <2>1, <2>2, <2>3 DEF UsageExact
  <2> QED BY <2>2, <2>4, HoldPartsNow DEF HoldParts, Budget
<1>3. \A b \in Budget : session[b] = 0
  <2> SUFFICES ASSUME NEW b \in Budget PROVE session[b] = 0
    OBVIOUS
  <2>1. \A t \in Torrent : Holdings(b)[t] \in Nat /\ Holdings(b)[t] = 0
    BY <1>2 DEF Holdings
  <2>2. Total(Holdings(b)) = 0
    BY <2>1, TotalNat
  <2> QED BY <2>2, ConservedNow DEF SessionInv, Conserved
<1>4. session = [b \in Budget |-> 0]
  BY <1>1, <1>3
<1>5. ASSUME NEW q \in Seq(Torrent), \A t \in ToSet(q) : handle[t] \in {"live", "dropping"}
      PROVE  q = <<>>
  <2> SUFFICES ASSUME q # <<>> PROVE FALSE
    OBVIOUS
  <2>1. q[1] \in ToSet(q) /\ q[1] \in Torrent
    BY QueuedType
  <2> QED BY <1>5, <2>1
<1>6. request.queue \in Seq(Torrent) /\ piece.queue \in Seq(Torrent)
  BY <1>1, WaitersParts DEF QueueInv
<1> QED BY <1>1, <1>4, <1>5, <1>6 DEF QueueInv, Registered

\* The queues hold who waits, and no credit exceeds the cost of a torrent by more than a
\* quantum.
LEMMA QueuesAreSound ==
  ASSUME SessionInv
  PROVE  QueuesSound
<1> SUFFICES ASSUME NEW s \in {request, piece}
             PROVE  /\ IsInjective(s.queue)
                    /\ \A t \in Torrent :
                         /\ t \in ToSet(s.queue) <=> s.costs[t] # 0
                         /\ t \in ToSet(s.queue) => handle[t] \in {"live", "dropping"}
                         /\ s.deficits[t] <= Max({BlockBytes[t], PieceBytes[t]}) + Quantum
  BY DEF QueuesSound
<1>1. PICK size \in {BlockBytes, PieceBytes} : Waiters(s, size) /\ Registered(s)
  BY DEF SessionInv, QueueInv
<1>2. IsInjective(s.queue) /\ \A t \in Torrent : (t \in ToSet(s.queue) <=> s.costs[t] # 0)
                                                 /\ s.deficits[t] \in Nat
                                                 /\ s.deficits[t] <= size[t] + Quantum
  BY <1>1, WaitersParts
<1>3. \A t \in Torrent : size[t] <= Max({BlockBytes[t], PieceBytes[t]})
                         /\ size[t] \in Nat /\ Max({BlockBytes[t], PieceBytes[t]}) \in Nat
  <2> SUFFICES ASSUME NEW t \in Torrent
               PROVE  size[t] <= Max({BlockBytes[t], PieceBytes[t]})
                      /\ size[t] \in Nat /\ Max({BlockBytes[t], PieceBytes[t]}) \in Nat
    OBVIOUS
  <2>1. BlockBytes[t] \in Nat /\ PieceBytes[t] \in Nat
    BY Sizes
  <2>2. Max({BlockBytes[t], PieceBytes[t]})
          = IF BlockBytes[t] >= PieceBytes[t] THEN BlockBytes[t] ELSE PieceBytes[t]
    BY <2>1, MaxTwo
  <2> QED BY <1>1, <2>1, <2>2
<1>4. \A t \in Torrent : s.deficits[t] <= Max({BlockBytes[t], PieceBytes[t]}) + Quantum
  BY <1>2, <1>3, QuantumType
<1> QED BY <1>1, <1>2, <1>4 DEF Registered

\* However the reservations, releases and drops of the torrents interleave, the session
\* counters are what the torrents hold, stay under their limits, and are all returned when
\* the last registration has ended (session_resources.rs).
THEOREM BudgetsAlwaysSound == Spec => []BudgetsSound
<1>1. SessionInv => BudgetsSound
  BY NothingLeft DEF SessionInv, HoldInv, BudgetsSound
<1> QED BY <1>1, SessionInvHolds, PTL

\* The admission queues hold who is waiting and nobody else, once, with a bounded credit,
\* and a selected waiter can pay where no cost exceeds a quantum (FairTryAdmission).
THEOREM AdmissionAlwaysSound == Spec => []AdmissionSound
<1>1. SessionInv => AdmissionSound
  BY QueuesAreSound DEF SessionInv, AdmissionSound
<1> QED BY <1>1, SessionInvHolds, PTL
-----------------------------------------------------------------------------
(* StorageExecution: who is selected. *)

\* FirstWaiter, SelectedRoot and SelectedWaiter as functions of the queue and of the root
\* and the torrents that were served last.
FirstIn(q, jobs) ==
  LET found == {i \in DOMAIN q : q[i] \in jobs}
  IN IF found = {} THEN None ELSE q[Min(found)]
RootFor(q, root) ==
  LET other == FirstIn(q, {j \in Job : RootOf[j] # root})
  IN RootOf[IF other = None THEN Head(q) ELSE other]
AtRoot(r) == {j \in Job : RootOf[j] = r}
NextAt(r, torrent) == {j \in Job : RootOf[j] = r /\ TorrentOf[j] # torrent[r]}
WaiterFor(q, root, torrent) ==
  LET r == RootFor(q, root)
      other == FirstIn(q, NextAt(r, torrent))
  IN IF other # None THEN other ELSE FirstIn(q, AtRoot(r))

\* selected_waiter looks at the queue and at who was served last only.
LEMMA SelectionIsFunction ==
  /\ SelectedWaiter = WaiterFor(waiters, lastRoot, lastTorrent)
  /\ SelectedWaiter' = WaiterFor(waiters', lastRoot', lastTorrent')
BY DEF SelectedWaiter, SelectedRoot, FirstWaiter, WaiterFor, RootFor, FirstIn, AtRoot, NextAt

\* The first waiter among jobs is a waiter among jobs, if there is one.
LEMMA FirstInFacts ==
  ASSUME NEW q \in Seq(Job), NEW jobs
  PROVE  /\ (\E w \in ToSet(q) : w \in jobs) =>
               FirstIn(q, jobs) \in jobs /\ FirstIn(q, jobs) \in ToSet(q)
         /\ (\A w \in ToSet(q) : w \notin jobs) => FirstIn(q, jobs) = None
<1> DEFINE found == {i \in DOMAIN q : q[i] \in jobs}
<1>1. FirstIn(q, jobs) = IF found = {} THEN None ELSE q[Min(found)]
  BY DEF FirstIn
<1>2. found \in SUBSET Nat /\ found \subseteq DOMAIN q
  OBVIOUS
<1>3. found # {} => Min(found) \in found
  <2> HIDE DEF found
  <2> QED BY <1>2, LeastIndex
<1>4. (\E w \in ToSet(q) : w \in jobs) <=> found # {}
  BY DEF ToSet
<1>5. \A i \in found : q[i] \in jobs /\ q[i] \in ToSet(q)
  BY DEF ToSet
<1> HIDE DEF found
<1> QED BY <1>1, <1>3, <1>4, <1>5

\* Somebody waits at the selected root.
LEMMA RootHasWaiter ==
  ASSUME NEW q \in Seq(Job), q # <<>>, NEW root
  PROVE  \E w \in ToSet(q) : RootOf[w] = RootFor(q, root)
<1> DEFINE jobs == {j \in Job : RootOf[j] # root}
           other == FirstIn(q, jobs)
<1>1. RootFor(q, root) = RootOf[IF other = None THEN Head(q) ELSE other]
  BY DEF RootFor
<1>2. other # None => other \in ToSet(q)
  BY FirstInFacts
<1>3. Head(q) \in ToSet(q)
  BY DEF ToSet
<1> HIDE DEF other
<1> QED BY <1>1, <1>2, <1>3

\* While somebody waits, the selected waiter is one of the waiters.
LEMMA SelectedWaits ==
  ASSUME NEW q \in Seq(Job), q # <<>>, NEW root, NEW torrent
  PROVE  WaiterFor(q, root, torrent) \in ToSet(q)
<1> DEFINE r == RootFor(q, root)
           other == FirstIn(q, NextAt(r, torrent))
<1>1. WaiterFor(q, root, torrent) = IF other # None THEN other ELSE FirstIn(q, AtRoot(r))
  BY DEF WaiterFor
<1>2. \E w \in ToSet(q) : w \in AtRoot(r)
  BY RootHasWaiter DEF ToSet, AtRoot
<1>3. other # None => other \in ToSet(q)
  BY FirstInFacts
<1>4. FirstIn(q, AtRoot(r)) \in ToSet(q)
  BY <1>2, FirstInFacts
<1> QED BY <1>1, <1>3, <1>4

\* A waiter that joins the queue is first only where nobody was.
LEMMA FirstInAppended ==
  ASSUME NEW q \in Seq(Job), NEW j \in Job, NEW jobs
  PROVE  /\ (\E w \in ToSet(q) : w \in jobs) =>
               FirstIn(Append(q, j), jobs) = FirstIn(q, jobs)
         /\ (\A w \in ToSet(q) : w \notin jobs) =>
               FirstIn(Append(q, j), jobs) = IF j \in jobs THEN j ELSE None
<1> DEFINE t == Append(q, j)
           found == {i \in DOMAIN q : q[i] \in jobs}
           now == {i \in DOMAIN t : t[i] \in jobs}
           n == Len(q) + 1
<1>1. /\ FirstIn(q, jobs) = IF found = {} THEN None ELSE q[Min(found)]
      /\ FirstIn(t, jobs) = IF now = {} THEN None ELSE t[Min(now)]
  BY DEF FirstIn
<1>2. /\ DOMAIN q = 1 .. Len(q) /\ DOMAIN t = 1 .. n /\ n \in Nat
      /\ Len(q) \in Nat /\ t[n] = j /\ \A i \in 1 .. Len(q) : t[i] = q[i]
  OBVIOUS
<1>3. now = found \cup (IF j \in jobs THEN {n} ELSE {})
  <2>1. \A i \in 1 .. n : i \in 1 .. Len(q) \/ i = n
    BY <1>2
  <2>2. n \notin 1 .. Len(q) /\ n \in 1 .. n /\ \A i \in 1 .. Len(q) : i \in 1 .. n
    BY <1>2
  <2> HIDE DEF t
  <2> QED BY <1>2, <2>1, <2>2
<1>4. found \in SUBSET Nat /\ now \in SUBSET Nat /\ \A i \in found : i \in 1 .. Len(q)
  BY <1>2
<1>5. (\E w \in ToSet(q) : w \in jobs) <=> found # {}
  BY DEF ToSet
<1> HIDE DEF found, now, t
<1>6. CASE found # {}
  <2>1. Min(found) \in found /\ \A y \in found : Min(found) <= y
    BY <1>4, <1>6, LeastIndex
  <2>2. Min(now) \in now /\ \A y \in now : Min(now) <= y
    BY <1>3, <1>4, <1>6, LeastIndex
  <2>3. Min(now) = Min(found)
    <3> DEFINE a == Min(now)
               b == Min(found)
    <3>1. a <= b /\ b \in 1 .. Len(q) /\ a \in Nat
      BY <1>3, <1>4, <2>1, <2>2
    <3>2. a \in found
      <4> HIDE DEF a, b
      <4>1. a # n
        BY <1>2, <3>1
      <4>2. a \in now
        BY <2>2 DEF a
      <4> QED BY <1>3, <4>1, <4>2
    <3>3. b <= a
      BY <2>1, <3>2
    <3> HIDE DEF a, b
    <3>4. a = b
      BY <3>1, <3>3
    <3> QED BY <3>4 DEF a, b
  <2> QED BY <1>1, <1>2, <1>3, <1>4, <1>5, <1>6, <2>1, <2>3 DEF t
<1>7. CASE found = {}
  <2>1. now = IF j \in jobs THEN {n} ELSE {}
    BY <1>3, <1>7
  <2>2. now # {} => Min(now) = n
    <3>1. now # {} => Min(now) \in now
      BY <1>4, LeastIndex
    <3> QED BY <2>1, <3>1
  <2> QED BY <1>1, <1>2, <1>5, <1>7, <2>1, <2>2 DEF t
<1> QED BY <1>6, <1>7

\* A waiter that joins the queue changes whose turn it is only in its own favour.
LEMMA SelectionAfterAppend ==
  ASSUME NEW q \in Seq(Job), q # <<>>, NEW j \in Job, NEW root, NEW torrent
  PROVE  WaiterFor(Append(q, j), root, torrent) \in {WaiterFor(q, root, torrent), j}
<1> DEFINE others == {i \in Job : RootOf[i] # root}
           t == Append(q, j)
           r == RootFor(q, root)
           rt == RootFor(t, root)
<1>1. /\ r = RootOf[IF FirstIn(q, others) = None THEN Head(q) ELSE FirstIn(q, others)]
      /\ rt = RootOf[IF FirstIn(t, others) = None THEN Head(t) ELSE FirstIn(t, others)]
  BY DEF RootFor
<1>2. /\ WaiterFor(q, root, torrent) = IF FirstIn(q, NextAt(r, torrent)) # None
                THEN FirstIn(q, NextAt(r, torrent)) ELSE FirstIn(q, AtRoot(r))
      /\ WaiterFor(t, root, torrent) = IF FirstIn(t, NextAt(rt, torrent)) # None
                THEN FirstIn(t, NextAt(rt, torrent)) ELSE FirstIn(t, AtRoot(rt))
  BY DEF WaiterFor
<1>3. Head(t) = Head(q) /\ Head(q) \in ToSet(q)
  BY DEF ToSet
<1>4. j # None /\ \A w \in ToSet(q) : w \in Job /\ w # None
  BY SlotAssumption DEF ToSet
<1>5. \A S : /\ (\E w \in ToSet(q) : w \in S) => FirstIn(t, S) = FirstIn(q, S)
             /\ (\A w \in ToSet(q) : w \notin S) =>
                   FirstIn(q, S) = None /\ FirstIn(t, S) = IF j \in S THEN j ELSE None
  BY FirstInAppended, FirstInFacts
<1> HIDE DEF t, r, rt
<1>6. CASE rt = r
  <2>1. \E w \in ToSet(q) : w \in AtRoot(r)
    BY <1>4, RootHasWaiter DEF AtRoot, r
  <2>2. FirstIn(t, AtRoot(r)) = FirstIn(q, AtRoot(r))
    BY <1>5, <2>1
  <2>3. FirstIn(t, NextAt(r, torrent)) \in {FirstIn(q, NextAt(r, torrent)), j}
    BY <1>5
  <2> QED BY <1>2, <1>4, <1>6, <2>2, <2>3 DEF t
<1>7. CASE rt # r
  <2>1. /\ \A w \in ToSet(q) : w \notin others
        /\ FirstIn(t, others) = j /\ j \in others
    <3> HIDE DEF others
    <3> QED BY <1>1, <1>3, <1>5, <1>7
  <2>2. rt = RootOf[j] /\ RootOf[j] # root
    BY <1>1, <1>4, <2>1
  <2>3. \A w \in ToSet(q) : RootOf[w] # RootOf[j]
    BY <1>4, <2>1, <2>2
  <2>4. j \in AtRoot(rt) /\ \A w \in ToSet(q) : w \notin AtRoot(rt) /\ w \notin NextAt(rt, torrent)
    BY <2>2, <2>3 DEF AtRoot, NextAt
  <2>5. FirstIn(t, AtRoot(rt)) = j /\ FirstIn(t, NextAt(rt, torrent)) \in {j, None}
    BY <1>5, <2>4
  <2> QED BY <1>2, <2>5 DEF t
<1> QED BY <1>6, <1>7

-----------------------------------------------------------------------------
(* The counters. *)

Running == {j \in Job : pc[j] \in {"granted", "holding"}}
Waiting == {j \in Job : pc[j] \in {"arm", "check", "await"}}
Of(S, r) == {j \in S : RootOf[j] = r}

\* SlotsExact in terms of the sets above.
LEMMA SlotsExactParts ==
  SlotsExact <=>
    /\ IsInjective(waiters) /\ ToSet(waiters) = Waiting
    /\ active = Cardinality(Running) /\ active <= Slots
    /\ \A r \in Roots : /\ rootActive[r] = Cardinality(Of(Running, r))
                        /\ rootQueued[r] = Cardinality(Of(Waiting, r))
BY DEF SlotsExact, Running, Waiting, Of

\* One job more or less, in all and at a root.
LEMMA CountOne ==
  ASSUME NEW A \in SUBSET Job, NEW j \in Job \ A
  PROVE  Cardinality(A) \in Nat /\ Cardinality(A \cup {j}) = Cardinality(A) + 1
<1>1. IsFiniteSet(A)
  BY FS_Subset, SlotAssumption
<1> QED BY <1>1, FS_CardinalityType, FS_AddElement

\* One job more counts at its root only.
LEMMA CountAt ==
  ASSUME NEW A \in SUBSET Job, NEW j \in Job \ A, NEW r
  PROVE  /\ Cardinality(Of(A, r)) \in Nat
         /\ Cardinality(Of(A \cup {j}, r)) = Cardinality(Of(A, r)) + IF r = RootOf[j] THEN 1 ELSE 0
<1>1. Of(A, r) \in SUBSET Job /\ j \notin Of(A, r)
  BY DEF Of
<1>2. Cardinality(Of(A, r)) \in Nat /\ Cardinality(Of(A, r) \cup {j}) = Cardinality(Of(A, r)) + 1
  BY <1>1, CountOne
<1>3. Of(A \cup {j}, r) = IF r = RootOf[j] THEN Of(A, r) \cup {j} ELSE Of(A, r)
  BY DEF Of
<1> QED BY <1>2, <1>3

\* f counts the jobs of A at every root.
CountsPerRoot(f, A) == f \in [Roots -> Nat] /\ \A r \in Roots : f[r] = Cardinality(Of(A, r))

\* A counter that goes up or down with a job's root still counts.
LEMMA CountUp ==
  ASSUME NEW A \in SUBSET Job, NEW j \in Job \ A, NEW f, CountsPerRoot(f, A)
  PROVE  CountsPerRoot([f EXCEPT ![RootOf[j]] = @ + 1], A \cup {j})
<1> DEFINE g == [f EXCEPT ![RootOf[j]] = @ + 1]
<1>1. f \in [Roots -> Nat] /\ RootOf[j] \in Roots
  BY DEF CountsPerRoot, Roots
<1>2. g \in [Roots -> Nat] /\ \A r \in Roots : g[r] = f[r] + IF r = RootOf[j] THEN 1 ELSE 0
  BY <1>1
<1>3. \A r \in Roots : g[r] = Cardinality(Of(A \cup {j}, r))
  <2> TAKE r \in Roots
  <2>1. f[r] = Cardinality(Of(A, r))
    BY DEF CountsPerRoot
  <2> QED BY <1>2, <2>1, CountAt
<1> QED BY <1>2, <1>3 DEF CountsPerRoot

\* One job less is one less at its root.
LEMMA CountDown ==
  ASSUME NEW A \in SUBSET Job, NEW j \in A, NEW f, CountsPerRoot(f, A)
  PROVE  CountsPerRoot([f EXCEPT ![RootOf[j]] = @ - 1], A \ {j})
<1> DEFINE g == [f EXCEPT ![RootOf[j]] = @ - 1]
           B == A \ {j}
<1>1. f \in [Roots -> Nat] /\ RootOf[j] \in Roots
  BY DEF CountsPerRoot, Roots
<1>2. \A r \in Roots : /\ f[r] = Cardinality(Of(B, r)) + IF r = RootOf[j] THEN 1 ELSE 0
                       /\ Cardinality(Of(B, r)) \in Nat
  <2> TAKE r \in Roots
  <2>1. f[r] = Cardinality(Of(B \cup {j}, r))
    <3>1. B \cup {j} = A
      OBVIOUS
    <3> QED BY <3>1 DEF CountsPerRoot
  <2>2. B \in SUBSET Job /\ j \in Job \ B
    OBVIOUS
  <2> HIDE DEF B
  <2> QED BY <2>1, <2>2, CountAt
<1> HIDE DEF B
<1>3. g \in [Roots -> Nat] /\ \A r \in Roots : g[r] = Cardinality(Of(B, r))
  BY <1>1, <1>2
<1> QED BY <1>3 DEF CountsPerRoot, B

\* One job fewer.
LEMMA CountLess ==
  ASSUME NEW A \in SUBSET Job, NEW j \in A
  PROVE  /\ Cardinality(A) \in Nat /\ Cardinality(A \ {j}) \in Nat
         /\ Cardinality(A \ {j}) = Cardinality(A) - 1
<1> DEFINE B == A \ {j}
<1>1. B \in SUBSET Job /\ j \in Job \ B /\ A = B \cup {j}
  OBVIOUS
<1> HIDE DEF B
<1>2. Cardinality(B) \in Nat /\ Cardinality(A) = Cardinality(B) + 1
  BY <1>1, CountOne
<1>3. Cardinality(B) = Cardinality(A) - 1 /\ Cardinality(A) \in Nat
  BY <1>2
<1> QED BY <1>2, <1>3 DEF B

\* The jobs that run and wait after the step of one job.
LEMMA SetsAfter ==
  ASSUME SlotTypeOK, NEW j \in Job, NEW x \in Phases, pc' = [pc EXCEPT ![j] = x]
  PROVE  /\ pc' \in [Job -> Phases]
         /\ x \in {"granted", "holding"} => Running' = Running \cup {j}
         /\ x \notin {"granted", "holding"} => Running' = Running \ {j}
         /\ x \in {"arm", "check", "await"} => Waiting' = Waiting \cup {j}
         /\ x \notin {"arm", "check", "await"} => Waiting' = Waiting \ {j}
         /\ (x \in {"granted", "holding"} <=> j \in Running) => Running' = Running
         /\ (x \in {"arm", "check", "await"} <=> j \in Waiting) => Waiting' = Waiting
<1>1. pc' \in [Job -> Phases] /\ pc'[j] = x /\ \A i \in Job : i # j => pc'[i] = pc[i]
  BY DEF SlotTypeOK
<1>2. /\ Running' = {i \in Job : pc'[i] \in {"granted", "holding"}}
      /\ Waiting' = {i \in Job : pc'[i] \in {"arm", "check", "await"}}
  BY DEF Running, Waiting
<1> QED BY <1>1, <1>2 DEF Running, Waiting

\* Running and waiting jobs are jobs.
LEMMA JobSets == Running \in SUBSET Job /\ Waiting \in SUBSET Job
BY DEF Running, Waiting

\* The state is sound when the queue and each counter are.
LEMMA SoundParts ==
  SlotsSound <=>
    /\ pc \in [Job -> Phases] /\ signalled \subseteq Job /\ waiters \in Seq(Job)
    /\ IsInjective(waiters) /\ ToSet(waiters) = Waiting
    /\ active \in Nat /\ active = Cardinality(Running) /\ active <= Slots
    /\ CountsPerRoot(rootActive, Running) /\ CountsPerRoot(rootQueued, Waiting)
    /\ lastRoot \in Roots \cup {None} /\ DOMAIN lastTorrent = Roots
BY DEF SlotsSound, SlotsExact, SlotTypeOK, Running, Waiting, Of, CountsPerRoot

\* The same of the next state.
LEMMA SoundPartsNext ==
  SlotsSound' <=>
    /\ pc' \in [Job -> Phases] /\ signalled' \subseteq Job /\ waiters' \in Seq(Job)
    /\ IsInjective(waiters') /\ ToSet(waiters') = Waiting'
    /\ active' \in Nat /\ active' = Cardinality(Running') /\ active' <= Slots
    /\ CountsPerRoot(rootActive', Running') /\ CountsPerRoot(rootQueued', Waiting')
    /\ lastRoot' \in Roots \cup {None} /\ DOMAIN lastTorrent' = Roots
BY DEF SlotsSound, SlotsExact, SlotTypeOK, Running, Waiting, Of, CountsPerRoot

\* Every step keeps the queue and the counters exact.
LEMMA SoundStep ==
  ASSUME SlotsSound, [SlotNext]_slotVars
  PROVE  SlotsSound'
<1>0. SlotTypeOK
  BY DEF SlotsSound
<1> USE SoundParts
<1>1. ASSUME NEW j \in Job, Enqueue(j)
      PROVE  SlotsSound'
  <2>1. j \notin Running /\ j \notin Waiting
    BY <1>1 DEF Enqueue, Running, Waiting
  <2>2. pc' = [pc EXCEPT ![j] = "arm"] /\ "arm" \in Phases
    BY <1>1 DEF Enqueue, Phases
  <2>3. Running' = Running /\ Waiting' = Waiting \cup {j} /\ pc' \in [Job -> Phases]
    BY <1>0, <2>1, <2>2, SetsAfter
  <2>4. /\ waiters' \in Seq(Job) /\ IsInjective(waiters')
        /\ ToSet(waiters') = ToSet(waiters) \cup {j}
    BY <1>1, <2>1, AppendFacts DEF Enqueue
  <2>5. CountsPerRoot(rootQueued', Waiting')
    BY <1>1, <2>1, <2>3, CountUp, JobSets DEF Enqueue
  <2> QED BY <1>1, <2>3, <2>4, <2>5, SoundPartsNext DEF Enqueue
<1>2. ASSUME NEW j \in Job, Arm(j) \/ Wake(j)
      PROVE  SlotsSound'
  <2>1. PICK x \in {"arm", "check"} : pc' = [pc EXCEPT ![j] = x]
    BY <1>2 DEF Arm, Wake
  <2>2. j \in Waiting /\ j \notin Running /\ x \in Phases
    BY <1>2 DEF Arm, Wake, Waiting, Running, Phases
  <2>3. Running' = Running /\ Waiting' = Waiting /\ pc' \in [Job -> Phases]
    BY <1>0, <2>1, <2>2, SetsAfter
  <2> QED BY <1>2, <2>3, SoundPartsNext DEF Arm, Wake
<1>3. ASSUME NEW j \in Job, Check(j)
      PROVE  SlotsSound'
  <2>1. j \in Waiting /\ j \notin Running /\ {"await", "granted"} \subseteq Phases
    BY <1>3 DEF Check, Waiting, Running, Phases
  <2>2. CASE active < Slots /\ SelectedWaiter = j
    <3>1. pc' = [pc EXCEPT ![j] = "granted"]
      BY <1>3, <2>2 DEF Check
    <3>2. Running' = Running \cup {j} /\ Waiting' = Waiting \ {j} /\ pc' \in [Job -> Phases]
      BY <1>0, <2>1, <3>1, SetsAfter
    <3>3. /\ waiters' \in Seq(Job) /\ IsInjective(waiters')
          /\ ToSet(waiters') = ToSet(waiters) \ {j}
      BY <1>3, <2>1, <2>2, RemoveFirstFacts DEF Check
    <3>4. CountsPerRoot(rootQueued', Waiting')
      BY <1>3, <2>1, <2>2, <3>2, CountDown, JobSets DEF Check
    <3>5. CountsPerRoot(rootActive', Running')
      BY <1>3, <2>1, <2>2, <3>2, CountUp, JobSets DEF Check
    <3>6. active' \in Nat /\ active' = Cardinality(Running') /\ active' <= Slots
      <4>1. Running \in SUBSET Job /\ j \in Job \ Running
        BY <2>1 DEF Running
      <4>2. Cardinality(Running \cup {j}) = Cardinality(Running) + 1
        BY <4>1, CountOne
      <4> QED BY <1>3, <2>2, <3>2, <4>2, SlotAssumption DEF Check
    <3>7. lastRoot' \in Roots /\ DOMAIN lastTorrent' = Roots
      BY <1>3, <2>2 DEF Check, Roots
    <3> QED BY <1>3, <2>2, <3>2, <3>3, <3>4, <3>5, <3>6, <3>7, SoundPartsNext DEF Check
  <2>3. CASE ~(active < Slots /\ SelectedWaiter = j)
    <3>1. pc' = [pc EXCEPT ![j] = "await"]
      BY <1>3, <2>3 DEF Check
    <3>2. Running' = Running /\ Waiting' = Waiting /\ pc' \in [Job -> Phases]
      BY <1>0, <2>1, <3>1, SetsAfter
    <3> QED BY <1>3, <2>3, <3>2, SoundPartsNext DEF Check
  <2> QED BY <2>2, <2>3
<1>4. ASSUME NEW j \in Job, Hold(j)
      PROVE  SlotsSound'
  <2>1. j \notin Waiting /\ j \in Running /\ "holding" \in Phases
    BY <1>4 DEF Hold, Waiting, Running, Phases
  <2>2. pc' = [pc EXCEPT ![j] = "holding"]
    BY <1>4 DEF Hold
  <2>3. Running' = Running /\ Waiting' = Waiting /\ pc' \in [Job -> Phases]
    BY <1>0, <2>1, <2>2, SetsAfter
  <2> QED BY <1>4, <2>3, SoundPartsNext DEF Hold, NotifyWaiters
<1>5. ASSUME NEW j \in Job, Notify(j)
      PROVE  SlotsSound'
  <2>1. PICK x \in {"idle", "gone"} : pc' = [pc EXCEPT ![j] = x]
    BY <1>0, <1>5 DEF Notify, SlotTypeOK
  <2>2. j \notin Waiting /\ j \notin Running /\ x \in Phases
    BY <1>5 DEF Notify, Waiting, Running, Phases
  <2>3. Running' = Running /\ Waiting' = Waiting /\ pc' \in [Job -> Phases]
    BY <1>0, <2>1, <2>2, SetsAfter
  <2> QED BY <1>5, <2>3, SoundPartsNext DEF Notify, NotifyWaiters
<1>6. ASSUME NEW j \in Job, Release(j)
      PROVE  SlotsSound'
  <2>1. j \in Running /\ j \notin Waiting /\ "released" \in Phases
    BY <1>6 DEF Release, Waiting, Running, Phases
  <2>2. pc' = [pc EXCEPT ![j] = "released"]
    BY <1>6 DEF Release
  <2>3. Running' = Running \ {j} /\ Waiting' = Waiting /\ pc' \in [Job -> Phases]
    <3>1. "released" \notin {"granted", "holding", "arm", "check", "await"}
      OBVIOUS
    <3>2. Running' = Running \ {j}
      BY <1>0, <2>1, <2>2, <3>1, SetsAfter
    <3>3. Waiting' = Waiting /\ pc' \in [Job -> Phases]
      BY <1>0, <2>1, <2>2, <3>1, SetsAfter
    <3> QED BY <3>2, <3>3
  <2>4. CountsPerRoot(rootActive', Running')
    BY <1>6, <2>1, <2>3, CountDown, JobSets DEF Release
  <2>5. active' \in Nat /\ active' = Cardinality(Running') /\ active' <= Slots
    <3>1. Running \in SUBSET Job
      BY DEF Running
    <3>2. Cardinality(Running') \in Nat /\ Cardinality(Running') = Cardinality(Running) - 1
      BY <2>1, <2>3, <3>1, CountLess
    <3> QED BY <1>6, <3>2, SlotAssumption DEF Release
  <2> QED BY <1>6, <2>3, <2>4, <2>5, SoundPartsNext DEF Release
<1>7. ASSUME NEW j \in Job, CancelWaiter(j)
      PROVE  SlotsSound'
  <2>1. j \in Waiting /\ j \notin Running /\ "cancelled" \in Phases
    BY <1>7 DEF CancelWaiter, Waiting, Running, Phases
  <2>2. pc' = [pc EXCEPT ![j] = "cancelled"]
    BY <1>7 DEF CancelWaiter
  <2>3. Running' = Running /\ Waiting' = Waiting \ {j} /\ pc' \in [Job -> Phases]
    BY <1>0, <2>1, <2>2, SetsAfter
  <2>4. /\ waiters' \in Seq(Job) /\ IsInjective(waiters')
        /\ ToSet(waiters') = ToSet(waiters) \ {j}
    BY <1>7, <2>1, RemoveFirstFacts DEF CancelWaiter
  <2>5. CountsPerRoot(rootQueued', Waiting')
    BY <1>7, <2>1, <2>3, CountDown, JobSets DEF CancelWaiter
  <2> QED BY <1>7, <2>3, <2>4, <2>5, SoundPartsNext DEF CancelWaiter
<1>8. CASE UNCHANGED slotVars
  <2>1. Running' = Running /\ Waiting' = Waiting
    BY <1>8 DEF slotVars, Running, Waiting
  <2> QED BY <1>8, <2>1, SoundPartsNext DEF slotVars
<1> QED BY <1>1, <1>2, <1>3, <1>4, <1>5, <1>6, <1>7, <1>8 DEF SlotNext, Run, SlotOver

\* Nobody waits and nothing runs at first.
LEMMA SoundInit ==
  ASSUME SlotInit
  PROVE  SlotsSound
<1>1. Running = {} /\ Waiting = {}
  BY DEF SlotInit, Running, Waiting
<1>2. \A r : Of({}, r) = {}
  BY DEF Of
<1>3. Cardinality({}) = 0
  BY FS_EmptySet, Zenon
<1>4. CountsPerRoot(rootActive, {}) /\ CountsPerRoot(rootQueued, {})
  BY <1>2, <1>3 DEF SlotInit, CountsPerRoot
<1>5. IsInjective(waiters) /\ ToSet(waiters) = {}
  BY DEF SlotInit, IsInjective, ToSet
<1>6. 0 <= Slots /\ pc \in [Job -> Phases]
  BY SlotAssumption DEF SlotInit, Phases
<1> QED BY <1>1, <1>3, <1>4, <1>5, <1>6, SoundParts DEF SlotInit

\* The authority's queue holds exactly the futures that wait, each once; `active` and the
\* per-root counters are the numbers of jobs that run and wait; and no more jobs run than
\* there are slots: whatever the order of acquire, the dropped waiters and the releases of
\* FairExecutionAuthority.
THEOREM SlotsAlwaysSound == SlotSpec => []SlotsSound
<1>1. SlotInit => SlotsSound
  BY SoundInit
<1>2. SlotsSound /\ [SlotNext]_slotVars => SlotsSound'
  BY SoundStep
<1> QED BY <1>1, <1>2, PTL DEF SlotSpec

-----------------------------------------------------------------------------
(* Wake-ups. *)

\* Once every future that exists has been notified, the selected waiter is awake.
LEMMA NotifiedAll ==
  ASSUME SlotsSound, SlotsSound', NotifyWaiters, NEW j \in Job, j \notin Waiting,
         \A i \in Job : i # j => pc'[i] = pc[i], UNCHANGED <<waiters, lastRoot, lastTorrent>>
  PROVE  NoLostWakeup'
<1> SUFFICES ASSUME waiters # <<>>
             PROVE  pc'[SelectedWaiter'] \in {"arm", "check"} \/ SelectedWaiter' \in signalled'
  BY DEF NoLostWakeup
<1>1. SelectedWaiter' = SelectedWaiter
  BY SelectionIsFunction
<1>2. SelectedWaiter \in Waiting
  BY SelectionIsFunction, SelectedWaits, SoundParts
<1>3. SelectedWaiter \in Job /\ pc'[SelectedWaiter] = pc[SelectedWaiter]
  BY <1>2, JobSets
<1>4. pc[SelectedWaiter] \in {"arm", "check", "await"}
  BY <1>2 DEF Waiting
<1>5. pc[SelectedWaiter] \in {"check", "await"} => SelectedWaiter \in signalled'
  BY <1>3 DEF NotifyWaiters
<1> QED BY <1>1, <1>3, <1>4, <1>5

\* Every step keeps a wake-up in reach of the waiter whose turn it is.
LEMMA WakeupStep ==
  ASSUME SlotsSound, SlotsSound', NoLostWakeup, [SlotNext]_slotVars
  PROVE  NoLostWakeup'
<1>0. /\ waiters \in Seq(Job) /\ ToSet(waiters) = Waiting /\ pc \in [Job -> Phases]
      /\ signalled \subseteq Job
  BY SoundParts
<1>1. waiters # <<>> => SelectedWaiter \in Job /\ pc[SelectedWaiter] \in {"arm", "check", "await"}
  <2>1. waiters # <<>> => SelectedWaiter \in Waiting
    BY <1>0, SelectionIsFunction, SelectedWaits
  <2> QED BY <2>1 DEF Waiting
<1>2. ASSUME NEW j \in Job, pc'[j] \in {"granted", "released", "cancelled"}
      PROVE  NoLostWakeup'
  BY <1>2 DEF NoLostWakeup
<1>3. ASSUME NEW j \in Job, Enqueue(j)
      PROVE  NoLostWakeup'
  <2>1. pc'[j] = "arm" /\ \A i \in Job : i # j => pc'[i] = pc[i]
    BY <1>0, <1>3 DEF Enqueue
  <2>2. pc[j] = "idle"
    BY <1>3 DEF Enqueue
  <2>3. CASE waiters = <<>>
    <3>1. waiters' = <<j>>
      BY <1>3, <2>3 DEF Enqueue
    <3>2. waiters' \in Seq(Job) /\ waiters' # <<>> /\ ToSet(waiters') = {j}
      BY <3>1 DEF ToSet
    <3>3. SelectedWaiter' = j
      BY <3>2, SelectionIsFunction, SelectedWaits
    <3> QED BY <2>1, <3>3 DEF NoLostWakeup
  <2>4. CASE waiters # <<>>
    <3>1. waiters' = Append(waiters, j) /\ UNCHANGED <<lastRoot, lastTorrent, active, signalled>>
      BY <1>3 DEF Enqueue
    <3>2. SelectedWaiter' \in {SelectedWaiter, j}
      BY <1>0, <2>4, <3>1, SelectionIsFunction, SelectionAfterAppend
    <3>3. CASE SelectedWaiter' = j
      BY <2>1, <3>3 DEF NoLostWakeup
    <3>4. CASE SelectedWaiter' = SelectedWaiter /\ SelectedWaiter # j
      BY <1>1, <2>1, <2>2, <2>4, <3>1, <3>4 DEF NoLostWakeup
    <3> QED BY <3>2, <3>3, <3>4
  <2> QED BY <2>3, <2>4
<1>4. ASSUME NEW j \in Job, Arm(j) \/ Wake(j)
      PROVE  NoLostWakeup'
  <2>1. /\ pc'[j] \in {"arm", "check"} /\ \A i \in Job : i # j => pc'[i] = pc[i]
        /\ pc[j] \in {"arm", "await"} /\ signalled \ {j} \subseteq signalled'
        /\ UNCHANGED <<waiters, lastRoot, lastTorrent, active>>
    BY <1>0, <1>4 DEF Arm, Wake
  <2>2. SelectedWaiter' = SelectedWaiter
    BY <2>1, SelectionIsFunction
  <2> QED BY <1>1, <2>1, <2>2 DEF NoLostWakeup
<1>5. ASSUME NEW j \in Job, Check(j)
      PROVE  NoLostWakeup'
  <2>1. CASE active < Slots /\ SelectedWaiter = j
    <3>1. pc'[j] = "granted"
      BY <1>0, <1>5, <2>1 DEF Check
    <3> QED BY <1>2, <3>1
  <2>2. CASE ~(active < Slots /\ SelectedWaiter = j)
    <3>1. /\ pc'[j] = "await" /\ \A i \in Job : i # j => pc'[i] = pc[i]
          /\ pc[j] = "check" /\ UNCHANGED <<waiters, lastRoot, lastTorrent, active, signalled>>
      BY <1>0, <1>5, <2>2 DEF Check
    <3>2. SelectedWaiter' = SelectedWaiter
      BY <3>1, SelectionIsFunction
    <3> QED BY <1>1, <2>2, <3>1, <3>2 DEF NoLostWakeup
  <2> QED BY <2>1, <2>2
<1>6. ASSUME NEW j \in Job, Hold(j) \/ Notify(j)
      PROVE  NoLostWakeup'
  <2>1. /\ NotifyWaiters /\ UNCHANGED <<waiters, lastRoot, lastTorrent>>
        /\ pc[j] \in {"granted", "released", "cancelled"}
    BY <1>6 DEF Hold, Notify
  <2>2. \A i \in Job : i # j => pc'[i] = pc[i]
    BY <1>0, <1>6 DEF Hold, Notify
  <2>3. j \notin Waiting
    BY <2>1 DEF Waiting
  <2> QED BY <2>1, <2>2, <2>3, NotifiedAll
<1>7. ASSUME NEW j \in Job, Release(j) \/ CancelWaiter(j)
      PROVE  NoLostWakeup'
  <2>1. pc'[j] \in {"released", "cancelled"}
    BY <1>0, <1>7 DEF Release, CancelWaiter
  <2> QED BY <1>2, <2>1
<1>8. CASE UNCHANGED slotVars
  <2>1. SelectedWaiter' = SelectedWaiter
    BY <1>8, SelectionIsFunction DEF slotVars
  <2> QED BY <1>8, <2>1 DEF slotVars, NoLostWakeup
<1> QED BY <1>3, <1>4, <1>5, <1>6, <1>7, <1>8 DEF SlotNext, Run, SlotOver

\* No wake-up is lost between the state of FairExecutionAuthority and its Notify: whenever a
\* slot is free and somebody waits, the waiter whose turn it is is awake or signalled, or a
\* grant, release or cancellation is about to notify.
THEOREM NoLostWakeupHolds == SlotSpec => []NoLostWakeup
<1>1. SlotInit => SlotsSound /\ NoLostWakeup
  BY SoundInit DEF SlotInit, NoLostWakeup
<1>2. SlotsSound /\ NoLostWakeup /\ [SlotNext]_slotVars => (SlotsSound /\ NoLostWakeup)'
  BY SoundStep, WakeupStep
<1> QED BY <1>1, <1>2, PTL DEF SlotSpec
=============================================================================
