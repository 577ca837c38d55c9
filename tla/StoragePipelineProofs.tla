----------------------- MODULE StoragePipelineProofs -----------------------
(***************************************************************************)
(* Proofs about StoragePipeline for every set of pieces, every number of   *)
(* blocks, job slots and batch size, and every limit: every command is in  *)
(* one place and counted, dropped completions included, and a failure is   *)
(* on its way to the driver when one was dropped; a drained pipeline is    *)
(* empty; a piece is hashed only once its blocks are on disk; and two      *)
(* local commands suffice.                                                 *)
(***************************************************************************)
EXTENDS StoragePipeline, FiniteSetTheorems, SequenceTheorems, WellFoundedInduction, TLAPS

-----------------------------------------------------------------------------
(* The inductive invariant. *)

Report == [command : Command, ok : BOOLEAN]
Intake == [pending : Seq(Command), commands : Seq(Command), jobs : Nat, resident : 0..Limit,
           pressured : BOOLEAN, error : {"none", "payload", "pending", "write"}]
Types == TypeOK /\ intake \in Intake /\ closed \in BOOLEAN /\ cancelled \in BOOLEAN

\* where the two tasks can be together
Control ==
  /\ intake.error # "none" => cancelled
  /\ cancelled => driver \in {"stopping", "stopped"}
  /\ task = "ended" => running = {}
  /\ driver = "stopped" => task = "ended"

\* the jobs under way, cancelled or not: a batch of writes or one hash of its piece, which
\* has its blocks
IsJob(j) ==
  /\ j \in Seq(Command) /\ j # <<>>
  /\ IsWrite(j[1]) => \A i \in DOMAIN j : IsWrite(j[i])
  /\ ~IsWrite(j[1]) => Len(j) = 1
HashJobs == JobsOf({"verify", "candidate"})
Running ==
  /\ IsFiniteSet(running) /\ \A j \in running : IsJob(j)
  /\ HashSeesWrites
  /\ \A i, j \in HashJobs : i[1].piece = j[1].piece => i = j
  /\ Cardinality(HashJobs) <= Hashers

\* Until it is cancelled or stopped, the pipeline keeps its books.
Active == driver # "stopped" /\ ~cancelled

WritesIn(S) == {c \in S : IsWrite(c)}
Books ==
  /\ Once /\ IsFiniteSet(InFlight) /\ Len(intake.commands) <= Limit
  /\ intake.jobs = Cardinality(InFlight) /\ intake.resident = Cardinality(WritesIn(InFlight))
  /\ \A c \in ToSet(writes) : IsWrite(c)
  /\ \A c \in ToSet(hashes) : ~IsWrite(c)
  /\ driver = "restarting" => InFlight = {}

\* the writes of piece p under way; the commands that have no report; a write that is
\* reported well is on disk
WritesOf(p) == {c \in InFlight : IsWrite(c) /\ c.piece = p}
Unreported == Place.pending \cup Place.commands \cup Place.writes \cup Place.hashes \cup Place.running
ReportsTrue(s) ==
  \A i \in DOMAIN s : IsWrite(s[i].command) /\ s[i].ok =>
    <<s[i].command.piece, s[i].command.block>> \in disk

\* what a command under way says about its piece and the disk
Told(c) ==
  /\ IsWrite(c) => piece[c.piece] = "wanted" /\ c.block \in 1..received[c.piece]
  /\ c.kind = "verify" => piece[c.piece] = "hashing" /\ c.block = 0
  /\ c.kind = "candidate" => piece[c.piece] = "checking" /\ c.block = 0

\* received blocks are stored and on disk, or on their way
Downloading(p) ==
  /\ stored[p] + Cardinality(WritesOf(p)) = received[p]
  /\ \A b \in 1..received[p] :
       <<p, b>> \in disk \/ \E c \in WritesOf(p) : c.block = b

\* a piece that waits for a hash has its command
Awaited(p) ==
  piece[p] \in {"hashing", "checking"} => \E c \in InFlight : ~IsWrite(c) /\ c.piece = p

Pieces ==
  /\ \A c \in InFlight : Told(c)
  /\ \A c \in Unreported : c.kind = "verify" => BlocksOf(c.piece) \subseteq disk
  /\ ReportsTrue(finished) /\ ReportsTrue(completions)
  /\ \A p \in Piece : piece[p] = "wanted" => Downloading(p)
  /\ \A p \in Piece : Awaited(p)

\* with at most two candidates the intake has room for everything it is given
Bounded ==
  /\ intake.jobs <= Limit + 1
  /\ Len(intake.pending) <= (IF driver \in {"wait", "drainWait"} THEN 1 ELSE PendingQueue)
  /\ ~intake.pressured => intake.resident < High

Ample == Cardinality(Candidate) <= PendingQueue
NoOverflow == intake.error \notin {"payload", "pending"} /\ (Active => Bounded)

PipelineInv ==
  /\ Types /\ Control /\ Running
  /\ Active => Books /\ Pieces
  /\ Ample => NoOverflow

-----------------------------------------------------------------------------
(* Induction. *)

\* Induction over the natural numbers, for the set of numbers with a property.
LEMMA Induction ==
  ASSUME NEW S, 0 \in S, \A n \in Nat : n \in S => n + 1 \in S
  PROVE  Nat \subseteq S
<1> SUFFICES ASSUME Nat \ S # {} PROVE FALSE
  OBVIOUS
<1>1. PICK n \in Nat \ S : \A m \in Nat \ S : ~ (<<m, n>> \in OpToRel(<, Nat))
  BY WFMin, NatLessThanWellFounded, Zenon
<1>2. \A m \in Nat : m < n => m \in S
  BY <1>1 DEF OpToRel
<1>3. n \in Nat /\ n # 0
  BY <1>1
<1>4. n - 1 \in Nat /\ n - 1 < n /\ (n - 1) + 1 = n
  BY <1>3
<1> QED BY <1>1, <1>2, <1>4

\* Induction over the subsets of a finite set.
LEMMA SubsetInduction ==
  ASSUME NEW D, IsFiniteSet(D), NEW F, {} \in F,
         \A s \in SUBSET D : \A x \in D \ s : s \in F => s \cup {x} \in F
  PROVE  SUBSET D \subseteq F
<1> DEFINE N == {n \in Nat : \A s \in SUBSET D : Cardinality(s) = n => s \in F}
<1>0. \A s \in SUBSET D : IsFiniteSet(s) /\ Cardinality(s) \in Nat
  BY FS_Subset, FS_CardinalityType
<1>1. 0 \in N
  BY <1>0, FS_EmptySet
<1>2. ASSUME NEW n \in Nat, n \in N PROVE n + 1 \in N
  <2> SUFFICES ASSUME NEW s \in SUBSET D, Cardinality(s) = n + 1 PROVE s \in F
    OBVIOUS
  <2>1. s # {}
    <3> SUFFICES ASSUME s = {} PROVE FALSE
      OBVIOUS
    <3>1. Cardinality(s) = 0
      BY FS_EmptySet, Zenon
    <3> QED BY <3>1
  <2>2. PICK x \in s : TRUE
    BY <2>1
  <2>3. Cardinality(s \ {x}) = Cardinality(s) - 1
    BY <1>0, FS_RemoveElement
  <2>4. s \ {x} \in SUBSET D /\ Cardinality(s \ {x}) = n
    BY <2>3
  <2>5. s \ {x} \in F /\ x \in D \ (s \ {x}) /\ (s \ {x}) \cup {x} = s
    BY <1>2, <2>4
  <2> QED BY <2>4, <2>5
<1>3. Nat \subseteq N
  <2> HIDE DEF N
  <2> QED BY <1>1, <1>2, Induction
<1> QED BY <1>0, <1>3

-----------------------------------------------------------------------------
(* Sequences without repetitions. *)

\* Appending a new element to a sequence without repetitions.
LEMMA AppendFacts ==
  ASSUME NEW S, NEW s \in Seq(S), NEW e \in S \ ToSet(s), IsInjective(s)
  PROVE  /\ Append(s, e) \in Seq(S) /\ IsInjective(Append(s, e))
         /\ ToSet(Append(s, e)) = ToSet(s) \cup {e}
<1> DEFINE t == Append(s, e)
<1>1. /\ t \in Seq(S) /\ Len(t) = Len(s) + 1 /\ t[Len(s) + 1] = e
      /\ \A k \in 1 .. Len(s) : t[k] = s[k]
  OBVIOUS
<1> HIDE DEF t
<1>2. \A k \in 1 .. Len(s) : s[k] # e
  BY DEF ToSet
<1>3. IsInjective(t)
  <2> SUFFICES ASSUME NEW a \in 1 .. (Len(s) + 1), NEW b \in 1 .. (Len(s) + 1), t[a] = t[b]
               PROVE  a = b
    BY <1>1 DEF IsInjective
  <2>1. \A x, y \in 1 .. Len(s) : s[x] = s[y] => x = y
    BY DEF IsInjective
  <2> QED BY <1>1, <1>2, <2>1
<1>4. ToSet(t) = ToSet(s) \cup {e}
  <2>1. DOMAIN t = 1 .. (Len(s) + 1) /\ DOMAIN s = 1 .. Len(s)
    BY <1>1
  <2>2. \A k \in DOMAIN t : k \in DOMAIN s \/ k = Len(s) + 1
    BY <2>1
  <2>3. Len(s) + 1 \in DOMAIN t /\ DOMAIN s \subseteq DOMAIN t
    BY <2>1
  <2> QED BY <1>1, <2>1, <2>2, <2>3 DEF ToSet
<1> QED BY <1>1, <1>3, <1>4 DEF t

\* A queue without its front.
LEMMA TailFacts ==
  ASSUME NEW S, NEW s \in Seq(S), s # <<>>, IsInjective(s)
  PROVE  /\ Tail(s) \in Seq(S) /\ IsInjective(Tail(s)) /\ Head(s) \in S
         /\ ToSet(Tail(s)) = ToSet(s) \ {Head(s)} /\ Head(s) \in ToSet(s)
<1> DEFINE t == Tail(s)
<1>1. /\ t \in Seq(S) /\ Len(t) = Len(s) - 1 /\ Len(s) \in Nat \ {0}
      /\ \A k \in 1 .. (Len(s) - 1) : t[k] = s[k + 1]
      /\ Head(s) = s[1] /\ s[1] \in S
  OBVIOUS
<1> HIDE DEF t
<1>2. \A a, b \in 1 .. Len(s) : s[a] = s[b] => a = b
  BY DEF IsInjective
<1>3. IsInjective(t)
  <2> SUFFICES ASSUME NEW a \in 1 .. (Len(s) - 1), NEW b \in 1 .. (Len(s) - 1), t[a] = t[b]
               PROVE  a = b
    BY <1>1 DEF IsInjective
  <2>1. (a + 1) \in 1 .. Len(s) /\ (b + 1) \in 1 .. Len(s) /\ s[a + 1] = s[b + 1]
    BY <1>1
  <2> QED BY <1>2, <2>1
<1>4. ToSet(t) = ToSet(s) \ {s[1]}
  <2>1. ASSUME NEW x \in ToSet(t) PROVE x \in ToSet(s) \ {s[1]}
    <3>1. PICK k \in 1 .. (Len(s) - 1) : x = t[k]
      BY <1>1 DEF ToSet
    <3>2. (k + 1) \in 1 .. Len(s) /\ k + 1 # 1 /\ 1 \in 1 .. Len(s) /\ x = s[k + 1]
      BY <1>1, <3>1
    <3>3. x # s[1]
      BY <1>2, <3>2
    <3> QED BY <3>2, <3>3 DEF ToSet
  <2>2. ASSUME NEW x \in ToSet(s) \ {s[1]} PROVE x \in ToSet(t)
    <3>1. PICK k \in 1 .. Len(s) : x = s[k]
      BY DEF ToSet
    <3>2. (k - 1) \in 1 .. (Len(s) - 1) /\ t[k - 1] = x
      <4>1. k # 1
        BY <3>1
      <4>2. (k - 1) \in 1 .. (Len(s) - 1) /\ (k - 1) + 1 = k
        BY <1>1, <4>1
      <4> QED BY <1>1, <3>1, <4>2
    <3> QED BY <1>1, <3>2 DEF ToSet
  <2> QED BY <2>1, <2>2
<1>5. s[1] \in ToSet(s)
  BY <1>1 DEF ToSet
<1> QED BY <1>1, <1>3, <1>4, <1>5 DEF t

\* Two sequences without common elements, one after the other.
LEMMA ConcatFacts ==
  ASSUME NEW S, NEW s \in Seq(S), NEW t \in Seq(S), IsInjective(s), IsInjective(t),
         ToSet(s) \cap ToSet(t) = {}
  PROVE  /\ s \o t \in Seq(S) /\ IsInjective(s \o t)
         /\ ToSet(s \o t) = ToSet(s) \cup ToSet(t)
<1> DEFINE u == s \o t
<1>1. /\ u \in Seq(S) /\ Len(u) = Len(s) + Len(t) /\ Len(s) \in Nat /\ Len(t) \in Nat
      /\ \A k \in 1 .. Len(s) : u[k] = s[k]
      /\ \A k \in 1 .. Len(t) : u[Len(s) + k] = t[k]
      /\ DOMAIN u = 1 .. (Len(s) + Len(t)) /\ DOMAIN s = 1 .. Len(s) /\ DOMAIN t = 1 .. Len(t)
  OBVIOUS
<1> HIDE DEF u
<1>2. \A k \in DOMAIN u : k \in DOMAIN s \/ \E m \in DOMAIN t : k = Len(s) + m
  <2> SUFFICES ASSUME NEW k \in DOMAIN u, k \notin DOMAIN s
               PROVE  \E m \in DOMAIN t : k = Len(s) + m
    OBVIOUS
  <2>1. k - Len(s) \in DOMAIN t /\ k = Len(s) + (k - Len(s))
    BY <1>1
  <2> QED BY <2>1
<1>3. DOMAIN s \subseteq DOMAIN u /\ \A m \in DOMAIN t : Len(s) + m \in DOMAIN u
  BY <1>1
<1>4. ToSet(u) = ToSet(s) \cup ToSet(t)
  BY <1>1, <1>2, <1>3 DEF ToSet
<1>5. \A a \in DOMAIN s, m \in DOMAIN t : s[a] # t[m]
  BY DEF ToSet
<1>6. IsInjective(u)
  <2> SUFFICES ASSUME NEW a \in DOMAIN u, NEW b \in DOMAIN u, u[a] = u[b] PROVE a = b
    BY DEF IsInjective
  <2>1. \A x, y \in DOMAIN s : s[x] = s[y] => x = y
    BY DEF IsInjective
  <2>2. \A x, y \in DOMAIN t : t[x] = t[y] => x = y
    BY DEF IsInjective
  <2>3. CASE a \in DOMAIN s /\ b \in DOMAIN s
    BY <1>1, <2>1, <2>3
  <2>4. CASE a \in DOMAIN s /\ b \notin DOMAIN s
    BY <1>1, <1>2, <1>5, <2>4
  <2>5. CASE a \notin DOMAIN s /\ b \in DOMAIN s
    BY <1>1, <1>2, <1>5, <2>5
  <2>6. CASE a \notin DOMAIN s /\ b \notin DOMAIN s
    <3>1. PICK x \in DOMAIN t : a = Len(s) + x
      BY <1>2, <2>6
    <3>2. PICK y \in DOMAIN t : b = Len(s) + y
      BY <1>2, <2>6
    <3>3. t[x] = t[y]
      BY <1>1, <3>1, <3>2
    <3> QED BY <2>2, <3>1, <3>2, <3>3
  <2> QED BY <2>3, <2>4, <2>5, <2>6
<1> QED BY <1>1, <1>4, <1>6 DEF u

\* A stretch of a sequence without repetitions.
LEMMA StretchFacts ==
  ASSUME NEW S, NEW s \in Seq(S), IsInjective(s), NEW m \in Nat \ {0}, NEW n \in Nat, n <= Len(s)
  PROVE  /\ SubSeq(s, m, n) \in Seq(S) /\ IsInjective(SubSeq(s, m, n))
         /\ ToSet(SubSeq(s, m, n)) = {s[k] : k \in m .. n}
         /\ Len(SubSeq(s, m, n)) = IF m <= n THEN (n - m) + 1 ELSE 0
         /\ m <= n => SubSeq(s, m, n)[1] = s[m]
<1> DEFINE u == SubSeq(s, m, n)
           l == IF m <= n THEN (n - m) + 1 ELSE 0
<1>0. Len(s) \in Nat /\ DOMAIN s = 1 .. Len(s) /\ \A k \in 1 .. Len(s) : s[k] \in S
  OBVIOUS
<1>1. /\ u \in Seq(S) /\ Len(u) = l /\ \A k \in 1 .. ((n - m) + 1) : u[k] = s[(m + k) - 1]
  <2>1. \A k \in m .. n : s[k] \in S
    BY <1>0
  <2> QED BY <2>1, SubSeqProperties
<1>2. DOMAIN u = 1 .. l /\ l \in Nat
  BY <1>1
<1>3. \A k \in DOMAIN u : ((m + k) - 1) \in m .. n /\ u[k] = s[(m + k) - 1]
  BY <1>1, <1>2
<1>4. \A k \in m .. n : ((k - m) + 1) \in DOMAIN u /\ u[(k - m) + 1] = s[k]
  <2> SUFFICES ASSUME NEW k \in m .. n PROVE ((k - m) + 1) \in DOMAIN u /\ u[(k - m) + 1] = s[k]
    OBVIOUS
  <2>1. ((k - m) + 1) \in DOMAIN u /\ (m + ((k - m) + 1)) - 1 = k
    BY <1>2
  <2> QED BY <1>3, <2>1
<1> HIDE DEF u
<1>5. ToSet(u) = {s[k] : k \in m .. n}
  <2>1. ASSUME NEW x \in ToSet(u) PROVE x \in {s[k] : k \in m .. n}
    <3>1. PICK k \in DOMAIN u : x = u[k]
      BY DEF ToSet
    <3> QED BY <1>3, <3>1
  <2>2. ASSUME NEW k \in m .. n PROVE s[k] \in ToSet(u)
    BY <1>4 DEF ToSet
  <2> QED BY <2>1, <2>2
<1>6. IsInjective(u)
  <2> SUFFICES ASSUME NEW a \in DOMAIN u, NEW b \in DOMAIN u, u[a] = u[b] PROVE a = b
    BY DEF IsInjective
  <2>1. /\ (m + a) - 1 \in DOMAIN s /\ (m + b) - 1 \in DOMAIN s
        /\ s[(m + a) - 1] = s[(m + b) - 1]
    BY <1>0, <1>3
  <2>2. (m + a) - 1 = (m + b) - 1
    BY <2>1 DEF IsInjective
  <2> QED BY <1>2, <2>2
<1>7. m <= n => u[1] = s[m]
  <2> SUFFICES ASSUME m <= n PROVE u[1] = s[m]
    OBVIOUS
  <2>1. m \in m .. n /\ (m - m) + 1 = 1
    OBVIOUS
  <2> QED BY <1>4, <2>1
<1> QED BY <1>1, <1>5, <1>6, <1>7 DEF u

\* A sequence without repetitions cut in two.
LEMMA SplitFacts ==
  ASSUME NEW S, NEW s \in Seq(S), IsInjective(s), NEW n \in 0 .. Len(s)
  PROVE  LET a == SubSeq(s, 1, n)
             b == SubSeq(s, n + 1, Len(s))
         IN /\ a \in Seq(S) /\ b \in Seq(S) /\ IsInjective(a) /\ IsInjective(b)
            /\ ToSet(a) \cup ToSet(b) = ToSet(s) /\ ToSet(a) \cap ToSet(b) = {}
            /\ Len(a) = n /\ Len(b) = Len(s) - n
            /\ ToSet(a) = {s[k] : k \in 1 .. n}
<1> DEFINE a == SubSeq(s, 1, n)
           b == SubSeq(s, n + 1, Len(s))
<1>0. Len(s) \in Nat /\ DOMAIN s = 1 .. Len(s) /\ n \in Nat /\ n <= Len(s)
  OBVIOUS
<1>1. /\ a \in Seq(S) /\ IsInjective(a) /\ ToSet(a) = {s[k] : k \in 1 .. n}
      /\ Len(a) = IF 1 <= n THEN (n - 1) + 1 ELSE 0
  BY <1>0, StretchFacts
<1>2. /\ b \in Seq(S) /\ IsInjective(b) /\ ToSet(b) = {s[k] : k \in (n + 1) .. Len(s)}
      /\ Len(b) = IF n + 1 <= Len(s) THEN (Len(s) - (n + 1)) + 1 ELSE 0
  <2>1. n + 1 \in Nat \ {0} /\ Len(s) <= Len(s)
    BY <1>0
  <2> QED BY <1>0, <2>1, StretchFacts
<1> HIDE DEF a, b
<1>3. Len(a) = n /\ Len(b) = Len(s) - n
  <2>1. (1 <= n => (n - 1) + 1 = n) /\ (~(1 <= n) => n = 0)
    BY <1>0
  <2>2. /\ n + 1 <= Len(s) => (Len(s) - (n + 1)) + 1 = Len(s) - n
        /\ ~(n + 1 <= Len(s)) => Len(s) - n = 0
    <3> DEFINE l == Len(s)
    <3>1. l \in Nat /\ n \in Nat /\ n <= l
      BY <1>0
    <3> HIDE DEF l
    <3>2. /\ n + 1 <= l => (l - (n + 1)) + 1 = l - n
          /\ ~(n + 1 <= l) => l - n = 0
      BY <3>1
    <3> QED BY <3>2 DEF l
  <2> QED BY <1>1, <1>2, <2>1, <2>2
<1>4. ToSet(s) = {s[k] : k \in 1 .. Len(s)}
  BY <1>0 DEF ToSet
<1>5. ToSet(a) \cup ToSet(b) = ToSet(s)
  <2>1. \A k \in 1 .. Len(s) : k \in 1 .. n \/ k \in (n + 1) .. Len(s)
    BY <1>0
  <2>2. 1 .. n \subseteq 1 .. Len(s) /\ (n + 1) .. Len(s) \subseteq 1 .. Len(s)
    BY <1>0
  <2> QED BY <1>1, <1>2, <1>4, <2>1, <2>2
<1>6. ToSet(a) \cap ToSet(b) = {}
  <2> SUFFICES ASSUME NEW x \in 1 .. n, NEW y \in (n + 1) .. Len(s), s[x] = s[y] PROVE FALSE
    BY <1>1, <1>2
  <2>1. x \in DOMAIN s /\ y \in DOMAIN s /\ x # y
    BY <1>0
  <2> QED BY <2>1 DEF IsInjective
<1> QED BY <1>1, <1>2, <1>3, <1>5, <1>6 DEF a, b

\* A sequence without repetitions has as many elements as places.
LEMMA SizeFacts ==
  ASSUME NEW S, NEW s \in Seq(S), IsInjective(s)
  PROVE  IsFiniteSet(ToSet(s)) /\ Cardinality(ToSet(s)) = Len(s)
<1>0. Len(s) \in Nat /\ DOMAIN s = 1 .. Len(s) /\ s \in [1 .. Len(s) -> S]
  OBVIOUS
<1>1. s \in [1 .. Len(s) -> ToSet(s)]
  BY <1>0 DEF ToSet
<1>2. s \in Bijection(1 .. Len(s), ToSet(s))
  BY <1>0, <1>1 DEF Bijection, Injection, Surjection, IsInjective, ToSet
<1>3. ExistsBijection(1 .. Len(s), ToSet(s))
  BY <1>2 DEF ExistsBijection
<1> QED BY <1>0, <1>3, FS_CountingElements, FS_NatBijection

-----------------------------------------------------------------------------
(* The commands of one kind. *)

\* f[i] has those of the first i commands of s that are writes, or that are not
Keeps(s, writing, n, f) ==
  f = [i \in 0 .. n |->
         IF i = 0 THEN <<>>
         ELSE IF IsWrite(s[i]) = writing THEN Append(f[i - 1], s[i]) ELSE f[i - 1]]

\* The recursive function of Sorted exists.
LEMMA KeepsExists ==
  ASSUME NEW s, NEW writing
  PROVE  \A n \in Nat : \E f : Keeps(s, writing, n, f)
<1> DEFINE N == {n \in Nat : \E f : Keeps(s, writing, n, f)}
<1>1. 0 \in N
  <2> DEFINE f == [i \in 0 .. 0 |-> <<>>]
  <2>1. \A i \in 0 .. 0 : i = 0
    OBVIOUS
  <2>2. Keeps(s, writing, 0, f)
    BY <2>1 DEF Keeps
  <2> QED BY <2>2
<1>2. ASSUME NEW n \in Nat, n \in N PROVE n + 1 \in N
  <2>1. PICK f : Keeps(s, writing, n, f)
    BY <1>2
  <2> DEFINE Then(g, i) == IF i = 0 THEN <<>>
                           ELSE IF IsWrite(s[i]) = writing THEN Append(g[i - 1], s[i]) ELSE g[i - 1]
             h == [i \in 0 .. (n + 1) |-> Then(f, i)]
  <2>2. \A i \in 0 .. n : i \in 0 .. (n + 1) /\ h[i] = f[i]
    <3>1. \A i \in 0 .. n : i \in 0 .. (n + 1)
      OBVIOUS
    <3>2. \A i \in 0 .. n : f[i] = Then(f, i)
      BY <2>1 DEF Keeps
    <3> QED BY <3>1, <3>2
  <2>3. \A i \in 0 .. (n + 1) : i # 0 => i - 1 \in 0 .. n
    OBVIOUS
  <2>4. \A i \in 0 .. (n + 1) : i # 0 => h[i - 1] = f[i - 1]
    <3> HIDE DEF h
    <3> QED BY <2>2, <2>3
  <2>5. \A i \in 0 .. (n + 1) : Then(f, i) = Then(h, i)
    <3> HIDE DEF h
    <3> QED BY <2>4
  <2>6. Keeps(s, writing, n + 1, h)
    BY <2>5 DEF Keeps
  <2> HIDE DEF h
  <2> QED BY <2>6
<1>3. Nat \subseteq N
  <2> HIDE DEF N
  <2> QED BY <1>1, <1>2, Induction
<1> QED BY <1>3

\* Sorting out one kind of commands keeps each of them, once.
LEMMA SortedFacts ==
  ASSUME NEW s \in Seq(Command), IsInjective(s), NEW writing \in BOOLEAN
  PROVE  /\ Sorted(s, writing) \in Seq(Command) /\ IsInjective(Sorted(s, writing))
         /\ ToSet(Sorted(s, writing)) = {c \in ToSet(s) : IsWrite(c) = writing}
<1> DEFINE k == CHOOSE f : Keeps(s, writing, Len(s), f)
<1>0. Len(s) \in Nat /\ DOMAIN s = 1 .. Len(s) /\ \A i \in 1 .. Len(s) : s[i] \in Command
  OBVIOUS
<1>1. Sorted(s, writing) = k[Len(s)]
  BY Zenon DEF Sorted, Keeps
<1>2. Keeps(s, writing, Len(s), k)
  BY <1>0, KeepsExists
<1> HIDE DEF k
<1>3. \A i \in 0 .. Len(s) :
        k[i] = IF i = 0 THEN <<>>
               ELSE IF IsWrite(s[i]) = writing THEN Append(k[i - 1], s[i]) ELSE k[i - 1]
  BY <1>2 DEF Keeps
<1> DEFINE Kept(n) == {s[i] : i \in {i \in 1 .. n : IsWrite(s[i]) = writing}}
           N == {n \in Nat : n <= Len(s) => /\ k[n] \in Seq(Command) /\ IsInjective(k[n])
                                            /\ ToSet(k[n]) = Kept(n)}
<1>4. 0 \in N
  <2>1. k[0] = <<>>
    BY <1>0, <1>3
  <2>2. <<>> \in Seq(Command) /\ DOMAIN <<>> = {} /\ 1 .. 0 = {}
    OBVIOUS
  <2>3. IsInjective(<<>>) /\ ToSet(<<>>) = {}
    BY <2>2 DEF IsInjective, ToSet
  <2>4. Kept(0) = {}
    BY <2>2
  <2> QED BY <2>1, <2>2, <2>3, <2>4
<1>5. ASSUME NEW n \in Nat, n \in N PROVE n + 1 \in N
  <2> SUFFICES ASSUME n + 1 <= Len(s)
               PROVE  /\ k[n + 1] \in Seq(Command) /\ IsInjective(k[n + 1])
                      /\ ToSet(k[n + 1]) = Kept(n + 1)
    OBVIOUS
  <2>1. k[n] \in Seq(Command) /\ IsInjective(k[n]) /\ ToSet(k[n]) = Kept(n)
    BY <1>0, <1>5
  <2>2. /\ n + 1 \in 0 .. Len(s) /\ n + 1 # 0 /\ (n + 1) - 1 = n
        /\ n + 1 \in 1 .. Len(s) /\ 1 .. n \subseteq 1 .. Len(s)
        /\ 1 .. (n + 1) = (1 .. n) \cup {n + 1} /\ n + 1 \notin 1 .. n
    BY <1>0
  <2>3. CASE IsWrite(s[n + 1]) = writing
    <3> DEFINE q == k[n]
               x == s[n + 1]
    <3>1. k[n + 1] = Append(q, x) /\ x \in Command
      BY <1>0, <1>3, <2>2, <2>3
    <3>2. x \notin ToSet(q)
      <4> SUFFICES ASSUME NEW i \in 1 .. n, s[i] = s[n + 1] PROVE FALSE
        BY <2>1
      <4>1. i \in DOMAIN s /\ n + 1 \in DOMAIN s /\ i # n + 1
        BY <1>0, <2>2
      <4> QED BY <4>1 DEF IsInjective
    <3>3. Kept(n + 1) = Kept(n) \cup {x}
      BY <2>2, <2>3
    <3>4. q \in Seq(Command) /\ IsInjective(q) /\ ToSet(q) = Kept(n)
      BY <2>1
    <3> HIDE DEF q, x, Kept
    <3>5. x \in Command \ ToSet(q)
      BY <3>1, <3>2
    <3>6. /\ Append(q, x) \in Seq(Command) /\ IsInjective(Append(q, x))
          /\ ToSet(Append(q, x)) = ToSet(q) \cup {x}
      BY <3>4, <3>5, AppendFacts
    <3> QED BY <3>1, <3>3, <3>4, <3>6
  <2>4. CASE IsWrite(s[n + 1]) # writing
    <3>1. k[n + 1] = k[n]
      BY <1>3, <2>2, <2>4
    <3>2. Kept(n + 1) = Kept(n)
      BY <2>2, <2>4
    <3> QED BY <2>1, <3>1, <3>2
  <2> QED BY <2>3, <2>4
<1>6. Nat \subseteq N
  <2> HIDE DEF N
  <2> QED BY <1>4, <1>5, Induction
<1>7. Len(s) \in N
  BY <1>0, <1>6
<1>8. Kept(Len(s)) = {c \in ToSet(s) : IsWrite(c) = writing}
  BY <1>0 DEF ToSet
<1> QED BY <1>0, <1>1, <1>7, <1>8

-----------------------------------------------------------------------------
(* The places of commands. *)

Lane == {"pending", "commands", "writes", "hashes", "running", "finished", "completions",
         "lost"}

\* what a lane holds
PendingSet == ToSet(intake.pending)
CommandSet == ToSet(intake.commands)
WriteSet == ToSet(writes)
HashSet == ToSet(hashes)
RunningSet == UNION {ToSet(j) : j \in running}
FinishedSet == ToSet(Reported(finished))
CompletionSet == ToSet(Reported(completions))

\* no element is in two of these sets
Apart(p, c, w, h, r, f, d, l) ==
  \A x : /\ x \in p => /\ x \notin c /\ x \notin w /\ x \notin h /\ x \notin r /\ x \notin f
                        /\ x \notin d /\ x \notin l
         /\ x \in c => /\ x \notin w /\ x \notin h /\ x \notin r /\ x \notin f /\ x \notin d
                        /\ x \notin l
         /\ x \in w => x \notin h /\ x \notin r /\ x \notin f /\ x \notin d /\ x \notin l
         /\ x \in h => x \notin r /\ x \notin f /\ x \notin d /\ x \notin l
         /\ x \in r => x \notin f /\ x \notin d /\ x \notin l
         /\ x \in f => x \notin d /\ x \notin l
         /\ x \in d => x \notin l

SeqsOnce ==
  /\ IsInjective(intake.pending) /\ IsInjective(intake.commands)
  /\ IsInjective(writes) /\ IsInjective(hashes)
  /\ IsInjective(Reported(finished)) /\ IsInjective(Reported(completions))
JobsOnce ==
  /\ \A j \in running : IsInjective(j)
  /\ \A i, j \in running : i # j => ToSet(i) \cap ToSet(j) = {}
LanesApart ==
  Apart(PendingSet, CommandSet, WriteSet, HashSet, RunningSet, FinishedSet, CompletionSet, lost)

\* the definitions of the model in these terms
Lanes ==
  /\ InFlight = PendingSet \cup CommandSet \cup WriteSet \cup HashSet \cup RunningSet
                \cup FinishedSet \cup CompletionSet \cup lost
  /\ Unreported = PendingSet \cup CommandSet \cup WriteSet \cup HashSet \cup RunningSet
  /\ Once <=> SeqsOnce /\ JobsOnce /\ LanesApart

\* The places of commands as lanes.
LEMMA LanesNow == Lanes
<1> DEFINE P == Place
<1>1. DOMAIN P = Lane
  BY DEF Place, Lane
<1>2. /\ P["pending"] = PendingSet /\ P["commands"] = CommandSet /\ P["writes"] = WriteSet
      /\ P["hashes"] = HashSet /\ P["running"] = RunningSet /\ P["finished"] = FinishedSet
      /\ P["completions"] = CompletionSet /\ P["lost"] = lost
  BY DEF Place, PendingSet, CommandSet, WriteSet, HashSet, RunningSet, FinishedSet, CompletionSet
<1>3. Unreported = PendingSet \cup CommandSet \cup WriteSet \cup HashSet \cup RunningSet
  BY <1>2 DEF Unreported
<1>4. InFlight = UNION {P[k] : k \in DOMAIN P}
  BY DEF InFlight
<1>5. (\A k, l \in DOMAIN P : k # l => P[k] \cap P[l] = {}) <=> 
        (\A k, l \in DOMAIN Place : k # l => Place[k] \cap Place[l] = {})
  OBVIOUS
<1> HIDE DEF P
<1>6. InFlight = PendingSet \cup CommandSet \cup WriteSet \cup HashSet \cup RunningSet
                 \cup FinishedSet \cup CompletionSet \cup lost
  BY <1>1, <1>2, <1>4 DEF Lane
<1>7. ASSUME LanesApart PROVE \A k, l \in DOMAIN P : k # l => P[k] \cap P[l] = {}
  <2> SUFFICES ASSUME NEW k \in Lane, NEW l \in Lane, k # l, NEW x \in P[k], x \in P[l] PROVE FALSE
    BY <1>1
  <2> QED BY <1>2, <1>7 DEF LanesApart, Apart, Lane
<1>8. ASSUME \A k, l \in DOMAIN P : k # l => P[k] \cap P[l] = {} PROVE LanesApart
  <2>1. \A k, l \in Lane : \A x : k # l /\ x \in P[k] => x \notin P[l]
    BY <1>1, <1>8
  <2> SUFFICES ASSUME NEW x PROVE
         /\ x \in PendingSet => x \notin CommandSet /\ x \notin WriteSet /\ x \notin HashSet /\ x \notin RunningSet /\ x \notin FinishedSet /\ x \notin CompletionSet /\ x \notin lost
         /\ x \in CommandSet => x \notin WriteSet /\ x \notin HashSet /\ x \notin RunningSet /\ x \notin FinishedSet /\ x \notin CompletionSet /\ x \notin lost
         /\ x \in WriteSet => x \notin HashSet /\ x \notin RunningSet /\ x \notin FinishedSet /\ x \notin CompletionSet /\ x \notin lost
         /\ x \in HashSet => x \notin RunningSet /\ x \notin FinishedSet /\ x \notin CompletionSet /\ x \notin lost
         /\ x \in RunningSet => x \notin FinishedSet /\ x \notin CompletionSet /\ x \notin lost
         /\ x \in FinishedSet => x \notin CompletionSet /\ x \notin lost
         /\ x \in CompletionSet => x \notin lost
    BY DEF LanesApart, Apart
  <2> QED BY <1>2, <2>1 DEF Lane
<1>9. Once <=> SeqsOnce /\ JobsOnce /\ LanesApart
  <2>1. Once <=> /\ SeqsOnce /\ JobsOnce
                 /\ \A k, l \in DOMAIN Place : k # l => Place[k] \cap Place[l] = {}
    BY DEF Once, SeqsOnce, JobsOnce
  <2> QED BY <1>5, <1>7, <1>8, <2>1
<1> QED BY <1>3, <1>6, <1>9 DEF Lanes

\* The same of the next state.
LEMMA LanesNext == Lanes'
BY LanesNow, PTL

-----------------------------------------------------------------------------
(* What the driver's end does to the intake. *)

\* What StoragePipelineAssumption says of the numbers of the pipeline.
LEMMA Constants ==
  /\ Blocks \in Nat \ {0} /\ HashRange \in Nat \ {0} /\ Limit \in Nat \ {0} /\ High \in Nat \ {0}
  /\ Writers \in Nat \ {0} /\ Hashers \in Nat \ {0} /\ Batch \in Nat \ {0} /\ High <= Limit
  /\ IsFiniteSet(Piece) /\ Candidate \subseteq Piece /\ IsFiniteSet(Candidate)
BY StoragePipelineAssumption, FS_Subset

\* Pressure that has ended leaves the payload below the high watermark.
LEMMA PressureFacts ==
  ASSUME NEW was \in BOOLEAN, NEW n \in Nat
  PROVE  Pressure(was, n) \in BOOLEAN /\ (~Pressure(was, n) => n < High)
<1>1. Low \in Nat /\ Low < High
  BY Constants DEF Low
<1>2. CASE was
  <2>1. Pressure(was, n) = (n > Low)
    BY <1>2, Zenon DEF Pressure
  <2>2. (n > Low) \in BOOLEAN /\ (~(n > Low) => n < High)
    BY <1>1, Constants
  <2> QED BY <2>1, <2>2, Zenon
<1>3. CASE ~was
  <2>1. Pressure(was, n) = (n >= High)
    BY <1>3, Zenon DEF Pressure
  <2>2. (n >= High) \in BOOLEAN /\ (~(n >= High) => n < High)
    BY Constants
  <2> QED BY <2>1, <2>2, Zenon
<1> QED BY <1>2, <1>3

\* The intake as the list of its fields, and what an update makes of them.
Rec(p, c, j, r, x, e) ==
  [pending |-> p, commands |-> c, jobs |-> j, resident |-> r, pressured |-> x, error |-> e]

\* An intake is the record of its fields.
LEMMA RecFacts ==
  ASSUME NEW s \in Intake
  PROVE  s = Rec(s.pending, s.commands, s.jobs, s.resident, s.pressured, s.error)
BY DEF Rec, Intake

\* An update of the counters leaves the lists alone.
LEMMA CountersUpdate ==
  ASSUME NEW s \in Intake, NEW n, NEW b, NEW m
  PROVE  [s EXCEPT !.resident = n, !.pressured = b, !.jobs = m]
           = Rec(s.pending, s.commands, m, n, b, s.error)
<1> DEFINE t == [s EXCEPT !.resident = n]
           u == [t EXCEPT !.pressured = b]
<1>1. [s EXCEPT !.resident = n, !.pressured = b, !.jobs = m] = [u EXCEPT !.jobs = m]
  OBVIOUS
<1>2. t = Rec(s.pending, s.commands, s.jobs, n, s.pressured, s.error)
  BY RecFacts DEF Rec
<1> HIDE DEF t
<1>3. u = Rec(s.pending, s.commands, s.jobs, n, b, s.error)
  BY <1>2 DEF Rec
<1> HIDE DEF u
<1>4. [u EXCEPT !.jobs = m] = Rec(s.pending, s.commands, m, n, b, s.error)
  BY <1>3 DEF Rec
<1> QED BY <1>1, <1>4

\* An update of the lists leaves the counters alone.
LEMMA ListsUpdate ==
  ASSUME NEW s \in Intake, NEW q, NEW d
  PROVE  [s EXCEPT !.commands = d, !.pending = q]
           = Rec(q, d, s.jobs, s.resident, s.pressured, s.error)
<1> DEFINE t == [s EXCEPT !.commands = d]
<1>1. [s EXCEPT !.commands = d, !.pending = q] = [t EXCEPT !.pending = q]
  OBVIOUS
<1>2. t = Rec(s.pending, d, s.jobs, s.resident, s.pressured, s.error)
  BY RecFacts DEF Rec
<1> HIDE DEF t
<1>3. [t EXCEPT !.pending = q] = Rec(q, d, s.jobs, s.resident, s.pressured, s.error)
  BY <1>2 DEF Rec
<1> QED BY <1>1, <1>3

Weight(c) == IF IsWrite(c) THEN 1 ELSE 0

\* One command more, in the channel or in the list.
Sent(s, c) ==
  Rec(s.pending, Append(s.commands, c), s.jobs + 1, s.resident + Weight(c),
      Pressure(s.pressured, s.resident + Weight(c)), "none")
Listed(s, c) ==
  Rec(Append(s.pending, c), s.commands, s.jobs + 1, s.resident + Weight(c),
      Pressure(s.pressured, s.resident + Weight(c)), "none")

\* The outcomes of enqueue: an earlier error, an overflow, the pending list, the channel.
LEMMA EnqueueCases ==
  ASSUME NEW s \in Intake, NEW c \in Command
  PROVE  /\ s.error # "none" => Enqueue(s, c) = s
         /\ s.error = "none" /\ s.resident + Weight(c) > Limit =>
              Enqueue(s, c) = [s EXCEPT !.error = "payload"]
         /\ s.error = "none" /\ s.resident + Weight(c) <= Limit /\ Len(s.pending) >= PendingQueue =>
              Enqueue(s, c) = [s EXCEPT !.error = "pending"]
         /\ s.error = "none" /\ s.resident + Weight(c) <= Limit /\ Len(s.pending) < PendingQueue =>
              /\ s.pending # <<>> \/ Len(s.commands) >= Limit => Enqueue(s, c) = Listed(s, c)
              /\ s.pending = <<>> /\ Len(s.commands) < Limit => Enqueue(s, c) = Sent(s, c)
<1> DEFINE n == s.resident + Weight(c)
           b == Pressure(s.pressured, n)
           q == [s EXCEPT !.resident = n, !.pressured = b, !.jobs = @ + 1]
<1>0. /\ Len(s.pending) \in Nat /\ Len(s.commands) \in Nat /\ s.resident \in Nat
      /\ n \in Nat /\ Limit \in Nat
  BY Constants DEF Intake, Weight
<1>1. Enqueue(s, c) =
        IF s.error # "none" THEN s
        ELSE IF n > Limit THEN [s EXCEPT !.error = "payload"]
        ELSE IF Len(s.pending) >= PendingQueue THEN [s EXCEPT !.error = "pending"]
        ELSE IF s.pending # <<>> \/ Len(s.commands) >= Limit THEN [q EXCEPT !.pending = Append(@, c)]
        ELSE [q EXCEPT !.commands = Append(@, c)]
  BY DEF Enqueue, Weight
<1>2. /\ Listed(s, c) = Rec(Append(s.pending, c), s.commands, s.jobs + 1, n, b, "none")
      /\ Sent(s, c) = Rec(s.pending, Append(s.commands, c), s.jobs + 1, n, b, "none")
  BY Zenon DEF Listed, Sent
<1> DEFINE m == s.jobs + 1
<1>7. q = Rec(s.pending, s.commands, m, n, b, s.error)
  <2>1. q = [s EXCEPT !.resident = n, !.pressured = b, !.jobs = m]
    OBVIOUS
  <2> HIDE DEF n, b, m, q
  <2> QED BY <2>1, CountersUpdate
<1> HIDE DEF b, q, n, m
<1>3. s.error = "none" => [q EXCEPT !.pending = Append(@, c)] = Listed(s, c)
  <2> DEFINE a == Append(s.pending, c)
  <2>1. [q EXCEPT !.pending = Append(@, c)] = [q EXCEPT !.pending = a]
    BY <1>7 DEF Rec
  <2> HIDE DEF a
  <2>2. [q EXCEPT !.pending = a] = Rec(a, s.commands, m, n, b, s.error)
    BY <1>7 DEF Rec
  <2> QED BY <1>2, <2>1, <2>2 DEF a, m
<1>4. s.error = "none" => [q EXCEPT !.commands = Append(@, c)] = Sent(s, c)
  <2> DEFINE a == Append(s.commands, c)
  <2>1. [q EXCEPT !.commands = Append(@, c)] = [q EXCEPT !.commands = a]
    BY <1>7 DEF Rec
  <2> HIDE DEF a
  <2>2. [q EXCEPT !.commands = a] = Rec(s.pending, a, m, n, b, s.error)
    BY <1>7 DEF Rec
  <2> QED BY <1>2, <2>1, <2>2 DEF a, m
<1>5. PendingQueue \in Nat
  BY DEF PendingQueue
<1>6. (n <= Limit => ~(n > Limit)) /\ (Len(s.pending) < PendingQueue => ~(Len(s.pending) >= PendingQueue))
      /\ (Len(s.commands) < Limit => ~(Len(s.commands) >= Limit))
  BY <1>0, <1>5
<1> QED BY <1>1, <1>3, <1>4, <1>6 DEF n

\* r is s with the commands X added, unless it failed
Loaded(s, X, r) ==
  /\ r \in Intake /\ IsFiniteSet(X)
  /\ r.error = "none" =>
       /\ IsInjective(r.pending) /\ IsInjective(r.commands) /\ Len(r.commands) <= Limit
       /\ ToSet(r.pending) \cap ToSet(r.commands) = {}
       /\ ToSet(r.pending) \cup ToSet(r.commands) = ToSet(s.pending) \cup ToSet(s.commands) \cup X
       /\ r.jobs = s.jobs + Cardinality(X)
       /\ r.resident = s.resident + Cardinality(WritesIn(X))

\* A finite set with one more element, and its writes.
LEMMA OneMore ==
  ASSUME NEW X, IsFiniteSet(X), NEW c, c \notin X
  PROVE  /\ IsFiniteSet(X \cup {c}) /\ Cardinality(X \cup {c}) = Cardinality(X) + 1
         /\ Cardinality(WritesIn(X \cup {c})) = Cardinality(WritesIn(X)) + Weight(c)
         /\ Cardinality(X) \in Nat /\ Cardinality(WritesIn(X)) \in Nat
<1>1. /\ IsFiniteSet(X \cup {c}) /\ Cardinality(X \cup {c}) = Cardinality(X) + 1
      /\ Cardinality(X) \in Nat
  BY FS_AddElement, FS_CardinalityType
<1>2. IsFiniteSet(WritesIn(X)) /\ Cardinality(WritesIn(X)) \in Nat /\ c \notin WritesIn(X)
  BY FS_Subset, FS_CardinalityType DEF WritesIn
<1>3. CASE IsWrite(c)
  <2>1. WritesIn(X \cup {c}) = WritesIn(X) \cup {c}
    BY <1>3 DEF WritesIn
  <2>2. Cardinality(WritesIn(X) \cup {c}) = Cardinality(WritesIn(X)) + 1
    BY <1>2, FS_AddElement
  <2> QED BY <1>1, <1>2, <1>3, <2>1, <2>2 DEF Weight
<1>4. CASE ~IsWrite(c)
  <2>1. WritesIn(X \cup {c}) = WritesIn(X)
    BY <1>4 DEF WritesIn
  <2> QED BY <1>1, <1>2, <1>4, <2>1 DEF Weight
<1> QED BY <1>3, <1>4

\* enqueue adds one command to what was loaded.
LEMMA EnqueueLoads ==
  ASSUME NEW s \in Intake, NEW X, NEW r, Loaded(s, X, r),
         NEW c \in Command, c \notin ToSet(s.pending) \cup ToSet(s.commands) \cup X
  PROVE  Loaded(s, X \cup {c}, Enqueue(r, c))
<1> DEFINE n == r.resident + Weight(c)
<1>0. /\ r \in Intake /\ IsFiniteSet(X) /\ Limit \in Nat /\ n \in Nat /\ r.jobs \in Nat
      /\ r.pending \in Seq(Command) /\ r.commands \in Seq(Command)
      /\ r.resident \in Nat /\ r.pressured \in BOOLEAN /\ Weight(c) \in Nat
      /\ s.jobs \in Nat /\ s.resident \in Nat /\ Len(r.pending) \in Nat /\ Len(r.commands) \in Nat
  BY Constants DEF Loaded, Intake, Weight
<1>1. /\ IsFiniteSet(X \cup {c}) /\ Cardinality(X \cup {c}) = Cardinality(X) + 1
      /\ Cardinality(WritesIn(X \cup {c})) = Cardinality(WritesIn(X)) + Weight(c)
      /\ Cardinality(X) \in Nat /\ Cardinality(WritesIn(X)) \in Nat
  BY <1>0, OneMore
<1>2. CASE r.error # "none"
  <2>1. Enqueue(r, c) = r
    BY <1>0, <1>2, EnqueueCases
  <2> QED BY <1>0, <1>1, <1>2, <2>1 DEF Loaded
<1>3. CASE r.error = "none" /\ n > Limit
  <2>1. Enqueue(r, c) = [r EXCEPT !.error = "payload"]
    BY <1>0, <1>3, EnqueueCases
  <2>2. Enqueue(r, c) \in Intake /\ Enqueue(r, c).error # "none"
    BY <1>0, <2>1 DEF Intake
  <2> QED BY <1>1, <2>2 DEF Loaded
<1>4. CASE r.error = "none" /\ n <= Limit /\ Len(r.pending) >= PendingQueue
  <2>1. Enqueue(r, c) = [r EXCEPT !.error = "pending"]
    BY <1>0, <1>4, EnqueueCases
  <2>2. Enqueue(r, c) \in Intake /\ Enqueue(r, c).error # "none"
    BY <1>0, <2>1 DEF Intake
  <2> QED BY <1>1, <2>2 DEF Loaded
<1>5. CASE r.error = "none" /\ n <= Limit /\ Len(r.pending) < PendingQueue
  <2>1. /\ IsInjective(r.pending) /\ IsInjective(r.commands) /\ Len(r.commands) <= Limit
        /\ ToSet(r.pending) \cap ToSet(r.commands) = {}
        /\ ToSet(r.pending) \cup ToSet(r.commands) = ToSet(s.pending) \cup ToSet(s.commands) \cup X
        /\ r.jobs = s.jobs + Cardinality(X)
        /\ r.resident = s.resident + Cardinality(WritesIn(X))
    BY <1>5 DEF Loaded
  <2>2. c \in Command \ ToSet(r.pending) /\ c \in Command \ ToSet(r.commands)
    BY <2>1
  <2>3. /\ n \in 0 .. Limit /\ Pressure(r.pressured, n) \in BOOLEAN
        /\ r.jobs + 1 = s.jobs + Cardinality(X \cup {c})
        /\ n = s.resident + Cardinality(WritesIn(X \cup {c}))
    <3>1. Pressure(r.pressured, n) \in BOOLEAN
      BY <1>0, PressureFacts
    <3>2. n \in 0 .. Limit
      BY <1>0, <1>5
    <3>3. r.jobs + 1 = s.jobs + Cardinality(X \cup {c})
      <4>1. r.jobs = s.jobs + Cardinality(X)
        BY <2>1
      <4>2. s.jobs \in Nat /\ Cardinality(X) \in Nat
        BY <1>0, <1>1
      <4> QED BY <1>1, <4>1, <4>2
    <3>4. n = s.resident + Cardinality(WritesIn(X \cup {c}))
      <4>1. n = (s.resident + Cardinality(WritesIn(X))) + Weight(c)
        BY <2>1
      <4>2. Weight(c) \in Nat /\ s.resident \in Nat /\ Cardinality(WritesIn(X)) \in Nat
        BY <1>0, <1>1
      <4> HIDE DEF n
      <4> QED BY <1>1, <4>1, <4>2
    <3> QED BY <3>1, <3>2, <3>3, <3>4
  <2>4. CASE r.pending # <<>> \/ Len(r.commands) >= Limit
    <3>1. Enqueue(r, c) = Listed(r, c)
      BY <1>0, <1>5, <2>4, EnqueueCases
    <3>2. /\ Append(r.pending, c) \in Seq(Command) /\ IsInjective(Append(r.pending, c))
          /\ ToSet(Append(r.pending, c)) = ToSet(r.pending) \cup {c}
      BY <1>0, <2>1, <2>2, AppendFacts
    <3> DEFINE e == Listed(r, c)
    <3>3. /\ e.pending = Append(r.pending, c) /\ e.commands = r.commands /\ e.jobs = r.jobs + 1
          /\ e.resident = n
      BY DEF Listed, Rec
    <3>4. e \in Intake
      BY <1>0, <2>3, <3>2 DEF Listed, Rec, Intake
    <3> HIDE DEF e, n
    <3>5. /\ ToSet(e.pending) \cap ToSet(e.commands) = {}
          /\ ToSet(e.pending) \cup ToSet(e.commands)
               = ToSet(s.pending) \cup ToSet(s.commands) \cup (X \cup {c})
      BY <2>1, <2>2, <3>2, <3>3
    <3>6. Loaded(s, X \cup {c}, e)
      BY <1>1, <2>1, <2>3, <3>2, <3>3, <3>4, <3>5 DEF Loaded
    <3> QED BY <3>1, <3>6 DEF e
  <2>5. CASE r.pending = <<>> /\ Len(r.commands) < Limit
    <3>1. Enqueue(r, c) = Sent(r, c)
      BY <1>0, <1>5, <2>5, EnqueueCases
    <3>2. /\ Append(r.commands, c) \in Seq(Command) /\ IsInjective(Append(r.commands, c))
          /\ ToSet(Append(r.commands, c)) = ToSet(r.commands) \cup {c}
      BY <1>0, <2>1, <2>2, AppendFacts
    <3>7. Len(Append(r.commands, c)) <= Limit
      BY <1>0, <2>5
    <3> DEFINE e == Sent(r, c)
    <3>3. /\ e.commands = Append(r.commands, c) /\ e.pending = r.pending /\ e.jobs = r.jobs + 1
          /\ e.resident = n
      BY DEF Sent, Rec
    <3>4. e \in Intake
      BY <1>0, <2>3, <3>2 DEF Sent, Rec, Intake
    <3> HIDE DEF e, n
    <3>5. /\ ToSet(e.pending) \cap ToSet(e.commands) = {}
          /\ ToSet(e.pending) \cup ToSet(e.commands)
               = ToSet(s.pending) \cup ToSet(s.commands) \cup (X \cup {c})
      BY <2>1, <2>2, <3>2, <3>3
    <3>6. Loaded(s, X \cup {c}, e)
      BY <1>1, <2>1, <2>3, <3>2, <3>3, <3>4, <3>5, <3>7 DEF Loaded
    <3> QED BY <3>1, <3>6 DEF e
  <2> QED BY <1>0, <2>4, <2>5
<1>6. PendingQueue \in Nat
  BY DEF PendingQueue
<1> QED BY <1>0, <1>2, <1>3, <1>4, <1>5, <1>6

\* A command for which there is room is taken.
LEMMA EnqueueFits ==
  ASSUME NEW r \in Intake, NEW c \in Command, r.error = "none",
         r.resident + Weight(c) <= Limit, Len(r.pending) < PendingQueue, Len(r.commands) <= Limit
  PROVE  LET e == Enqueue(r, c)
         IN /\ e.error = "none" /\ Len(e.commands) <= Limit
            /\ Len(e.pending) <= Len(r.pending) + 1 /\ Len(e.pending) \in Nat
            /\ e.jobs = r.jobs + 1 /\ e.resident = r.resident + Weight(c)
            /\ ~e.pressured => e.resident < High
<1> DEFINE n == r.resident + Weight(c)
           b == Pressure(r.pressured, n)
<1>0. /\ Limit \in Nat /\ n \in Nat /\ r.jobs \in Nat
      /\ r.pending \in Seq(Command) /\ r.commands \in Seq(Command)
      /\ r.resident \in Nat /\ r.pressured \in BOOLEAN
      /\ Len(r.pending) \in Nat /\ Len(r.commands) \in Nat
  BY Constants DEF Intake, Weight
<1>1. b \in BOOLEAN /\ (~b => n < High)
  BY <1>0, PressureFacts
<1>2. CASE r.pending # <<>> \/ Len(r.commands) >= Limit
  <2>1. Enqueue(r, c) = Rec(Append(r.pending, c), r.commands, r.jobs + 1, n, b, "none")
    BY <1>2, EnqueueCases, Zenon DEF Listed
  <2>2. Len(Append(r.pending, c)) = Len(r.pending) + 1
    BY <1>0
  <2> HIDE DEF b, n
  <2> QED BY <1>0, <1>1, <2>1, <2>2 DEF Rec, n
<1>3. CASE r.pending = <<>> /\ Len(r.commands) < Limit
  <2>1. Enqueue(r, c) = Rec(r.pending, Append(r.commands, c), r.jobs + 1, n, b, "none")
    BY <1>3, EnqueueCases, Zenon DEF Sent
  <2>2. Len(Append(r.commands, c)) = Len(r.commands) + 1
    BY <1>0
  <2> HIDE DEF b, n
  <2> QED BY <1>0, <1>1, <1>3, <2>1, <2>2 DEF Rec, n
<1> QED BY <1>0, <1>2, <1>3

-----------------------------------------------------------------------------
(* Several commands at once. *)

Check(p) == [kind |-> "candidate", piece |-> p, block |-> 0]
Checks(S) == {Check(p) : p \in S}
Pick(t) == CHOOSE x \in t : TRUE

\* h enqueues the checks of the sets of D, one at a time
Folds(s, D, h) ==
  h = [t \in D |-> IF t = {} THEN s ELSE Enqueue(h[t \ {Pick(t)}], Check(Pick(t)))]

\* A chosen element of a set is in it.
LEMMA PickFacts ==
  ASSUME NEW t, t # {}
  PROVE  Pick(t) \in t
BY DEF Pick

\* The fold over a finite set exists.
LEMMA FoldsExists ==
  ASSUME NEW S, IsFiniteSet(S), NEW s
  PROVE  \E h : Folds(s, SUBSET S, h)
<1> DEFINE D(n) == {t \in SUBSET S : Cardinality(t) <= n}
           N == {n \in Nat : \E h : Folds(s, D(n), h)}
           Then(h, t) == IF t = {} THEN s ELSE Enqueue(h[t \ {Pick(t)}], Check(Pick(t)))
<1>0. \A t \in SUBSET S : IsFiniteSet(t) /\ Cardinality(t) \in Nat
  BY FS_Subset, FS_CardinalityType
<1>1. 0 \in N
  <2> DEFINE h == [t \in D(0) |-> s]
  <2>1. \A t \in D(0) : t = {}
    BY <1>0, FS_EmptySet
  <2>2. Folds(s, D(0), h)
    BY <2>1 DEF Folds
  <2> QED BY <2>2
<1>2. ASSUME NEW n \in Nat, n \in N PROVE n + 1 \in N
  <2>1. PICK g : Folds(s, D(n), g)
    BY <1>2
  <2> DEFINE h == [t \in D(n + 1) |-> Then(g, t)]
  <2>2. ASSUME NEW t \in D(n + 1), t # {} PROVE t \ {Pick(t)} \in D(n)
    <3>1. Cardinality(t \ {Pick(t)}) = Cardinality(t) - 1
      BY <1>0, <2>2, PickFacts, FS_RemoveElement
    <3> QED BY <1>0, <2>2, <3>1
  <2>3. \A t \in D(n) : t \in D(n + 1) /\ h[t] = g[t]
    <3>1. \A t \in D(n) : t \in D(n + 1)
      BY <1>0
    <3>2. \A t \in D(n) : g[t] = Then(g, t)
      <4> HIDE DEF D
      <4> QED BY <2>1 DEF Folds
    <3> HIDE DEF D, Then
    <3> QED BY <3>1, <3>2
  <2>4. Folds(s, D(n + 1), h)
    <3>1. \A t \in D(n + 1) : t # {} => h[t \ {Pick(t)}] = g[t \ {Pick(t)}]
      <4> HIDE DEF h, D
      <4> QED BY <2>2, <2>3
    <3> HIDE DEF D
    <3> QED BY <3>1 DEF Folds
  <2> HIDE DEF h, D
  <2> QED BY <2>4
<1>3. Nat \subseteq N
  <2> HIDE DEF N
  <2> QED BY <1>1, <1>2, Induction
<1> DEFINE n == Cardinality(S)
<1>4. D(n) = SUBSET S /\ n \in Nat
  <2>1. \A t \in SUBSET S : Cardinality(t) <= n
    BY FS_Subset
  <2> QED BY <1>0, <2>1
<1> HIDE DEF n, D
<1> QED BY <1>3, <1>4

\* EnqueueAll is enqueue of one command after the other.
LEMMA EnqueueAllFolds ==
  ASSUME NEW s, NEW S, IsFiniteSet(S)
  PROVE  \E h : Folds(s, SUBSET S, h) /\ EnqueueAll(s, S) = h[S]
<1> DEFINE k == CHOOSE h : Folds(s, SUBSET S, h)
<1>1. EnqueueAll(s, S) = k[S]
  BY Zenon DEF EnqueueAll, FoldSet, MapThenFoldSet, Folds, Pick, Check
<1>2. Folds(s, SUBSET S, k)
  BY FoldsExists
<1> HIDE DEF k
<1> QED BY <1>1, <1>2

\* There is one verification for each candidate, and none of them is a write.
LEMMA ChecksFacts ==
  ASSUME NEW S \in SUBSET Piece, IsFiniteSet(S)
  PROVE  /\ IsFiniteSet(Checks(S)) /\ Cardinality(Checks(S)) <= Cardinality(S)
         /\ Cardinality(Checks(S)) \in Nat /\ Cardinality(S) \in Nat
         /\ Checks(S) \subseteq Command /\ WritesIn(Checks(S)) = {}
         /\ Cardinality(WritesIn(Checks(S))) = 0
<1> DEFINE f == [p \in S |-> Check(p)]
<1>1. f \in Surjection(S, Checks(S))
  BY DEF Surjection, Checks
<1>2. IsFiniteSet(Checks(S)) /\ Cardinality(Checks(S)) <= Cardinality(S)
  <2> HIDE DEF f
  <2> QED BY <1>1, FS_Surjection
<1>3. Checks(S) \subseteq Command
  BY Constants DEF Checks, Check, Command
<1>4. WritesIn(Checks(S)) = {}
  BY DEF WritesIn, Checks, Check, IsWrite
<1> QED BY <1>2, <1>3, <1>4, FS_CardinalityType, FS_EmptySet

\* the intake has room for n commands that are not writes
Roomy(r, n) ==
  /\ r.error = "none" /\ Len(r.commands) <= Limit /\ Len(r.pending) \in Nat
  /\ Len(r.pending) <= n /\ (~r.pressured => r.resident < High)

\* The checks of a set of pieces are all added, or the intake has failed; two always fit.
LEMMA EnqueueAllFacts ==
  ASSUME NEW s \in Intake, Loaded(s, {}, s), NEW S \in SUBSET Piece, IsFiniteSet(S),
         Checks(S) \cap (ToSet(s.pending) \cup ToSet(s.commands)) = {}
  PROVE  /\ Loaded(s, Checks(S), EnqueueAll(s, S))
         /\ Roomy(s, 0) /\ Cardinality(S) <= PendingQueue => Roomy(EnqueueAll(s, S), Cardinality(S))
<1>1. PICK h : Folds(s, SUBSET S, h) /\ EnqueueAll(s, S) = h[S]
  BY EnqueueAllFolds
<1>2. \A t \in SUBSET S :
        h[t] = IF t = {} THEN s ELSE Enqueue(h[t \ {Pick(t)}], Check(Pick(t)))
  BY <1>1 DEF Folds
<1>0. \A t \in SUBSET S : IsFiniteSet(t) /\ Cardinality(t) \in Nat
  BY FS_Subset, FS_CardinalityType
<1> DEFINE Good(t) == /\ Loaded(s, Checks(t), h[t])
                      /\ Roomy(s, 0) /\ Cardinality(t) <= PendingQueue => Roomy(h[t], Cardinality(t))
           N == {n \in Nat : \A t \in SUBSET S : Cardinality(t) = n => Good(t)}
<1>3. 0 \in N
  <2> SUFFICES ASSUME NEW t \in SUBSET S, Cardinality(t) = 0 PROVE Good(t)
    OBVIOUS
  <2>1. t = {}
    BY <1>0, FS_EmptySet
  <2>2. h[t] = s /\ Checks(t) = {}
    BY <1>2, <2>1 DEF Checks
  <2> QED BY <2>2
<1>4. ASSUME NEW n \in Nat, n \in N PROVE n + 1 \in N
  <2> SUFFICES ASSUME NEW t \in SUBSET S, Cardinality(t) = n + 1 PROVE Good(t)
    OBVIOUS
  <2> DEFINE p == Pick(t)
             u == t \ {p}
             c == Check(p)
             r == h[u]
  <2>1. t # {}
    <3> SUFFICES ASSUME t = {} PROVE FALSE
      OBVIOUS
    <3>1. Cardinality(t) = 0
      BY FS_EmptySet, Zenon
    <3> QED BY <3>1
  <2>2. p \in t /\ u \in SUBSET S
    BY <2>1, PickFacts
  <2>3. Cardinality(u) = n
    <3>1. Cardinality(t \ {p}) = Cardinality(t) - 1
      BY <1>0, <2>2, FS_RemoveElement
    <3> QED BY <3>1
  <2>4. Good(u)
    BY <1>4, <2>2, <2>3
  <2>5. h[t] = Enqueue(r, c)
    BY <1>2, <2>1
  <2>6. c \in Command /\ ~IsWrite(c) /\ Checks(t) = Checks(u) \cup {c} /\ c \in Checks(S)
    <3>1. c \in Command /\ ~IsWrite(c)
      BY <2>2, Constants DEF Check, Command, IsWrite
    <3>2. Checks(t) = Checks(u) \cup {c} /\ c \in Checks(S)
      BY <2>2 DEF Checks
    <3> QED BY <3>1, <3>2
  <2>7. c \notin Checks(u)
    BY DEF Checks, Check
  <2>8. Loaded(s, Checks(u), r) /\ r \in Intake
    BY <2>4 DEF Loaded
  <2>9. Loaded(s, Checks(u) \cup {c}, Enqueue(r, c))
    <3>1. c \notin ToSet(s.pending) \cup ToSet(s.commands) \cup Checks(u)
      BY <2>6, <2>7
    <3> HIDE DEF c, r, u
    <3> QED BY <2>6, <2>8, <3>1, EnqueueLoads
  <2>10. ASSUME Roomy(s, 0), n + 1 <= PendingQueue PROVE Roomy(Enqueue(r, c), n + 1)
    <3>1. Roomy(r, n)
      <4>1. n <= PendingQueue
        BY <2>10 DEF PendingQueue
      <4> HIDE DEF r, u
      <4> QED BY <2>3, <2>4, <2>10, <4>1 DEF r
    <3> HIDE DEF c, r, u
    <3>2. /\ r.error = "none" /\ Len(r.commands) <= Limit /\ Len(r.pending) < PendingQueue
          /\ Len(r.pending) \in Nat /\ Len(r.pending) <= n
      BY <2>10, <3>1 DEF Roomy, PendingQueue
    <3>3. r.resident + Weight(c) <= Limit
      BY <2>6, <2>8, Constants DEF Intake, Weight
    <3>4. LET e == Enqueue(r, c)
          IN /\ e.error = "none" /\ Len(e.commands) <= Limit
             /\ Len(e.pending) <= Len(r.pending) + 1 /\ Len(e.pending) \in Nat
             /\ ~e.pressured => e.resident < High
      BY <2>6, <2>8, <3>2, <3>3, EnqueueFits
    <3> QED BY <3>2, <3>4 DEF Roomy
  <2> HIDE DEF c, r, u
  <2> QED BY <2>5, <2>6, <2>9, <2>10
<1>5. Nat \subseteq N
  <2> HIDE DEF N
  <2> QED BY <1>3, <1>4, Induction
<1>6. Good(S)
  <2>1. Cardinality(S) \in N
    BY <1>0, <1>5
  <2> QED BY <2>1
<1> QED BY <1>1, <1>6

\* A completion takes its command out of the counters.
LEMMA FinishedFacts ==
  ASSUME NEW s \in Intake, NEW c \in Command, s.jobs >= 1, s.resident >= Weight(c)
  PROVE  LET r == Finished(s, c)
         IN /\ r \in Intake /\ r.pending = s.pending /\ r.commands = s.commands
            /\ r.jobs = s.jobs - 1 /\ r.resident = s.resident - Weight(c) /\ r.error = s.error
            /\ ~r.pressured => r.resident < High
<1> DEFINE n == s.resident - Weight(c)
           b == Pressure(s.pressured, n)
           m == s.jobs - 1
<1>0. /\ Limit \in Nat /\ n \in 0 .. Limit /\ m \in Nat /\ n \in Nat /\ s.pressured \in BOOLEAN
  BY Constants DEF Intake, Weight
<1>1. b \in BOOLEAN /\ (~b => n < High)
  BY <1>0, PressureFacts
<1>2. Finished(s, c) = [s EXCEPT !.resident = n, !.pressured = b, !.jobs = m]
  BY DEF Finished, Weight
<1> HIDE DEF n, b, m
<1>3. Finished(s, c) = Rec(s.pending, s.commands, m, n, b, s.error)
  BY <1>2, CountersUpdate
<1> DEFINE r == Finished(s, c)
<1>4. /\ r.pending = s.pending /\ r.commands = s.commands /\ r.jobs = m /\ r.resident = n
      /\ r.error = s.error /\ r.pressured = b
  BY <1>3 DEF Rec
<1>5. r \in Intake
  BY <1>0, <1>1, <1>3 DEF Rec, Intake
<1> QED BY <1>1, <1>4, <1>5 DEF m, n

\* The smaller of two numbers.
LEMMA MinTwo ==
  ASSUME NEW a \in Int, NEW b \in Int
  PROVE  Min({a, b}) = IF a <= b THEN a ELSE b
BY DEF Min

\* Flushing moves commands from the list to the channel while there is room.
LEMMA FlushedFacts ==
  ASSUME NEW s \in Intake, IsInjective(s.pending), IsInjective(s.commands),
         ToSet(s.pending) \cap ToSet(s.commands) = {}, Len(s.commands) <= Limit
  PROVE  LET r == Flushed(s)
         IN /\ r \in Intake /\ IsInjective(r.pending) /\ IsInjective(r.commands)
            /\ ToSet(r.pending) \cap ToSet(r.commands) = {}
            /\ ToSet(r.pending) \cup ToSet(r.commands) = ToSet(s.pending) \cup ToSet(s.commands)
            /\ r.jobs = s.jobs /\ r.resident = s.resident /\ r.error = s.error
            /\ r.pressured = s.pressured /\ Len(r.commands) <= Limit
            /\ Len(r.pending) = 0 \/ Len(r.pending) + Limit = Len(s.pending) + Len(s.commands)
<1> DEFINE n == Min({Len(s.pending), Limit - Len(s.commands)})
           a == SubSeq(s.pending, 1, n)
           q == SubSeq(s.pending, n + 1, Len(s.pending))
           d == s.commands \o a
<1>0. /\ s.pending \in Seq(Command) /\ s.commands \in Seq(Command)
      /\ Len(s.pending) \in Nat /\ Len(s.commands) \in Nat /\ Limit \in Nat
  BY Constants DEF Intake
<1>1. Flushed(s) = [s EXCEPT !.commands = d, !.pending = q]
  BY Zenon DEF Flushed
<1>2. /\ n \in 0 .. Len(s.pending) /\ Len(s.commands) + n <= Limit
      /\ n = Len(s.pending) \/ Len(s.commands) + n = Limit
  <2> DEFINE x == Len(s.pending)
             y == Limit - Len(s.commands)
  <2>1. x \in Nat /\ y \in Nat /\ Len(s.commands) + y = Limit
    BY <1>0
  <2> HIDE DEF x, y
  <2>2. n = IF x <= y THEN x ELSE y
    BY <2>1, MinTwo DEF x, y
  <2>3. n \in 0 .. x /\ n <= y /\ (n = x \/ n = y)
    BY <2>1, <2>2
  <2> HIDE DEF n
  <2> QED BY <1>0, <2>1, <2>3 DEF x
<1> HIDE DEF n
<1>3. /\ a \in Seq(Command) /\ q \in Seq(Command) /\ IsInjective(a) /\ IsInjective(q)
      /\ ToSet(a) \cup ToSet(q) = ToSet(s.pending) /\ ToSet(a) \cap ToSet(q) = {}
      /\ Len(a) = n /\ Len(q) = Len(s.pending) - n
  BY <1>0, <1>2, SplitFacts
<1> HIDE DEF a, q
<1>4. /\ d \in Seq(Command) /\ IsInjective(d) /\ ToSet(d) = ToSet(s.commands) \cup ToSet(a)
      /\ Len(d) = Len(s.commands) + n
  <2>1. ToSet(s.commands) \cap ToSet(a) = {}
    BY <1>3
  <2>2. d \in Seq(Command) /\ IsInjective(d) /\ ToSet(d) = ToSet(s.commands) \cup ToSet(a)
    BY <1>0, <1>3, <2>1, ConcatFacts
  <2>3. Len(d) = Len(s.commands) + Len(a)
    BY <1>0, <1>3, ConcatProperties
  <2> QED BY <1>3, <2>2, <2>3
<1> HIDE DEF d
<1>5. Flushed(s) = Rec(q, d, s.jobs, s.resident, s.pressured, s.error)
  BY <1>1, ListsUpdate
<1> DEFINE r == Flushed(s)
<1>6. /\ r.pending = q /\ r.commands = d /\ r.jobs = s.jobs /\ r.resident = s.resident
      /\ r.error = s.error /\ r.pressured = s.pressured
  BY <1>5 DEF Rec
<1>7. r \in Intake
  BY <1>3, <1>4, <1>5 DEF Rec, Intake
<1>8. Len(d) <= Limit /\ (Len(q) = 0 \/ Len(q) + Limit = Len(s.pending) + Len(s.commands))
  <2> DEFINE x == Len(s.pending)
             y == Len(s.commands)
  <2>1. /\ x \in Nat /\ y \in Nat /\ n \in Nat /\ y + n <= Limit /\ (n = x \/ y + n = Limit)
        /\ Len(q) = x - n /\ Len(d) = y + n
    BY <1>0, <1>2, <1>3, <1>4
  <2> HIDE DEF x, y
  <2>2. Len(d) <= Limit /\ (Len(q) = 0 \/ Len(q) + Limit = x + y)
    BY <1>0, <2>1
  <2> QED BY <2>2 DEF x, y
<1> HIDE DEF r
<1>9. /\ ToSet(q) \cap ToSet(d) = {}
      /\ ToSet(q) \cup ToSet(d) = ToSet(s.pending) \cup ToSet(s.commands)
  BY <1>3, <1>4
<1> QED BY <1>3, <1>4, <1>6, <1>7, <1>8, <1>9 DEF r

-----------------------------------------------------------------------------
(* The parts of the invariant. *)

TaskTypes ==
  /\ writes \in Seq(Command) /\ hashes \in Seq(Command) /\ running \subseteq Seq(Command)
  /\ finished \in Seq(Report) /\ completions \in Seq(Report) /\ Len(completions) <= Limit
  /\ lost \subseteq Command /\ task \in {"top", "select", "ended"}
DriverTypes ==
  /\ driver \in {"top", "wait", "drain", "drainWait", "restarting", "stopping", "stopped"}
  /\ closed \in BOOLEAN /\ cancelled \in BOOLEAN
SwarmTypes ==
  /\ piece \in [Piece -> {"candidate", "checking", "wanted", "hashing", "have"}]
  /\ received \in [Piece -> 0..Blocks] /\ stored \in [Piece -> 0..Blocks]

TypeParts == Types <=> intake \in Intake /\ TaskTypes /\ DriverTypes /\ SwarmTypes
\* The types by owner.
LEMMA TypePartsNow == TypeParts
BY DEF TypeParts, Types, TypeOK, Intake, TaskTypes, DriverTypes, SwarmTypes, Report
\* The same of the next state.
LEMMA TypePartsNext == TypeParts'
BY TypePartsNow, PTL

\* The reports of a sequence name commands.
LEMMA ReportedFacts ==
  ASSUME NEW s \in Seq(Report)
  PROVE  /\ Reported(s) \in Seq(Command) /\ Len(Reported(s)) = Len(s) /\ DOMAIN Reported(s) = DOMAIN s
         /\ \A i \in DOMAIN s : Reported(s)[i] = s[i].command /\ s[i] \in Report
<1>1. Len(s) \in Nat /\ DOMAIN s = 1 .. Len(s) /\ \A i \in 1 .. Len(s) : s[i] \in Report
  OBVIOUS
<1>2. \A i \in 1 .. Len(s) : s[i].command \in Command
  BY <1>1 DEF Report
<1>3. Reported(s) = [i \in 1 .. Len(s) |-> s[i].command]
  BY <1>1 DEF Reported
<1>4. Reported(s) \in [1 .. Len(s) -> Command]
  BY <1>2, <1>3
<1>5. Reported(s) \in Seq(Command)
  BY <1>1, <1>4, SeqDef
<1>6. DOMAIN Reported(s) = 1 .. Len(s)
  BY <1>3
<1>7. Len(Reported(s)) = Len(s)
  BY <1>1, <1>5, <1>6, LenProperties
<1> QED BY <1>1, <1>3, <1>5, <1>6, <1>7

\* Everything under way is a command.
LEMMA InFlightType ==
  ASSUME Types
  PROVE  InFlight \subseteq Command
<1>1. /\ intake \in Intake /\ TaskTypes
  BY TypePartsNow DEF TypeParts
<1>2. \A s \in Seq(Command) : ToSet(s) \subseteq Command
  BY DEF ToSet
<1>3. PendingSet \subseteq Command /\ CommandSet \subseteq Command
  BY <1>1, <1>2 DEF Intake, PendingSet, CommandSet
<1>4. WriteSet \subseteq Command /\ HashSet \subseteq Command
  BY <1>1, <1>2 DEF TaskTypes, WriteSet, HashSet
<1>5. RunningSet \subseteq Command
  BY <1>1, <1>2 DEF TaskTypes, RunningSet
<1>6. FinishedSet \subseteq Command /\ CompletionSet \subseteq Command
  BY <1>1, <1>2, ReportedFacts DEF TaskTypes, FinishedSet, CompletionSet
<1>7. lost \subseteq Command
  BY <1>1 DEF TaskTypes
<1> QED BY <1>3, <1>4, <1>5, <1>6, <1>7, LanesNow DEF Lanes

\* The size of two sets that have nothing in common.
LEMMA DisjointUnion ==
  ASSUME NEW S, IsFiniteSet(S), NEW T, IsFiniteSet(T), S \cap T = {}
  PROVE  IsFiniteSet(S \cup T) /\ Cardinality(S \cup T) = Cardinality(S) + Cardinality(T)
<1>1. Cardinality(S \cap T) = 0
  BY FS_EmptySet, Zenon
<1>2. Cardinality(S) \in Nat /\ Cardinality(T) \in Nat
  BY FS_CardinalityType
<1>3. /\ IsFiniteSet(S \cup T)
      /\ Cardinality(S \cup T) = Cardinality(S) + Cardinality(T) - Cardinality(S \cap T)
  BY FS_Union
<1> QED BY <1>1, <1>2, <1>3

\* How a step of the driver changes what is under way: Y is reported to it, X is new.
LEMMA DriverBooks ==
  ASSUME Types, Books, NEW base \in Intake,
         base.pending = intake.pending, base.commands = intake.commands,
         NEW X, NEW Y, Y \subseteq CompletionSet, X \cap InFlight = {},
         base.jobs = Cardinality(InFlight \ Y),
         base.resident = Cardinality(WritesIn(InFlight \ Y)),
         Loaded(base, X, intake'), intake'.error = "none",
         writes' = writes, hashes' = hashes, running' = running, finished' = finished, lost' = lost,
         IsInjective(Reported(completions')), ToSet(Reported(completions')) = CompletionSet \ Y,
         driver' # "restarting" \/ (X = {} /\ InFlight = {})
  PROVE  Books' /\ InFlight' = (InFlight \ Y) \cup X /\ Unreported' = Unreported \cup X
<1>1. SeqsOnce /\ JobsOnce /\ LanesApart
  BY LanesNow DEF Books, Lanes
<1>2. /\ IsInjective(intake'.pending) /\ IsInjective(intake'.commands) /\ Len(intake'.commands) <= Limit
      /\ PendingSet' \cap CommandSet' = {}
      /\ PendingSet' \cup CommandSet' = PendingSet \cup CommandSet \cup X
      /\ intake'.jobs = base.jobs + Cardinality(X)
      /\ intake'.resident = base.resident + Cardinality(WritesIn(X)) /\ IsFiniteSet(X)
  BY DEF Loaded, PendingSet, CommandSet
<1>3. /\ WriteSet' = WriteSet /\ HashSet' = HashSet /\ RunningSet' = RunningSet
      /\ FinishedSet' = FinishedSet /\ CompletionSet' = CompletionSet \ Y
  BY DEF WriteSet, HashSet, RunningSet, FinishedSet, CompletionSet
<1>4. SeqsOnce'
  BY <1>1, <1>2 DEF SeqsOnce
<1>5. JobsOnce'
  BY <1>1 DEF JobsOnce
<1>6. /\ InFlight = PendingSet \cup CommandSet \cup WriteSet \cup HashSet \cup RunningSet
                \cup FinishedSet \cup CompletionSet \cup lost
      /\ Unreported = PendingSet \cup CommandSet \cup WriteSet \cup HashSet \cup RunningSet
  BY LanesNow DEF Lanes
<1>7. /\ InFlight' = PendingSet' \cup CommandSet' \cup WriteSet' \cup HashSet' \cup RunningSet'
                \cup FinishedSet' \cup CompletionSet' \cup lost'
      /\ Unreported' = PendingSet' \cup CommandSet' \cup WriteSet' \cup HashSet' \cup RunningSet'
  BY LanesNext DEF Lanes
<1>8. LanesApart'
  <2>1. \A x : /\ x \in PendingSet' \/ x \in CommandSet' <=> x \in PendingSet \/ x \in CommandSet \/ x \in X
               /\ ~(x \in PendingSet' /\ x \in CommandSet')
               /\ x \in X => x \notin InFlight
    BY <1>2
  <2>2. Apart(PendingSet, CommandSet, WriteSet, HashSet, RunningSet, FinishedSet, CompletionSet, lost)
    BY <1>1 DEF LanesApart
  <2>3. Apart(PendingSet', CommandSet', WriteSet, HashSet, RunningSet, FinishedSet, CompletionSet \ Y, lost)
    BY <1>6, <2>1, <2>2 DEF Apart
  <2> QED BY <1>3, <2>3 DEF LanesApart
<1>9. Unreported' = Unreported \cup X
  BY <1>2, <1>3, <1>6, <1>7
<1>10. InFlight' = (InFlight \ Y) \cup X
  <2>1. \A x \in Y : x \notin PendingSet /\ x \notin CommandSet /\ x \notin WriteSet /\ x \notin HashSet
                     /\ x \notin RunningSet /\ x \notin FinishedSet /\ x \notin lost
    BY <1>1 DEF LanesApart, Apart
  <2> QED BY <1>2, <1>3, <1>6, <1>7, <2>1
<1>11. Once'
  BY <1>4, <1>5, <1>8, LanesNext DEF Lanes
<1>12. /\ IsFiniteSet(InFlight') /\ intake'.jobs = Cardinality(InFlight')
       /\ intake'.resident = Cardinality(WritesIn(InFlight'))
  <2> DEFINE Z == InFlight \ Y
  <2>1. IsFiniteSet(Z) /\ Z \cap X = {} /\ InFlight' = Z \cup X /\ IsFiniteSet(X)
    BY <1>2, <1>10, FS_Subset DEF Books
  <2>2. IsFiniteSet(WritesIn(Z)) /\ IsFiniteSet(WritesIn(X))
    BY <2>1, FS_Subset DEF WritesIn
  <2>3. /\ WritesIn(Z) \cap WritesIn(X) = {} /\ WritesIn(Z \cup X) = WritesIn(Z) \cup WritesIn(X)
    BY <2>1 DEF WritesIn
  <2>4. /\ IsFiniteSet(Z \cup X) /\ Cardinality(Z \cup X) = Cardinality(Z) + Cardinality(X)
    BY <2>1, DisjointUnion
  <2>5. Cardinality(WritesIn(Z \cup X)) = Cardinality(WritesIn(Z)) + Cardinality(WritesIn(X))
    BY <2>2, <2>3, DisjointUnion
  <2> HIDE DEF Z
  <2> QED BY <1>2, <2>1, <2>4, <2>5 DEF Z
<1>13. driver' = "restarting" => InFlight' = {}
  BY <1>10
<1> QED BY <1>2, <1>9, <1>10, <1>11, <1>12, <1>13 DEF Books

\* A step that moves commands without reporting or handling any keeps what they say.
LEMMA PiecesKept ==
  ASSUME Pieces, InFlight' = InFlight, piece' = piece, received' = received, stored' = stored,
         \A c \in Unreported' : c.kind = "verify" => BlocksOf(c.piece) \subseteq disk',
         \A p \in Piece : piece[p] = "wanted" => \A b : <<p, b>> \in disk => <<p, b>> \in disk',
         ReportsTrue(finished)', ReportsTrue(completions)'
  PROVE  Pieces'
<1>1. \A c \in InFlight : Told(c)'
  BY DEF Pieces, Told
<1>2. ASSUME NEW p \in Piece, piece'[p] = "wanted" PROVE Downloading(p)'
  <2>1. WritesOf(p)' = WritesOf(p)
    BY DEF WritesOf
  <2>2. Downloading(p)
    BY <1>2 DEF Pieces
  <2> QED BY <1>2, <2>1, <2>2 DEF Downloading
<1>3. \A p \in Piece : Awaited(p)'
  BY DEF Pieces, Awaited
<1> QED BY <1>1, <1>2, <1>3 DEF Pieces

-----------------------------------------------------------------------------
(* Steps of the driver. *)

\* A step of the driver that keeps to the intake and the reports leaves the jobs alone.
LEMMA RunningKept ==
  ASSUME Running, running' = running, disk' = disk
  PROVE  Running'
BY DEF Running, HashSeesWrites, HashJobs, JobsOf

\* An intake to which nothing was added.
LEMMA LoadedSelf ==
  ASSUME Types, Books, intake.error = "none"
  PROVE  Loaded(intake, {}, intake)
<1>1. SeqsOnce /\ LanesApart
  BY LanesNow DEF Books, Lanes
<1>2. PendingSet \cap CommandSet = {}
  BY <1>1 DEF LanesApart, Apart
<1>3. WritesIn({}) = {} /\ IsFiniteSet({}) /\ Cardinality({}) = 0
  BY FS_EmptySet DEF WritesIn
<1>4. intake \in Intake /\ intake.jobs \in Nat /\ intake.resident \in Nat
  BY Constants DEF Types, Intake
<1>5. intake.jobs = intake.jobs + Cardinality({}) /\ intake.resident = intake.resident + Cardinality(WritesIn({}))
  BY <1>3, <1>4
<1> QED BY <1>1, <1>2, <1>3, <1>4, <1>5 DEF Loaded, SeqsOnce, PendingSet, CommandSet, Books

\* The counters of an intake whose books are kept.
LEMMA CountersSelf ==
  ASSUME Books
  PROVE  /\ intake.jobs = Cardinality(InFlight \ {})
         /\ intake.resident = Cardinality(WritesIn(InFlight \ {}))
         /\ {} \subseteq CompletionSet /\ {} \cap InFlight = {}
<1>1. InFlight \ {} = InFlight
  OBVIOUS
<1> QED BY <1>1 DEF Books

\* A step that changes neither the intake nor a queue.
LEMMA StillBooks ==
  ASSUME Types, Books, Pieces, intake.error = "none", UNCHANGED <<intake, queues, swarm, disk>>,
         driver' = "restarting" => InFlight = {}
  PROVE  Books' /\ Pieces'
<1>1. UNCHANGED <<intake, writes, hashes, running, finished, completions, lost, piece, received, stored, disk>>
  BY DEF queues, swarm
<1>2. Loaded(intake, {}, intake')
  BY <1>1, LoadedSelf
<1>3. SeqsOnce /\ intake \in Intake
  BY LanesNow DEF Books, Lanes, Types
<1>4. IsInjective(Reported(completions')) /\ ToSet(Reported(completions')) = CompletionSet \ {}
  BY <1>1, <1>3 DEF SeqsOnce, CompletionSet
<1>5. Books' /\ InFlight' = (InFlight \ {}) \cup {} /\ Unreported' = Unreported \cup {}
  <2>1. driver' # "restarting" \/ ({} = {} /\ InFlight = {})
    OBVIOUS
  <2>2. /\ intake.jobs = Cardinality(InFlight \ {})
        /\ intake.resident = Cardinality(WritesIn(InFlight \ {}))
        /\ {} \subseteq CompletionSet /\ {} \cap InFlight = {}
    BY CountersSelf
  <2>3. intake'.error = "none"
    BY <1>1
  <2> QED BY <1>1, <1>2, <1>3, <1>4, <2>1, <2>2, <2>3, DriverBooks
<1>6. InFlight' = InFlight /\ Unreported' = Unreported
  BY <1>5
<1>7. ReportsTrue(finished)' /\ ReportsTrue(completions)'
  BY <1>1 DEF Pieces, ReportsTrue
<1>8. Pieces'
  BY <1>1, <1>6, <1>7, PiecesKept DEF Pieces
<1> QED BY <1>5, <1>8

\* What has not been taken by the task is counted.
LEMMA IntakeCounted ==
  ASSUME Types, Books
  PROVE  Len(intake.pending) + Len(intake.commands) <= intake.jobs
<1>1. SeqsOnce /\ LanesApart
  BY LanesNow DEF Books, Lanes
<1>2. intake.pending \in Seq(Command) /\ intake.commands \in Seq(Command)
  BY DEF Types, Intake
<1>3. /\ IsFiniteSet(PendingSet) /\ Cardinality(PendingSet) = Len(intake.pending)
      /\ IsFiniteSet(CommandSet) /\ Cardinality(CommandSet) = Len(intake.commands)
  BY <1>1, <1>2, SizeFacts DEF SeqsOnce, PendingSet, CommandSet
<1>4. PendingSet \cap CommandSet = {}
  BY <1>1 DEF LanesApart, Apart
<1>5. Cardinality(PendingSet \cup CommandSet) = Len(intake.pending) + Len(intake.commands)
  <2>1. Cardinality(PendingSet \cup CommandSet) = Cardinality(PendingSet) + Cardinality(CommandSet)
    BY <1>3, <1>4, DisjointUnion
  <2> QED BY <1>3, <2>1
<1>6. PendingSet \cup CommandSet \in SUBSET InFlight
  BY LanesNow DEF Lanes
<1>7. Cardinality(PendingSet \cup CommandSet) <= Cardinality(InFlight)
  BY <1>6, FS_Subset DEF Books
<1> QED BY <1>5, <1>7 DEF Books

\* Flushing keeps the books, and leaves at most one command in the list.
LEMMA FlushStep ==
  ASSUME Types, Books, Pieces, intake.error = "none", intake' = Flushed(intake),
         UNCHANGED <<queues, swarm, disk>>, driver' # "restarting"
  PROVE  /\ intake' \in Intake /\ intake'.error = "none" /\ Books' /\ Pieces'
         /\ Bounded => /\ intake'.jobs <= Limit + 1 /\ Len(intake'.pending) <= 1
                       /\ ~intake'.pressured => intake'.resident < High
<1>1. UNCHANGED <<writes, hashes, running, finished, completions, lost, piece, received, stored, disk>>
  BY DEF queues, swarm
<1>2. Loaded(intake, {}, intake)
  BY LoadedSelf
<1>3. /\ intake \in Intake /\ IsInjective(intake.pending) /\ IsInjective(intake.commands)
      /\ ToSet(intake.pending) \cap ToSet(intake.commands) = {} /\ Len(intake.commands) <= Limit
  BY <1>2 DEF Loaded
<1>4. /\ intake' \in Intake /\ IsInjective(intake'.pending) /\ IsInjective(intake'.commands)
      /\ ToSet(intake'.pending) \cap ToSet(intake'.commands) = {}
      /\ ToSet(intake'.pending) \cup ToSet(intake'.commands) = ToSet(intake.pending) \cup ToSet(intake.commands)
      /\ intake'.jobs = intake.jobs /\ intake'.resident = intake.resident /\ intake'.error = intake.error
      /\ intake'.pressured = intake.pressured /\ Len(intake'.commands) <= Limit
      /\ Len(intake'.pending) = 0 \/ Len(intake'.pending) + Limit = Len(intake.pending) + Len(intake.commands)
  BY <1>3, FlushedFacts
<1>5. Loaded(intake, {}, intake')
  BY <1>2, <1>4 DEF Loaded
<1>6. SeqsOnce
  BY LanesNow DEF Books, Lanes
<1>7. IsInjective(Reported(completions')) /\ ToSet(Reported(completions')) = CompletionSet \ {}
  BY <1>1, <1>6 DEF SeqsOnce, CompletionSet
<1>8. Books' /\ InFlight' = (InFlight \ {}) \cup {} /\ Unreported' = Unreported \cup {}
  <2>2. /\ intake.jobs = Cardinality(InFlight \ {})
        /\ intake.resident = Cardinality(WritesIn(InFlight \ {}))
        /\ {} \subseteq CompletionSet /\ {} \cap InFlight = {}
    BY CountersSelf
  <2>3. intake'.error = "none"
    BY <1>4
  <2> QED BY <1>1, <1>3, <1>5, <1>7, <2>2, <2>3, DriverBooks
<1>9. InFlight' = InFlight /\ Unreported' = Unreported
  BY <1>8
<1>10. ReportsTrue(finished)' /\ ReportsTrue(completions)'
  BY <1>1 DEF Pieces, ReportsTrue
<1>11. Pieces'
  BY <1>1, <1>9, <1>10, PiecesKept DEF Pieces
<1>12. ASSUME Bounded PROVE Len(intake'.pending) <= 1
  <2> DEFINE x == Len(intake.pending) + Len(intake.commands)
             y == Len(intake'.pending)
  <2>1. x <= intake.jobs /\ intake.jobs <= Limit + 1 /\ intake.jobs \in Nat
    BY <1>3, <1>12, IntakeCounted DEF Bounded, Intake
  <2>2. x \in Nat /\ y \in Nat /\ Limit \in Nat
    BY <1>3, <1>4, Constants DEF Intake
  <2>3. y = 0 \/ y + Limit = x
    BY <1>4
  <2> HIDE DEF x, y
  <2> QED BY <2>1, <2>2, <2>3 DEF y
<1> QED BY <1>4, <1>8, <1>11, <1>12 DEF Bounded

\* The supervisor's top: the list is flushed, and a complete download stops.
LEMMA SupervisorTopStep ==
  ASSUME PipelineInv, SupervisorTop
  PROVE  PipelineInv'
<1>1. /\ driver = "top" /\ intake' = Flushed(intake)
      /\ driver' = IF Complete THEN "stopping" ELSE "wait"
      /\ closed' = Complete
      /\ UNCHANGED <<queues, task, cancelled, swarm, disk>>
  BY DEF SupervisorTop
<1>2. Types /\ Control /\ Running /\ cancelled \in BOOLEAN
  BY DEF PipelineInv, Types
<1>3. ~cancelled /\ intake.error = "none" /\ Active /\ Books /\ Pieces
  BY <1>1, <1>2 DEF PipelineInv, Control, Active
<1>4. driver' \in {"stopping", "wait"} /\ closed' \in BOOLEAN
  BY <1>1 DEF Complete
<1>5. /\ intake' \in Intake /\ intake'.error = "none" /\ Books' /\ Pieces'
      /\ Bounded => /\ intake'.jobs <= Limit + 1 /\ Len(intake'.pending) <= 1
                    /\ ~intake'.pressured => intake'.resident < High
  BY <1>1, <1>2, <1>3, <1>4, FlushStep
<1>6. Types'
  BY <1>1, <1>2, <1>4, <1>5, TypePartsNow, TypePartsNext
    DEF TypeParts, TaskTypes, DriverTypes, SwarmTypes, queues, swarm
<1>7. Control' /\ Running'
  BY <1>1, <1>2, <1>3, <1>4, <1>5, RunningKept DEF Control, queues
<1>8. Ample => NoOverflow'
  <2> SUFFICES ASSUME Ample PROVE NoOverflow'
    OBVIOUS
  <2>1. Bounded
    BY <1>3 DEF PipelineInv, NoOverflow
  <2>2. Bounded'
    BY <1>4, <1>5, <2>1 DEF Bounded, PendingQueue
  <2> QED BY <1>5, <2>2 DEF NoOverflow
<1> QED BY <1>5, <1>6, <1>7, <1>8 DEF PipelineInv, Ample

\* The driver waits no longer, begins a selection, or the task wakes.
LEMMA QuietStep ==
  ASSUME PipelineInv, Deadline \/ BeginSelection \/ Wake
  PROVE  PipelineInv'
<1>1. /\ UNCHANGED <<intake, queues, closed, cancelled, swarm, disk>>
      /\ driver' \in {"top", "drain", driver} /\ task' \in {"top", task}
      /\ driver' # driver => driver = "wait" /\ task' = task
      /\ task' # task => task = "select"
  BY DEF Deadline, BeginSelection, Wake
<1>2. Types /\ Control /\ Running
  BY DEF PipelineInv
<1>3. Active' => Active
  BY <1>1 DEF Active
<1>4. Active => intake.error = "none"
  BY <1>2 DEF Control, Active
<1>5. Types'
  BY <1>1, <1>2, TypePartsNow, TypePartsNext
    DEF TypeParts, TaskTypes, DriverTypes, SwarmTypes, queues, swarm
<1>6. Control' /\ Running'
  BY <1>1, <1>2, RunningKept DEF Control, queues
<1>7. Active' => Books' /\ Pieces'
  <2> SUFFICES ASSUME Active PROVE Books' /\ Pieces'
    BY <1>3
  <2>1. Books /\ Pieces
    BY DEF PipelineInv
  <2>2. driver' = "restarting" => InFlight = {}
    BY <1>1, <2>1 DEF Books
  <2> QED BY <1>1, <1>2, <1>4, <2>1, <2>2, StillBooks
<1>8. Ample => NoOverflow'
  BY <1>1, <1>3 DEF PipelineInv, NoOverflow, Bounded, PendingQueue
<1> QED BY <1>5, <1>6, <1>7, <1>8 DEF PipelineInv, Ample

\* Nothing changes.
LEMMA StutterStep ==
  ASSUME PipelineInv, UNCHANGED vars
  PROVE  PipelineInv'
<1>1. /\ UNCHANGED <<intake, queues, closed, cancelled, swarm, disk, driver, task>>
  BY DEF vars, queues, swarm
<1>2. Types /\ Control /\ Running
  BY DEF PipelineInv
<1>4. Active => intake.error = "none"
  BY <1>2 DEF Control, Active
<1>5. Types'
  BY <1>1, <1>2, TypePartsNow, TypePartsNext
    DEF TypeParts, TaskTypes, DriverTypes, SwarmTypes, queues, swarm
<1>6. Control' /\ Running'
  BY <1>1, <1>2, RunningKept DEF Control, queues
<1>7. Active' => Books' /\ Pieces'
  <2> SUFFICES ASSUME Active PROVE Books' /\ Pieces'
    BY <1>1 DEF Active
  <2>1. Books /\ Pieces
    BY DEF PipelineInv
  <2>2. driver' = "restarting" => InFlight = {}
    BY <1>1, <2>1 DEF Books
  <2> QED BY <1>1, <1>2, <1>4, <2>1, <2>2, StillBooks
<1>8. Ample => NoOverflow'
  BY <1>1 DEF PipelineInv, NoOverflow, Bounded, PendingQueue, Active
<1> QED BY <1>5, <1>6, <1>7, <1>8 DEF PipelineInv, Ample

\* The user stops the download.
LEMMA CancelStep ==
  ASSUME PipelineInv, Cancel
  PROVE  PipelineInv'
<1>1. /\ UNCHANGED <<intake, queues, swarm, disk, task>>
      /\ driver' = "stopping" /\ closed' = TRUE /\ cancelled' = TRUE
  BY DEF Cancel
<1>2. Types /\ Control /\ Running
  BY DEF PipelineInv
<1>3. ~Active'
  BY <1>1 DEF Active
<1>5. Types'
  BY <1>1, <1>2, TypePartsNow, TypePartsNext
    DEF TypeParts, TaskTypes, DriverTypes, SwarmTypes, queues, swarm
<1>6. Control' /\ Running'
  BY <1>1, <1>2, RunningKept DEF Control, queues
<1>8. Ample => NoOverflow'
  BY <1>1, <1>3 DEF PipelineInv, NoOverflow
<1> QED BY <1>3, <1>5, <1>6, <1>8 DEF PipelineInv, Ample

\* The pipeline is shut down.
LEMMA StoppedStep ==
  ASSUME PipelineInv, Stopped
  PROVE  PipelineInv'
<1>1. /\ UNCHANGED <<writes, hashes, running, finished, lost, task, closed, cancelled, swarm, disk>>
      /\ driver' = "stopped" /\ task = "ended" /\ completions' = <<>>
      /\ intake' = [intake EXCEPT !.jobs = 0, !.resident = 0, !.pressured = FALSE, !.pending = <<>>]
  BY DEF Stopped
<1>2. Types /\ Control /\ Running
  BY DEF PipelineInv
<1>3. ~Active'
  BY <1>1 DEF Active
<1>4. intake' \in Intake /\ intake'.error = intake.error
  <2>1. intake \in Intake
    BY <1>2 DEF Types
  <2>2. <<>> \in Seq(Command) /\ 0 \in Nat /\ 0 \in 0 .. Limit /\ FALSE \in BOOLEAN
    BY Constants
  <2> QED BY <1>1, <2>1, <2>2 DEF Intake
<1>5. Types'
  <2>1. <<>> \in Seq(Report) /\ Len(<<>>) <= Limit
    BY Constants
  <2> QED BY <1>1, <1>2, <1>4, <2>1, TypePartsNow, TypePartsNext
        DEF TypeParts, TaskTypes, DriverTypes, SwarmTypes, swarm
<1>6. Control' /\ Running'
  BY <1>1, <1>2, RunningKept DEF Control
<1>8. Ample => NoOverflow'
  BY <1>3, <1>4 DEF PipelineInv, NoOverflow
<1> QED BY <1>3, <1>5, <1>6, <1>8 DEF PipelineInv, Ample

\* A turn of the drain.
LEMMA DrainTurnStep ==
  ASSUME PipelineInv, DrainTurn
  PROVE  PipelineInv'
<1>1. /\ driver = "drain" /\ UNCHANGED <<queues, task, cancelled, swarm, disk>>
  BY DEF DrainTurn
<1>2. Types /\ Control /\ Running /\ cancelled \in BOOLEAN
  BY DEF PipelineInv, Types
<1>3. ~cancelled /\ intake.error = "none" /\ Active /\ Books /\ Pieces
  BY <1>1, <1>2 DEF PipelineInv, Control, Active
<1>4. CASE intake.jobs = 0
  <2>1. driver' = "restarting" /\ closed' = TRUE /\ intake' = intake
    BY <1>4 DEF DrainTurn
  <2>2. InFlight = {}
    BY <1>3, <1>4, FS_EmptySet DEF Books
  <2>3. Books' /\ Pieces'
    BY <1>1, <1>2, <1>3, <2>1, <2>2, StillBooks
  <2>5. Types'
    BY <1>1, <1>2, <2>1, TypePartsNow, TypePartsNext
      DEF TypeParts, TaskTypes, DriverTypes, SwarmTypes, queues, swarm
  <2>6. Control' /\ Running'
    BY <1>1, <1>2, <1>3, <2>1, RunningKept DEF Control, queues
  <2>8. Ample => NoOverflow'
    BY <1>1, <1>3, <2>1 DEF PipelineInv, NoOverflow, Bounded, PendingQueue
  <2> QED BY <2>3, <2>5, <2>6, <2>8 DEF PipelineInv, Ample
<1>5. CASE intake.jobs # 0
  <2>1. driver' = "drainWait" /\ closed' = closed /\ intake' = Flushed(intake)
    BY <1>5 DEF DrainTurn
  <2>2. /\ intake' \in Intake /\ intake'.error = "none" /\ Books' /\ Pieces'
        /\ Bounded => /\ intake'.jobs <= Limit + 1 /\ Len(intake'.pending) <= 1
                      /\ ~intake'.pressured => intake'.resident < High
    BY <1>1, <1>2, <1>3, <2>1, FlushStep
  <2>5. Types'
    BY <1>1, <1>2, <2>1, <2>2, TypePartsNow, TypePartsNext
      DEF TypeParts, TaskTypes, DriverTypes, SwarmTypes, queues, swarm
  <2>6. Control' /\ Running'
    BY <1>1, <1>2, <1>3, <2>1, <2>2, RunningKept DEF Control, queues
  <2>8. Ample => NoOverflow'
    <3> SUFFICES ASSUME Ample PROVE NoOverflow'
      OBVIOUS
    <3>1. Bounded
      BY <1>3 DEF PipelineInv, NoOverflow
    <3>2. Bounded'
      BY <2>1, <2>2, <3>1 DEF Bounded, PendingQueue
    <3> QED BY <2>2, <3>2 DEF NoOverflow
  <2> QED BY <2>2, <2>5, <2>6, <2>8 DEF PipelineInv, Ample
<1> QED BY <1>4, <1>5

-----------------------------------------------------------------------------
(* The handlers: what a message or a completion makes of a piece. *)

\* A handler that ends with After.
LEMMA AfterStep ==
  ASSUME PipelineInv, ~cancelled, NEW r \in Intake, NEW where \in {"top", "drain"}, After(r, where),
         TaskTypes', SwarmTypes', UNCHANGED <<running, task, disk>>, driver \in {"wait", "drainWait"},
         r.error = "none" => Books' /\ Pieces',
         Ample => /\ r.error \notin {"payload", "pending"}
                  /\ r.error = "none" => /\ r.jobs <= Limit + 1 /\ Len(r.pending) <= PendingQueue
                                         /\ ~r.pressured => r.resident < High
  PROVE  PipelineInv'
<1>1. Types /\ Control /\ Running
  BY DEF PipelineInv
<1>2. intake' = r
  BY DEF After
<1>3. CASE r.error = "none"
  <2>1. driver' = where /\ closed' = closed /\ cancelled' = cancelled
    BY <1>3 DEF After
  <2>2. Types'
    BY <1>1, <1>2, <2>1, TypePartsNow, TypePartsNext DEF TypeParts, DriverTypes
  <2>3. Control' /\ Running'
    BY <1>1, <1>2, <1>3, <2>1, RunningKept DEF Control
  <2>4. Ample => NoOverflow'
    BY <1>2, <1>3, <2>1 DEF NoOverflow, Bounded, PendingQueue
  <2> QED BY <1>3, <2>2, <2>3, <2>4 DEF PipelineInv, Ample
<1>4. CASE r.error # "none"
  <2>1. driver' = "stopping" /\ closed' = TRUE /\ cancelled' = TRUE
    BY <1>4 DEF After
  <2>2. Types'
    BY <1>1, <1>2, <2>1, TypePartsNow, TypePartsNext DEF TypeParts, DriverTypes
  <2>3. Control' /\ Running'
    BY <1>1, <1>2, <2>1, RunningKept DEF Control
  <2>4. ~Active'
    BY <2>1 DEF Active
  <2>5. Ample => NoOverflow'
    BY <1>2, <2>4 DEF NoOverflow
  <2> QED BY <2>2, <2>3, <2>4, <2>5 DEF PipelineInv, Ample
<1> QED BY <1>3, <1>4

\* A block arrives.
LEMMA ReceiveBlockStep ==
  ASSUME PipelineInv, NEW p \in Piece, ReceiveBlock(p)
  PROVE  PipelineInv'
<1> DEFINE b == received[p] + 1
           c == [kind |-> "write", piece |-> p, block |-> b]
           r == Enqueue(intake, c)
<1>1. /\ driver = "wait" /\ ~Backpressured /\ piece[p] = "wanted" /\ received[p] < Blocks
      /\ received' = [received EXCEPT ![p] = @ + 1] /\ After(r, "top")
      /\ UNCHANGED <<writes, hashes, running, finished, completions, lost, task, piece, stored, disk>>
  BY DEF ReceiveBlock, queues
<1>2. Types /\ Control /\ Running /\ cancelled \in BOOLEAN /\ intake \in Intake /\ TaskTypes /\ SwarmTypes
  BY TypePartsNow DEF PipelineInv, Types, TypeParts
<1>3. ~cancelled /\ intake.error = "none" /\ Active /\ Books /\ Pieces
  BY <1>1, <1>2 DEF PipelineInv, Control, Active
<1>4. /\ Blocks \in Nat /\ received[p] \in Nat /\ b \in 1 .. Blocks /\ c \in Command /\ IsWrite(c)
      /\ c.piece = p /\ c.block = b /\ c.kind = "write"
  BY <1>1, <1>2, Constants DEF SwarmTypes, Command, IsWrite
<1>5. c \notin InFlight
  <2> SUFFICES ASSUME c \in InFlight PROVE FALSE
    OBVIOUS
  <2>1. c.block \in 1 .. received[c.piece]
    BY <1>3, <1>4 DEF Pieces, Told
  <2> QED BY <1>4, <2>1
<1>6. /\ intake' = r /\ r \in Intake /\ Loaded(intake, {c}, r)
  <2>1. Loaded(intake, {}, intake)
    BY <1>2, <1>3, LoadedSelf
  <2>2. c \notin ToSet(intake.pending) \cup ToSet(intake.commands) \cup {}
    BY <1>5, LanesNow DEF Lanes, PendingSet, CommandSet
  <2> HIDE DEF c
  <2>3. Loaded(intake, {} \cup {c}, Enqueue(intake, c))
    BY <1>2, <1>4, <2>1, <2>2, EnqueueLoads
  <2>4. Loaded(intake, {c}, r)
    BY <2>3
  <2> HIDE DEF r
  <2> QED BY <1>1, <2>4 DEF Loaded, After
<1>7. TaskTypes' /\ SwarmTypes'
  BY <1>1, <1>2, <1>4 DEF TaskTypes, SwarmTypes
<1> HIDE DEF c, r
<1>8. ASSUME r.error = "none" PROVE Books' /\ InFlight' = InFlight \cup {c} /\ Unreported' = Unreported \cup {c}
  <2>1. SeqsOnce
    BY <1>3, LanesNow DEF Books, Lanes
  <2>2. IsInjective(Reported(completions')) /\ ToSet(Reported(completions')) = CompletionSet \ {}
    BY <1>1, <2>1 DEF SeqsOnce, CompletionSet
  <2>3. /\ intake.jobs = Cardinality(InFlight \ {})
        /\ intake.resident = Cardinality(WritesIn(InFlight \ {}))
        /\ {} \subseteq CompletionSet /\ {c} \cap InFlight = {}
    BY <1>3, <1>5, CountersSelf
  <2>4. intake'.error = "none" /\ driver' # "restarting" /\ Loaded(intake, {c}, intake')
    BY <1>1, <1>6, <1>8 DEF After
  <2>5. Books' /\ InFlight' = (InFlight \ {}) \cup {c} /\ Unreported' = Unreported \cup {c}
    BY <1>1, <1>2, <1>3, <2>2, <2>3, <2>4, DriverBooks
  <2> QED BY <2>5
<1>9. ASSUME r.error = "none" PROVE Pieces'
  <2>1. InFlight' = InFlight \cup {c} /\ Unreported' = Unreported \cup {c}
    BY <1>8, <1>9
  <2>2. /\ received' = [received EXCEPT ![p] = b] /\ received'[p] = b
        /\ \A q \in Piece : q # p => received'[q] = received[q]
    BY <1>1, <1>2 DEF SwarmTypes
  <2>3. InFlight \subseteq Command /\ \A d \in Command : d.piece \in Piece
    BY <1>2, InFlightType DEF Command
  <2>4. \A d \in InFlight \cup {c} : Told(d)'
    <3> SUFFICES ASSUME NEW d \in InFlight \cup {c} PROVE Told(d)'
      OBVIOUS
    <3>1. CASE d = c
      <4>1. b \in 1 .. b
        BY <1>4
      <4>2. piece'[d.piece] = "wanted" /\ d.block \in 1 .. received'[d.piece] /\ d.kind = "write"
        BY <1>1, <1>4, <2>2, <3>1, <4>1
      <4> QED BY <4>2 DEF Told
    <3>2. CASE d \in InFlight
      <4>1. Told(d) /\ d.piece \in Piece
        BY <1>3, <2>3, <3>2 DEF Pieces
      <4>2. \A k \in 1 .. received[d.piece] : k \in 1 .. received'[d.piece]
        BY <1>4, <2>2, <4>1
      <4> QED BY <1>1, <4>1, <4>2 DEF Told
    <3> QED BY <3>1, <3>2
  <2>5. \A d \in Unreported' : d.kind = "verify" => BlocksOf(d.piece) \subseteq disk'
    BY <1>1, <1>3, <1>4, <2>1 DEF Pieces
  <2>6. ReportsTrue(finished)' /\ ReportsTrue(completions)'
    BY <1>1, <1>3 DEF Pieces, ReportsTrue
  <2>7. ASSUME NEW q \in Piece, piece'[q] = "wanted" PROVE Downloading(q)'
    <3>1. Downloading(q)
      BY <1>1, <1>3, <2>7 DEF Pieces
    <3>2. CASE q # p
      <4>1. WritesOf(q)' = WritesOf(q)
        BY <1>4, <2>1, <3>2 DEF WritesOf
      <4> QED BY <1>1, <2>2, <3>1, <3>2, <4>1 DEF Downloading
    <3>3. CASE q = p
      <4>1. WritesOf(p)' = WritesOf(p) \cup {c} /\ c \notin WritesOf(p)
        BY <1>4, <1>5, <2>1 DEF WritesOf
      <4>2. IsFiniteSet(WritesOf(p))
        BY <1>3, FS_Subset DEF WritesOf, Books
      <4>3. Cardinality(WritesOf(p)') = Cardinality(WritesOf(p)) + 1 /\ Cardinality(WritesOf(p)) \in Nat
        BY <4>1, <4>2, FS_AddElement, FS_CardinalityType
      <4>4. stored[p] + Cardinality(WritesOf(p)') = received'[p]
        <5>1. stored[p] \in Nat /\ stored[p] + Cardinality(WritesOf(p)) = received[p]
          BY <1>2, <3>1, <3>3, Constants DEF SwarmTypes, Downloading
        <5> QED BY <1>4, <2>2, <4>3, <5>1
      <4>5. ASSUME NEW k \in 1 .. received'[p]
            PROVE  <<p, k>> \in disk' \/ \E d \in WritesOf(p)' : d.block = k
        <5>1. CASE k = b
          BY <1>4, <4>1, <5>1
        <5>2. CASE k # b
          <6>1. k \in 1 .. received[p]
            BY <1>4, <2>2, <5>2
          <6> QED BY <1>1, <3>1, <3>3, <4>1, <6>1 DEF Downloading
        <5> QED BY <5>1, <5>2
      <4> QED BY <1>1, <3>3, <4>4, <4>5 DEF Downloading
    <3> QED BY <3>2, <3>3
  <2>8. \A q \in Piece : Awaited(q)'
    BY <1>1, <1>3, <2>1 DEF Pieces, Awaited
  <2> QED BY <2>1, <2>4, <2>5, <2>6, <2>7, <2>8 DEF Pieces
<1>10. ASSUME Ample
       PROVE  /\ r.error \notin {"payload", "pending"}
              /\ r.error = "none" => /\ r.jobs <= Limit + 1 /\ Len(r.pending) <= PendingQueue
                                     /\ ~r.pressured => r.resident < High
  <2>1. Bounded
    BY <1>3, <1>10 DEF PipelineInv, NoOverflow
  <2>2. /\ intake.pressured = FALSE /\ intake.pending = <<>> /\ ~(intake.jobs >= Limit)
        /\ Len(intake.pending) = 0
    BY <1>1, <1>2 DEF Backpressured, Intake
  <2>3. /\ intake.resident \in Nat /\ intake.resident < High /\ intake.jobs \in Nat /\ intake.jobs < Limit
        /\ Limit \in Nat /\ High \in Nat /\ High <= Limit /\ Weight(c) = 1
    BY <1>2, <1>4, <2>1, <2>2, Constants DEF Bounded, Intake, Weight
  <2>4. intake.resident + Weight(c) <= Limit /\ Len(intake.pending) < PendingQueue
    BY <2>2, <2>3 DEF PendingQueue
  <2>5. /\ r.error = "none" /\ Len(r.pending) <= Len(intake.pending) + 1 /\ Len(r.pending) \in Nat
        /\ r.jobs = intake.jobs + 1 /\ (~r.pressured => r.resident < High)
    BY <1>2, <1>3, <1>4, <2>4, EnqueueFits DEF r, Books
  <2> QED BY <2>2, <2>3, <2>5 DEF PendingQueue
<1> QED BY <1>1, <1>3, <1>6, <1>7, <1>8, <1>9, <1>10, AfterStep

\* A hash response makes candidates verifiable.
LEMMA ReceiveHashesStep ==
  ASSUME PipelineInv, NEW S \in SUBSET Candidate, ReceiveHashes(S)
  PROVE  PipelineInv'
<1> DEFINE X == Checks(S)
           r == EnqueueAll(intake, S)
<1>1. /\ driver = "wait" /\ ~Backpressured /\ \A p \in S : piece[p] = "candidate"
      /\ piece' = [p \in Piece |-> IF p \in S THEN "checking" ELSE piece[p]] /\ After(r, "top")
      /\ UNCHANGED <<writes, hashes, running, finished, completions, lost, task, received, stored, disk>>
  BY DEF ReceiveHashes, queues
<1>2. Types /\ Control /\ Running /\ cancelled \in BOOLEAN /\ intake \in Intake /\ TaskTypes /\ SwarmTypes
  BY TypePartsNow DEF PipelineInv, Types, TypeParts
<1>3. ~cancelled /\ intake.error = "none" /\ Active /\ Books /\ Pieces
  BY <1>1, <1>2 DEF PipelineInv, Control, Active
<1>4. S \in SUBSET Piece /\ IsFiniteSet(S) /\ Cardinality(S) <= Cardinality(Candidate)
      /\ Cardinality(Candidate) \in Nat
  BY Constants, FS_Subset, FS_CardinalityType
<1>5. /\ IsFiniteSet(X) /\ Cardinality(X) <= Cardinality(S) /\ Cardinality(X) \in Nat
      /\ Cardinality(S) \in Nat /\ X \subseteq Command /\ WritesIn(X) = {}
  BY <1>4, ChecksFacts
<1>6. \A d \in X : d.kind = "candidate" /\ d.piece \in S /\ d.block = 0 /\ ~IsWrite(d)
  BY DEF Checks, Check, IsWrite
<1>7. X \cap InFlight = {}
  <2> SUFFICES ASSUME NEW d \in X, d \in InFlight PROVE FALSE
    OBVIOUS
  <2>1. piece[d.piece] = "checking"
    BY <1>3, <1>6 DEF Pieces, Told
  <2> QED BY <1>1, <1>6, <2>1
<1> HIDE DEF X
<1>8. /\ intake' = r /\ r \in Intake /\ Loaded(intake, X, r)
      /\ Roomy(intake, 0) /\ Cardinality(S) <= PendingQueue => Roomy(r, Cardinality(S))
  <2>1. Loaded(intake, {}, intake)
    BY <1>2, <1>3, LoadedSelf
  <2>2. Checks(S) \cap (ToSet(intake.pending) \cup ToSet(intake.commands)) = {}
    BY <1>7, LanesNow DEF X, Lanes, PendingSet, CommandSet
  <2>3. /\ Loaded(intake, Checks(S), r)
        /\ Roomy(intake, 0) /\ Cardinality(S) <= PendingQueue => Roomy(r, Cardinality(S))
    BY <1>2, <1>4, <2>1, <2>2, EnqueueAllFacts
  <2> HIDE DEF r
  <2> QED BY <1>1, <2>3 DEF X, Loaded, After
<1> HIDE DEF r
<1>9. TaskTypes' /\ SwarmTypes'
  BY <1>1, <1>2 DEF TaskTypes, SwarmTypes
<1>10. ASSUME r.error = "none" PROVE Books' /\ InFlight' = InFlight \cup X /\ Unreported' = Unreported \cup X
  <2>1. SeqsOnce
    BY <1>3, LanesNow DEF Books, Lanes
  <2>2. IsInjective(Reported(completions')) /\ ToSet(Reported(completions')) = CompletionSet \ {}
    BY <1>1, <2>1 DEF SeqsOnce, CompletionSet
  <2>3. /\ intake.jobs = Cardinality(InFlight \ {})
        /\ intake.resident = Cardinality(WritesIn(InFlight \ {}))
        /\ {} \subseteq CompletionSet
    BY <1>3, CountersSelf
  <2>4. intake'.error = "none" /\ driver' # "restarting" /\ Loaded(intake, X, intake')
    BY <1>1, <1>8, <1>10 DEF After
  <2>5. Books' /\ InFlight' = (InFlight \ {}) \cup X /\ Unreported' = Unreported \cup X
    BY <1>1, <1>2, <1>3, <1>7, <2>2, <2>3, <2>4, DriverBooks
  <2> QED BY <2>5
<1>11. ASSUME r.error = "none" PROVE Pieces'
  <2>1. InFlight' = InFlight \cup X /\ Unreported' = Unreported \cup X
    BY <1>10, <1>11
  <2>2. InFlight \subseteq Command /\ \A d \in Command : d.piece \in Piece
    BY <1>2, InFlightType DEF Command
  <2>3. \A d \in InFlight \cup X : Told(d)'
    <3> SUFFICES ASSUME NEW d \in InFlight \cup X PROVE Told(d)'
      OBVIOUS
    <3>1. CASE d \in X
      <4>1. piece'[d.piece] = "checking" /\ d.kind = "candidate" /\ d.block = 0 /\ ~IsWrite(d)
        BY <1>1, <1>4, <1>6, <3>1
      <4> QED BY <4>1 DEF Told
    <3>2. CASE d \in InFlight
      <4>1. Told(d) /\ d.piece \in Piece /\ d \in Command
        BY <1>3, <2>2, <3>2 DEF Pieces
      <4>2. piece[d.piece] # "candidate"
        BY <4>1 DEF Told, Command, IsWrite
      <4>3. piece'[d.piece] = piece[d.piece]
        BY <1>1, <4>1, <4>2
      <4> QED BY <1>1, <4>1, <4>3 DEF Told
    <3> QED BY <3>1, <3>2
  <2>5. \A d \in Unreported' : d.kind = "verify" => BlocksOf(d.piece) \subseteq disk'
    BY <1>1, <1>3, <1>6, <2>1 DEF Pieces
  <2>6. ReportsTrue(finished)' /\ ReportsTrue(completions)'
    BY <1>1, <1>3 DEF Pieces, ReportsTrue
  <2>7. ASSUME NEW q \in Piece, piece'[q] = "wanted" PROVE Downloading(q)'
    <3>1. piece[q] = "wanted"
      BY <1>1, <2>7
    <3>2. Downloading(q)
      BY <1>3, <3>1 DEF Pieces
    <3>3. WritesOf(q)' = WritesOf(q)
      BY <1>6, <2>1 DEF WritesOf
    <3> QED BY <1>1, <3>2, <3>3 DEF Downloading
  <2>8. ASSUME NEW q \in Piece PROVE Awaited(q)'
    <3>1. CASE q \in S
      <4>1. Check(q) \in X /\ Check(q).piece = q
        BY <3>1 DEF X, Checks, Check
      <4> QED BY <1>6, <2>1, <4>1 DEF Awaited
    <3>2. CASE q \notin S
      <4>1. piece'[q] = piece[q] /\ Awaited(q)
        BY <1>1, <1>3, <3>2 DEF Pieces
      <4> QED BY <2>1, <4>1 DEF Awaited
    <3> QED BY <3>1, <3>2
  <2> QED BY <2>1, <2>3, <2>5, <2>6, <2>7, <2>8 DEF Pieces
<1>12. ASSUME Ample
       PROVE  /\ r.error \notin {"payload", "pending"}
              /\ r.error = "none" => /\ r.jobs <= Limit + 1 /\ Len(r.pending) <= PendingQueue
                                     /\ ~r.pressured => r.resident < High
  <2>1. Bounded
    BY <1>3, <1>12 DEF PipelineInv, NoOverflow
  <2>2. /\ intake.pressured = FALSE /\ intake.pending = <<>> /\ ~(intake.jobs >= Limit)
        /\ Len(intake.pending) = 0
    BY <1>1, <1>2 DEF Backpressured, Intake
  <2>3. Roomy(intake, 0)
    BY <1>3, <2>1, <2>2 DEF Roomy, Bounded, Books
  <2>4. Cardinality(S) <= PendingQueue /\ Cardinality(X) <= 2
    BY <1>4, <1>5, <1>12 DEF Ample, PendingQueue
  <2>5. /\ r.error = "none" /\ Len(r.pending) \in Nat /\ Len(r.pending) <= Cardinality(S)
        /\ (~r.pressured => r.resident < High)
    BY <1>8, <2>3, <2>4 DEF Roomy
  <2>6. r.jobs = intake.jobs + Cardinality(X)
    BY <1>8, <2>5 DEF Loaded
  <2>7. intake.jobs \in Nat /\ intake.jobs < Limit /\ Limit \in Nat
    BY <1>2, <2>2, Constants DEF Intake
  <2>8. r.jobs <= Limit + 1
    BY <1>5, <2>4, <2>6, <2>7
  <2>9. Len(r.pending) <= PendingQueue
    BY <1>5, <2>4, <2>5 DEF PendingQueue
  <2> QED BY <2>5, <2>8, <2>9
<1> QED BY <1>1, <1>3, <1>8, <1>9, <1>10, <1>11, <1>12, AfterStep

\* A new pipeline after a drain: what is not complete starts again.
LEMMA RestartStep ==
  ASSUME PipelineInv, NEW S \in SUBSET Candidate, Restart(S)
  PROVE  PipelineInv'
<1> DEFINE X == Checks(S)
           r == EnqueueAll(intake, S)
<1>1. /\ driver = "restarting" /\ task = "ended" /\ \A p \in S : piece[p] = "wanted"
      /\ task' = "top"
      /\ received' = [p \in Piece |-> IF piece[p] = "wanted" THEN 0 ELSE received[p]]
      /\ stored' = [p \in Piece |-> IF piece[p] = "wanted" THEN 0 ELSE stored[p]]
      /\ piece' = [p \in Piece |-> IF p \in S THEN "checking" ELSE piece[p]]
      /\ intake' = r /\ driver' = IF r.error = "none" THEN "top" ELSE "stopping"
      /\ closed' = (r.error # "none") /\ cancelled' = (r.error # "none")
      /\ UNCHANGED <<writes, hashes, running, finished, completions, lost, disk>>
  BY DEF Restart, queues
<1>2. Types /\ Control /\ Running /\ cancelled \in BOOLEAN /\ intake \in Intake /\ TaskTypes /\ SwarmTypes
  BY TypePartsNow DEF PipelineInv, Types, TypeParts
<1>3. ~cancelled /\ intake.error = "none" /\ Active /\ Books /\ Pieces
  BY <1>1, <1>2 DEF PipelineInv, Control, Active
<1>4. S \in SUBSET Piece /\ IsFiniteSet(S) /\ Cardinality(S) <= Cardinality(Candidate)
      /\ Cardinality(Candidate) \in Nat
  BY Constants, FS_Subset, FS_CardinalityType
<1>5. /\ IsFiniteSet(X) /\ Cardinality(X) <= Cardinality(S) /\ Cardinality(X) \in Nat
      /\ Cardinality(S) \in Nat /\ X \subseteq Command /\ WritesIn(X) = {}
  BY <1>4, ChecksFacts
<1>6. \A d \in X : d.kind = "candidate" /\ d.piece \in S /\ d.block = 0 /\ ~IsWrite(d)
  BY DEF Checks, Check, IsWrite
<1>7. InFlight = {} /\ intake.jobs = 0
  BY <1>1, <1>3, FS_EmptySet DEF Books
<1> HIDE DEF X
<1>8. /\ r \in Intake /\ Loaded(intake, X, r)
      /\ Roomy(intake, 0) /\ Cardinality(S) <= PendingQueue => Roomy(r, Cardinality(S))
  <2>1. Loaded(intake, {}, intake)
    BY <1>2, <1>3, LoadedSelf
  <2>2. Checks(S) \cap (ToSet(intake.pending) \cup ToSet(intake.commands)) = {}
    BY <1>7, LanesNow DEF Lanes, PendingSet, CommandSet
  <2>3. /\ Loaded(intake, Checks(S), r)
        /\ Roomy(intake, 0) /\ Cardinality(S) <= PendingQueue => Roomy(r, Cardinality(S))
    BY <1>2, <1>4, <2>1, <2>2, EnqueueAllFacts
  <2> HIDE DEF r
  <2> QED BY <2>3 DEF X, Loaded
<1> HIDE DEF r
<1>9. Types'
  <2>1. 0 \in 0 .. Blocks
    BY Constants
  <2>2. SwarmTypes'
    BY <1>1, <1>2, <2>1 DEF SwarmTypes
  <2>3. TaskTypes' /\ DriverTypes'
    BY <1>1, <1>2 DEF TaskTypes, DriverTypes
  <2> QED BY <1>1, <1>8, <2>2, <2>3, TypePartsNext DEF TypeParts
<1>10. Control' /\ Running'
  BY <1>1, <1>2, RunningKept DEF Control
<1>11. ASSUME r.error = "none" PROVE Books' /\ Pieces'
  <2>1. SeqsOnce
    BY <1>3, LanesNow DEF Books, Lanes
  <2>2. IsInjective(Reported(completions')) /\ ToSet(Reported(completions')) = CompletionSet \ {}
    BY <1>1, <2>1 DEF SeqsOnce, CompletionSet
  <2>3. /\ intake.jobs = Cardinality(InFlight \ {})
        /\ intake.resident = Cardinality(WritesIn(InFlight \ {}))
        /\ {} \subseteq CompletionSet /\ X \cap InFlight = {}
    BY <1>3, <1>7, CountersSelf
  <2>4. intake'.error = "none" /\ driver' # "restarting" /\ Loaded(intake, X, intake')
    BY <1>1, <1>8, <1>11
  <2>5. Books' /\ InFlight' = (InFlight \ {}) \cup X /\ Unreported' = Unreported \cup X
    BY <1>1, <1>2, <1>3, <2>2, <2>3, <2>4, DriverBooks
  <2>6. InFlight' = X /\ Unreported' = X
    BY <1>7, <2>5, LanesNow DEF Lanes
  <2>7. \A d \in X : Told(d)'
    <3> SUFFICES ASSUME NEW d \in X PROVE Told(d)'
      OBVIOUS
    <3>1. piece'[d.piece] = "checking" /\ d.kind = "candidate" /\ d.block = 0 /\ ~IsWrite(d)
      BY <1>1, <1>4, <1>6
    <3> QED BY <3>1 DEF Told
  <2>8. \A d \in Unreported' : d.kind = "verify" => BlocksOf(d.piece) \subseteq disk'
    BY <1>6, <2>6
  <2>9. ReportsTrue(finished)' /\ ReportsTrue(completions)'
    BY <1>1, <1>3 DEF Pieces, ReportsTrue
  <2>10. ASSUME NEW q \in Piece, piece'[q] = "wanted" PROVE Downloading(q)'
    <3>1. received'[q] = 0 /\ stored'[q] = 0
      BY <1>1, <2>10
    <3>2. WritesOf(q)' = {}
      BY <1>6, <2>6 DEF WritesOf
    <3>3. Cardinality(WritesOf(q)') = 0
      BY <3>2, FS_EmptySet
    <3> QED BY <3>1, <3>3 DEF Downloading
  <2>11. ASSUME NEW q \in Piece PROVE Awaited(q)'
    <3>1. CASE q \in S
      <4>1. Check(q) \in X /\ Check(q).piece = q
        BY <3>1 DEF X, Checks, Check
      <4> QED BY <1>6, <2>6, <4>1 DEF Awaited
    <3>2. CASE q \notin S
      <4>1. piece'[q] = piece[q] /\ Awaited(q)
        BY <1>1, <1>3, <3>2 DEF Pieces
      <4> QED BY <1>7, <4>1 DEF Awaited
    <3> QED BY <3>1, <3>2
  <2> QED BY <2>5, <2>6, <2>7, <2>8, <2>9, <2>10, <2>11 DEF Pieces
<1>12. ASSUME Ample PROVE NoOverflow'
  <2>1. Bounded
    BY <1>3, <1>12 DEF PipelineInv, NoOverflow
  <2>2. Len(intake.pending) = 0
    <3> DEFINE x == Len(intake.pending)
               y == Len(intake.commands)
    <3>1. x + y <= 0
      BY <1>2, <1>3, <1>7, IntakeCounted
    <3>2. x \in Nat /\ y \in Nat
      BY <1>2 DEF Intake
    <3> HIDE DEF x, y
    <3>3. x = 0
      BY <3>1, <3>2
    <3> QED BY <3>3 DEF x
  <2>3. Roomy(intake, 0)
    BY <1>3, <2>1, <2>2 DEF Roomy, Bounded, Books
  <2>4. Cardinality(S) <= PendingQueue /\ Cardinality(X) <= 2
    BY <1>4, <1>5, <1>12 DEF Ample, PendingQueue
  <2>5. /\ r.error = "none" /\ Len(r.pending) \in Nat /\ Len(r.pending) <= Cardinality(S)
        /\ (~r.pressured => r.resident < High)
    BY <1>8, <2>3, <2>4 DEF Roomy
  <2>6. r.jobs = Cardinality(X)
    BY <1>5, <1>7, <1>8, <2>5 DEF Loaded
  <2>7. r.jobs <= Limit + 1
    BY <1>5, <2>4, <2>6, Constants
  <2>8. Len(r.pending) <= PendingQueue
    BY <1>5, <2>4, <2>5 DEF PendingQueue
  <2>9. Bounded'
    BY <1>1, <2>5, <2>7, <2>8 DEF Bounded
  <2> QED BY <1>1, <2>5, <2>9 DEF NoOverflow
<1>13. Active' => r.error = "none"
  BY <1>1 DEF Active
<1> QED BY <1>9, <1>10, <1>11, <1>12, <1>13 DEF PipelineInv, Ample

\* The reports behind the first one.
LEMMA ReportedTail ==
  ASSUME NEW s \in Seq(Report), s # <<>>
  PROVE  Reported(Tail(s)) = Tail(Reported(s)) /\ Head(Reported(s)) = Head(s).command
         /\ Reported(s) # <<>> /\ Tail(s) \in Seq(Report) /\ Head(s) \in Report
<1> DEFINE t == Tail(s)
           u == Reported(s)
           v == Tail(u)
<1>1. /\ t \in Seq(Report) /\ Len(t) = Len(s) - 1 /\ Len(s) \in Nat \ {0} /\ Head(s) = s[1]
      /\ \A k \in 1 .. (Len(s) - 1) : t[k] = s[k + 1]
      /\ DOMAIN s = 1 .. Len(s) /\ s[1] \in Report
  OBVIOUS
<1>2. /\ u \in Seq(Command) /\ Len(u) = Len(s) /\ \A k \in 1 .. Len(s) : u[k] = s[k].command
  BY <1>1, ReportedFacts
<1> HIDE DEF t
<1>3. Reported(t) \in Seq(Command) /\ Len(Reported(t)) = Len(t)
      /\ \A k \in 1 .. Len(t) : Reported(t)[k] = t[k].command
  <2>1. DOMAIN t = 1 .. Len(t)
    BY <1>1
  <2> QED BY <1>1, <2>1, ReportedFacts
<1> HIDE DEF u
<1>4. /\ u # <<>> /\ v \in Seq(Command) /\ Len(v) = Len(s) - 1 /\ Head(u) = u[1]
      /\ \A k \in 1 .. (Len(s) - 1) : v[k] = u[k + 1]
  BY <1>1, <1>2
<1>5. \A k \in 1 .. (Len(s) - 1) : (k + 1) \in 1 .. Len(s)
  BY <1>1
<1>6. Reported(t) = v
  <2> DEFINE w == Reported(t)
  <2>1. \A k \in 1 .. (Len(s) - 1) : w[k] = v[k]
    BY <1>1, <1>2, <1>3, <1>4, <1>5
  <2>2. w \in Seq(Command) /\ v \in Seq(Command) /\ Len(w) = Len(s) - 1 /\ Len(v) = Len(s) - 1
    BY <1>1, <1>3, <1>4
  <2> HIDE DEF w, v
  <2>3. w = v
    BY <2>1, <2>2
  <2> QED BY <2>3 DEF w
<1>7. 1 \in 1 .. Len(s)
  BY <1>1
<1> QED BY <1>1, <1>2, <1>4, <1>6, <1>7 DEF t, u

\* Commands with the same fields are the same.
LEMMA SameCommand ==
  ASSUME NEW c \in Command, NEW d \in Command, c.kind = d.kind, c.piece = d.piece, c.block = d.block
  PROVE  c = d
BY DEF Command

\* The report the driver handles next, and the intake without its command.
LEMMA HeadFacts ==
  ASSUME Types, Books, Pieces, intake.error = "none", completions # <<>>, NEW c, c = Head(completions)
  PROVE  LET d == c.command
             base == Finished(intake, d)
         IN /\ c \in Report /\ d \in Command /\ d \in CompletionSet /\ d \in InFlight /\ Told(d)
            /\ IsWrite(d) /\ c.ok => <<d.piece, d.block>> \in disk
            /\ base \in Intake /\ base.pending = intake.pending /\ base.commands = intake.commands
            /\ base.error = "none" /\ base.jobs = intake.jobs - 1
            /\ base.jobs = Cardinality(InFlight \ {d})
            /\ base.resident = Cardinality(WritesIn(InFlight \ {d}))
            /\ ~base.pressured => base.resident < High
            /\ Loaded(base, {}, base)
            /\ Tail(completions) \in Seq(Report) /\ Len(Tail(completions)) <= Limit
            /\ IsInjective(Reported(Tail(completions)))
            /\ ToSet(Reported(Tail(completions))) = CompletionSet \ {d}
            /\ ReportsTrue(Tail(completions))
<1> DEFINE d == c.command
           base == Finished(intake, d)
           s == completions
<1>1. s \in Seq(Report) /\ Len(s) <= Limit /\ Limit \in Nat /\ intake \in Intake
  BY TypePartsNow, Constants DEF TypeParts, TaskTypes
<1>2. /\ Reported(Tail(s)) = Tail(Reported(s)) /\ Head(Reported(s)) = d /\ Reported(s) # <<>>
      /\ Tail(s) \in Seq(Report) /\ c \in Report
  BY <1>1, ReportedTail
<1>3. IsInjective(Reported(s)) /\ Reported(s) \in Seq(Command)
  BY <1>1, ReportedFacts, LanesNow DEF Books, Lanes, SeqsOnce
<1>4. /\ IsInjective(Tail(Reported(s))) /\ d \in Command /\ d \in CompletionSet
      /\ ToSet(Tail(Reported(s))) = CompletionSet \ {d}
  BY <1>2, <1>3, TailFacts DEF CompletionSet
<1>5. d \in InFlight /\ Told(d)
  BY <1>4, LanesNow DEF Lanes, Pieces
<1>6. /\ Len(Tail(s)) <= Limit /\ 1 \in DOMAIN s /\ s[1] = c
      /\ \A k \in DOMAIN Tail(s) : (k + 1) \in DOMAIN s /\ Tail(s)[k] = s[k + 1]
  BY <1>1
<1>7. ReportsTrue(s)
  BY DEF Pieces
<1>8. IsWrite(d) /\ c.ok => <<d.piece, d.block>> \in disk
  BY <1>6, <1>7 DEF ReportsTrue
<1>9. ReportsTrue(Tail(s))
  BY <1>6, <1>7 DEF ReportsTrue
<1> HIDE DEF s, d, base
<1> DEFINE Z == InFlight \ {d}
<1>10. /\ IsFiniteSet(Z) /\ d \notin Z /\ Z \cup {d} = InFlight
  BY <1>5, FS_Subset DEF Books
<1>11. /\ Cardinality(InFlight) = Cardinality(Z) + 1
       /\ Cardinality(WritesIn(InFlight)) = Cardinality(WritesIn(Z)) + Weight(d)
       /\ Cardinality(Z) \in Nat /\ Cardinality(WritesIn(Z)) \in Nat
  BY <1>10, OneMore
<1>12. Weight(d) \in Nat
  BY DEF Weight
<1>13. intake.jobs >= 1 /\ intake.resident >= Weight(d)
       /\ intake.jobs - 1 = Cardinality(Z) /\ intake.resident - Weight(d) = Cardinality(WritesIn(Z))
  BY <1>11, <1>12 DEF Books
<1>14. /\ base \in Intake /\ base.pending = intake.pending /\ base.commands = intake.commands
       /\ base.jobs = intake.jobs - 1 /\ base.resident = intake.resident - Weight(d)
       /\ base.error = intake.error /\ (~base.pressured => base.resident < High)
  BY <1>1, <1>4, <1>13, FinishedFacts DEF base
<1>15. Loaded(base, {}, base)
  <2>1. Loaded(intake, {}, intake)
    BY LoadedSelf
  <2>2. base.jobs \in Nat /\ base.resident \in Nat
    BY <1>14, Constants DEF Intake
  <2>4. WritesIn({}) = {} /\ Cardinality({}) = 0
    BY FS_EmptySet DEF WritesIn
  <2>3. base.jobs = base.jobs + Cardinality({}) /\ base.resident = base.resident + Cardinality(WritesIn({}))
    <3>1. \A n \in Nat : n = n + 0
      OBVIOUS
    <3>2. Cardinality(WritesIn({})) = 0
      BY <2>4
    <3>3. base.jobs = base.jobs + 0 /\ base.resident = base.resident + 0
      BY <2>2, <3>1
    <3> QED BY <2>4, <3>2, <3>3
  <2> QED BY <1>14, <2>1, <2>3 DEF Loaded
<1> QED BY <1>1, <1>2, <1>4, <1>5, <1>6, <1>8, <1>9, <1>13, <1>14, <1>15 DEF s, d, base

\* the driver takes report c, and X is enqueued
Takes(c, X) ==
  /\ driver \in {"wait", "drainWait"} /\ ~cancelled /\ completions # <<>> /\ c = Head(completions)
  /\ completions' = Tail(completions)
  /\ UNCHANGED <<writes, hashes, running, finished, lost, task, disk>>
  /\ driver' # "restarting" /\ X \cap InFlight = {}
  /\ Loaded(Finished(intake, c.command), X, intake')

\* What is known when the driver takes a report.
LEMMA TakesBase ==
  ASSUME PipelineInv, driver \in {"wait", "drainWait"}
  PROVE  /\ Types /\ Control /\ Running /\ cancelled \in BOOLEAN /\ intake \in Intake
         /\ TaskTypes /\ SwarmTypes
         /\ ~cancelled /\ intake.error = "none" /\ Active /\ Books /\ Pieces
<1>1. Types /\ Control /\ Running /\ cancelled \in BOOLEAN /\ intake \in Intake /\ TaskTypes /\ SwarmTypes
  BY TypePartsNow DEF PipelineInv, Types, TypeParts
<1>2. ~cancelled /\ intake.error = "none" /\ Active
  BY <1>1 DEF Control, Active
<1> QED BY <1>1, <1>2 DEF PipelineInv

\* A report that is taken leaves the books in order.
LEMMA TakesBooks ==
  ASSUME PipelineInv, NEW c, NEW X, Takes(c, X)
  PROVE  /\ TaskTypes'
         /\ intake'.error = "none" =>
              /\ Books' /\ InFlight' = (InFlight \ {c.command}) \cup X /\ Unreported' = Unreported \cup X
              /\ ReportsTrue(finished)' /\ ReportsTrue(completions)'
<1> DEFINE d == c.command
           base == Finished(intake, d)
<1>1. /\ driver \in {"wait", "drainWait"} /\ completions # <<>> /\ c = Head(completions)
      /\ completions' = Tail(completions)
      /\ UNCHANGED <<writes, hashes, running, finished, lost, task, disk>>
      /\ driver' # "restarting" /\ X \cap InFlight = {} /\ Loaded(base, X, intake')
  BY DEF Takes
<1>2. Types /\ Books /\ Pieces /\ intake.error = "none" /\ TaskTypes /\ intake \in Intake
  BY <1>1, TakesBase
<1>3. /\ d \in CompletionSet
      /\ base \in Intake /\ base.pending = intake.pending /\ base.commands = intake.commands
      /\ base.jobs = Cardinality(InFlight \ {d})
      /\ base.resident = Cardinality(WritesIn(InFlight \ {d}))
      /\ Tail(completions) \in Seq(Report) /\ Len(Tail(completions)) <= Limit
      /\ IsInjective(Reported(Tail(completions)))
      /\ ToSet(Reported(Tail(completions))) = CompletionSet \ {d}
      /\ ReportsTrue(Tail(completions))
  BY <1>1, <1>2, HeadFacts
<1> HIDE DEF d, base
<1>4. TaskTypes'
  BY <1>1, <1>2, <1>3 DEF TaskTypes
<1>5. ReportsTrue(finished)'
  BY <1>1, <1>2 DEF Pieces, ReportsTrue
<1>6. ReportsTrue(completions)'
  BY <1>1, <1>3 DEF ReportsTrue
<1>7. ASSUME intake'.error = "none"
      PROVE  Books' /\ InFlight' = (InFlight \ {d}) \cup X /\ Unreported' = Unreported \cup X
  <2>1. {d} \subseteq CompletionSet
    BY <1>3
  <2>2. IsInjective(Reported(completions')) /\ ToSet(Reported(completions')) = CompletionSet \ {d}
    BY <1>1, <1>3
  <2> QED BY <1>1, <1>2, <1>3, <1>7, <2>1, <2>2, DriverBooks
<1> QED BY <1>4, <1>5, <1>6, <1>7 DEF d

\* A report that enqueues nothing fits.
LEMMA TakesFits ==
  ASSUME PipelineInv, NEW c, Takes(c, {}), intake' = Finished(intake, c.command), Ample
  PROVE  /\ intake'.error \notin {"payload", "pending"}
         /\ intake'.jobs <= Limit + 1 /\ Len(intake'.pending) <= PendingQueue
         /\ ~intake'.pressured => intake'.resident < High
<1>1. driver \in {"wait", "drainWait"} /\ completions # <<>> /\ c = Head(completions)
  BY DEF Takes
<1>2. Types /\ Books /\ Pieces /\ intake.error = "none" /\ intake \in Intake /\ Active
  BY <1>1, TakesBase
<1>3. Bounded
  BY <1>2 DEF PipelineInv, NoOverflow
<1>4. /\ intake'.pending = intake.pending /\ intake'.jobs = intake.jobs - 1 /\ intake'.error = "none"
      /\ ~intake'.pressured => intake'.resident < High
  BY <1>1, <1>2, HeadFacts
<1>5. intake.jobs \in Nat /\ Limit \in Nat /\ intake.jobs <= Limit + 1
  BY <1>2, <1>3, Constants DEF Intake, Bounded
<1>6. Len(intake.pending) <= 1 /\ Len(intake.pending) \in Nat
  BY <1>1, <1>2, <1>3 DEF Bounded, Intake
<1> QED BY <1>4, <1>5, <1>6 DEF PendingQueue

\* the driver takes report c, whatever it makes of it
Taken(c) ==
  /\ driver \in {"wait", "drainWait"} /\ completions # <<>> /\ c = Head(completions)
  /\ completions' = Tail(completions)
  /\ UNCHANGED <<writes, hashes, running, finished, lost, task, disk>>

\* A report after which nothing is enqueued.
LEMMA TakenPlain ==
  ASSUME PipelineInv, NEW c, Taken(c), NEW where \in {"top", "drain"},
         After(Finished(intake, c.command), where)
  PROVE  Takes(c, {}) /\ intake' = Finished(intake, c.command) /\ intake' \in Intake
         /\ intake'.error = "none"
<1>1. /\ driver \in {"wait", "drainWait"} /\ completions # <<>> /\ c = Head(completions)
      /\ intake' = Finished(intake, c.command)
  BY DEF Taken, After
<1>2. Types /\ Books /\ Pieces /\ intake.error = "none" /\ ~cancelled
  BY <1>1, TakesBase
<1> DEFINE base == Finished(intake, c.command)
<1>3. base \in Intake /\ Loaded(base, {}, base) /\ base.error = "none"
  BY <1>1, <1>2, HeadFacts
<1> HIDE DEF base
<1>4. driver' = where
  BY <1>3 DEF After, base
<1>5. driver' # "restarting" /\ {} \cap InFlight = {}
  BY <1>4
<1> QED BY <1>1, <1>2, <1>3, <1>5 DEF Takes, Taken, base

\* What a report's command and the commands still under way say.
LEMMA OthersTold ==
  ASSUME Types, Pieces
  PROVE  \A e \in InFlight : /\ e \in Command /\ e.piece \in Piece /\ Told(e)
                             /\ piece[e.piece] = "wanted" <=> IsWrite(e)
                             /\ piece[e.piece] = "hashing" <=> e.kind = "verify"
                             /\ piece[e.piece] = "checking" <=> e.kind = "candidate"
                             /\ ~IsWrite(e) => e.block = 0
<1> SUFFICES ASSUME NEW e \in InFlight
             PROVE  /\ e \in Command /\ e.piece \in Piece /\ Told(e)
                    /\ piece[e.piece] = "wanted" <=> IsWrite(e)
                    /\ piece[e.piece] = "hashing" <=> e.kind = "verify"
                    /\ piece[e.piece] = "checking" <=> e.kind = "candidate"
                    /\ ~IsWrite(e) => e.block = 0
  OBVIOUS
<1>1. e \in Command /\ Told(e)
  BY InFlightType DEF Pieces
<1>2. e.kind \in {"write", "verify", "candidate"} /\ e.piece \in Piece
  BY <1>1 DEF Command
<1> QED BY <1>1, <1>2 DEF Told, IsWrite

\* A block is on disk, and it is not the last of its piece.
LEMMA StoredStep ==
  ASSUME PipelineInv, NEW c, Taken(c), NEW where \in {"top", "drain"},
         IsWrite(c.command), c.ok, ~ReadyToVerify(c.command.piece),
         stored' = [stored EXCEPT ![c.command.piece] = @ + 1], piece' = piece, received' = received,
         After(Finished(intake, c.command), where)
  PROVE  PipelineInv'
<1> DEFINE d == c.command
           p == d.piece
<1>1. /\ driver \in {"wait", "drainWait"} /\ completions # <<>> /\ c = Head(completions)
      /\ UNCHANGED <<writes, hashes, running, finished, lost, task, disk>>
  BY DEF Taken
<1>2. /\ Types /\ Books /\ Pieces /\ intake.error = "none" /\ ~cancelled /\ SwarmTypes
      /\ intake \in Intake
  BY <1>1, TakesBase
<1>3. Takes(c, {}) /\ intake' = Finished(intake, d) /\ intake' \in Intake /\ intake'.error = "none"
  BY TakenPlain
<1>4. /\ TaskTypes' /\ Books' /\ InFlight' = InFlight \ {d} /\ Unreported' = Unreported
      /\ ReportsTrue(finished)' /\ ReportsTrue(completions)'
  <2>1. /\ TaskTypes' /\ Books' /\ InFlight' = (InFlight \ {d}) \cup {} /\ Unreported' = Unreported \cup {}
        /\ ReportsTrue(finished)' /\ ReportsTrue(completions)'
    BY <1>3, TakesBooks
  <2> QED BY <2>1
<1>5. d \in InFlight /\ <<p, d.block>> \in disk
  BY <1>1, <1>2, HeadFacts
<1>6. p \in Piece /\ piece[p] = "wanted"
  BY <1>2, <1>5, OthersTold
<1>7. Downloading(p)
  BY <1>2, <1>6 DEF Pieces
<1> HIDE DEF d, p
<1> DEFINE W == WritesOf(p)
<1>8. IsFiniteSet(W) /\ d \in W
  BY <1>2, <1>5, FS_Subset DEF WritesOf, Books, d, p
<1>9. Cardinality(W) \in Nat /\ Cardinality(W \ {d}) = Cardinality(W) - 1 /\ Cardinality(W \ {d}) \in Nat
  BY <1>8, FS_RemoveElement, FS_Subset, FS_CardinalityType
<1>10. stored[p] \in Nat /\ received[p] \in Nat /\ Blocks \in Nat /\ received[p] <= Blocks
       /\ stored[p] + Cardinality(W) = received[p]
  BY <1>2, <1>6, <1>7, Constants DEF SwarmTypes, Downloading
<1>11. stored'[p] = stored[p] + 1 /\ \A q \in Piece : q # p => stored'[q] = stored[q]
  BY <1>2, <1>6 DEF SwarmTypes, d, p
<1>12. SwarmTypes'
  <2>1. stored[p] + 1 \in 0 .. Blocks
    BY <1>9, <1>10
  <2>2. stored' = [stored EXCEPT ![p] = stored[p] + 1]
    BY DEF d, p
  <2> QED BY <1>2, <1>6, <2>1, <2>2 DEF SwarmTypes
<1>13. Pieces'
  <2>1. \A e \in InFlight \ {d} : Told(e)'
    BY <1>2 DEF Pieces, Told
  <2>2. \A e \in Unreported' : e.kind = "verify" => BlocksOf(e.piece) \subseteq disk'
    BY <1>1, <1>2, <1>4 DEF Pieces
  <2>3. ASSUME NEW q \in Piece, piece'[q] = "wanted" PROVE Downloading(q)'
    <3>1. CASE q # p
      <4>1. WritesOf(q)' = WritesOf(q)
        BY <1>4, <3>1 DEF WritesOf, d, p
      <4>2. Downloading(q)
        BY <1>2, <2>3 DEF Pieces
      <4> QED BY <1>1, <1>11, <3>1, <4>1, <4>2 DEF Downloading
    <3>2. CASE q = p
      <4>1. WritesOf(q)' = W \ {d}
        BY <1>4, <3>2 DEF WritesOf
      <4>2. stored'[q] + Cardinality(W \ {d}) = received'[q]
        BY <1>9, <1>10, <1>11, <3>2
      <4>3. ASSUME NEW k \in 1 .. received'[q]
            PROVE  <<q, k>> \in disk' \/ \E e \in W \ {d} : e.block = k
        <5>1. <<p, k>> \in disk \/ \E e \in W : e.block = k
          BY <1>7, <3>2 DEF Downloading
        <5> QED BY <1>1, <1>5, <3>2, <5>1
      <4> QED BY <4>1, <4>2, <4>3 DEF Downloading
    <3> QED BY <3>1, <3>2
  <2>4. ASSUME NEW q \in Piece PROVE Awaited(q)'
    <3>1. Awaited(q) /\ piece'[q] = piece[q]
      BY <1>2 DEF Pieces
    <3> QED BY <1>4, <3>1 DEF Awaited, d
  <2> QED BY <1>4, <2>1, <2>2, <2>3, <2>4 DEF Pieces
<1>14. Ample => /\ intake'.error \notin {"payload", "pending"}
                /\ intake'.jobs <= Limit + 1 /\ Len(intake'.pending) <= PendingQueue
                /\ ~intake'.pressured => intake'.resident < High
  BY <1>3, TakesFits DEF d
<1> DEFINE r == Finished(intake, c.command)
<1>15. intake' = r /\ r \in Intake /\ After(r, where)
  BY <1>3 DEF d
<1> HIDE DEF r
<1> QED BY <1>1, <1>2, <1>4, <1>12, <1>13, <1>14, <1>15, AfterStep

\* A block cannot be written: the download fails.
LEMMA FailedStep ==
  ASSUME PipelineInv, NEW c, Taken(c), NEW where \in {"top", "drain"},
         After([Finished(intake, c.command) EXCEPT !.error = "write"], where),
         UNCHANGED <<piece, received, stored>>
  PROVE  PipelineInv'
<1>1. /\ driver \in {"wait", "drainWait"} /\ completions # <<>> /\ c = Head(completions)
      /\ completions' = Tail(completions)
      /\ UNCHANGED <<writes, hashes, running, finished, lost, task, disk>>
  BY DEF Taken
<1>2. /\ Types /\ Books /\ Pieces /\ intake.error = "none" /\ ~cancelled /\ SwarmTypes /\ TaskTypes
  BY <1>1, TakesBase
<1> DEFINE base == Finished(intake, c.command)
           r == [base EXCEPT !.error = "write"]
<1>3. base \in Intake /\ Tail(completions) \in Seq(Report) /\ Len(Tail(completions)) <= Limit
  BY <1>1, <1>2, HeadFacts
<1> HIDE DEF base
<1>4. r \in Intake /\ r.error = "write"
  BY <1>3 DEF Intake
<1>5. After(r, where)
  BY DEF base
<1> HIDE DEF r
<1>6. TaskTypes' /\ SwarmTypes'
  BY <1>1, <1>2, <1>3 DEF TaskTypes, SwarmTypes
<1> QED BY <1>1, <1>2, <1>4, <1>5, <1>6, AfterStep

\* A piece has been hashed: it is there, or it starts again.
LEMMA HashedStep ==
  ASSUME PipelineInv, NEW c, Taken(c), NEW where \in {"top", "drain"}, ~IsWrite(c.command),
         piece' = [piece EXCEPT ![c.command.piece] = IF c.ok THEN "have" ELSE "wanted"],
         received' = [received EXCEPT ![c.command.piece] = IF c.ok THEN @ ELSE 0],
         stored' = [stored EXCEPT ![c.command.piece] = IF c.ok THEN @ ELSE 0],
         After(Finished(intake, c.command), where)
  PROVE  PipelineInv'
<1> DEFINE d == c.command
           p == d.piece
<1>1. /\ driver \in {"wait", "drainWait"} /\ completions # <<>> /\ c = Head(completions)
      /\ UNCHANGED <<writes, hashes, running, finished, lost, task, disk>>
  BY DEF Taken
<1>2. /\ Types /\ Books /\ Pieces /\ intake.error = "none" /\ ~cancelled /\ SwarmTypes
      /\ intake \in Intake
  BY <1>1, TakesBase
<1>3. Takes(c, {}) /\ intake' = Finished(intake, d) /\ intake' \in Intake /\ intake'.error = "none"
  BY TakenPlain
<1>4. /\ TaskTypes' /\ Books' /\ InFlight' = InFlight \ {d} /\ Unreported' = Unreported
      /\ ReportsTrue(finished)' /\ ReportsTrue(completions)'
  <2>1. /\ TaskTypes' /\ Books' /\ InFlight' = (InFlight \ {d}) \cup {} /\ Unreported' = Unreported \cup {}
        /\ ReportsTrue(finished)' /\ ReportsTrue(completions)'
    BY <1>3, TakesBooks
  <2> QED BY <2>1
<1>5. d \in InFlight /\ c \in Report
  BY <1>1, <1>2, HeadFacts
<1>6. p \in Piece /\ d \in Command /\ ~IsWrite(d) /\ d.block = 0 /\ piece[p] # "wanted"
  BY <1>2, <1>5, OthersTold
<1>7. /\ piece' = [piece EXCEPT ![p] = IF c.ok THEN "have" ELSE "wanted"]
      /\ received' = [received EXCEPT ![p] = IF c.ok THEN received[p] ELSE 0]
      /\ stored' = [stored EXCEPT ![p] = IF c.ok THEN stored[p] ELSE 0]
  OBVIOUS
<1> HIDE DEF d
<1>8. \A e \in InFlight \ {d} : e.piece # p
  <2> SUFFICES ASSUME NEW e \in InFlight \ {d}, e.piece = p PROVE FALSE
    OBVIOUS
  <2>1. e \in Command /\ ~IsWrite(e) /\ e.block = 0
    BY <1>2, <1>6, OthersTold
  <2>2. d.kind \in {"verify", "candidate"} /\ e.kind \in {"verify", "candidate"}
    BY <1>6, <2>1 DEF Command, IsWrite
  <2>3. e.kind = d.kind
    BY <1>2, <1>5, <2>2, OthersTold
  <2>4. e = d
    BY <1>6, <2>1, <2>3, SameCommand
  <2> QED BY <2>4
<1> HIDE DEF p
<1>9. \A q \in Piece : q # p => piece'[q] = piece[q] /\ received'[q] = received[q] /\ stored'[q] = stored[q]
  BY <1>2, <1>6, <1>7 DEF SwarmTypes
<1>10. SwarmTypes'
  <2>1. received[p] \in 0 .. Blocks /\ stored[p] \in 0 .. Blocks /\ 0 \in 0 .. Blocks
    BY <1>2, <1>6, Constants DEF SwarmTypes
  <2> QED BY <1>2, <1>6, <1>7, <2>1 DEF SwarmTypes
<1>11. Pieces'
  <2>1. \A e \in InFlight \ {d} : Told(e)'
    <3> SUFFICES ASSUME NEW e \in InFlight \ {d} PROVE Told(e)'
      OBVIOUS
    <3>1. Told(e) /\ e.piece \in Piece /\ e.piece # p
      BY <1>2, <1>8, OthersTold
    <3> QED BY <1>9, <3>1 DEF Told
  <2>2. \A e \in Unreported' : e.kind = "verify" => BlocksOf(e.piece) \subseteq disk'
    BY <1>1, <1>2, <1>4 DEF Pieces
  <2>3. ASSUME NEW q \in Piece, piece'[q] = "wanted" PROVE Downloading(q)'
    <3>1. CASE q # p
      <4>1. WritesOf(q)' = WritesOf(q)
        BY <1>4, <1>6 DEF WritesOf
      <4>2. Downloading(q)
        BY <1>2, <1>9, <2>3, <3>1 DEF Pieces
      <4> QED BY <1>1, <1>9, <3>1, <4>1, <4>2 DEF Downloading
    <3>2. CASE q = p
      <4>1. WritesOf(q)' = {}
        BY <1>4, <1>8, <3>2 DEF WritesOf
      <4>2. Cardinality(WritesOf(q)') = 0
        BY <4>1, FS_EmptySet
      <4>3. received'[q] = 0 /\ stored'[q] = 0
        BY <1>2, <1>6, <1>7, <2>3, <3>2 DEF SwarmTypes
      <4> QED BY <4>2, <4>3 DEF Downloading
    <3> QED BY <3>1, <3>2
  <2>4. ASSUME NEW q \in Piece PROVE Awaited(q)'
    <3>1. CASE q = p
      <4>1. piece'[q] \in {"have", "wanted"}
        BY <1>2, <1>6, <1>7, <3>1 DEF SwarmTypes
      <4> QED BY <4>1 DEF Awaited
    <3>2. CASE q # p
      <4>1. Awaited(q) /\ piece'[q] = piece[q]
        BY <1>2, <1>9, <3>2 DEF Pieces
      <4> QED BY <1>4, <3>2, <4>1 DEF Awaited, p
    <3> QED BY <3>1, <3>2
  <2> QED BY <1>4, <2>1, <2>2, <2>3, <2>4 DEF Pieces
<1>12. Ample => /\ intake'.error \notin {"payload", "pending"}
                /\ intake'.jobs <= Limit + 1 /\ Len(intake'.pending) <= PendingQueue
                /\ ~intake'.pressured => intake'.resident < High
  BY <1>3, TakesFits DEF d
<1> DEFINE r == Finished(intake, c.command)
<1>13. intake' = r /\ r \in Intake /\ After(r, where)
  BY <1>3 DEF d
<1> HIDE DEF r
<1> QED BY <1>1, <1>2, <1>4, <1>10, <1>11, <1>12, <1>13, AfterStep

\* The last block of a piece is on disk: the piece is verified.
LEMMA VerifyStep ==
  ASSUME PipelineInv, NEW c, Taken(c), NEW where \in {"top", "drain"},
         IsWrite(c.command), c.ok, ReadyToVerify(c.command.piece),
         stored' = [stored EXCEPT ![c.command.piece] = @ + 1], received' = received,
         piece' = [piece EXCEPT ![c.command.piece] = "hashing"],
         After(Enqueue(Finished(intake, c.command),
                       [kind |-> "verify", piece |-> c.command.piece, block |-> 0]), where)
  PROVE  PipelineInv'
<1> DEFINE d == c.command
           p == d.piece
           v == [kind |-> "verify", piece |-> p, block |-> 0]
           base == Finished(intake, d)
           r == Enqueue(base, v)
<1>1. /\ driver \in {"wait", "drainWait"} /\ completions # <<>> /\ c = Head(completions)
      /\ completions' = Tail(completions)
      /\ UNCHANGED <<writes, hashes, running, finished, lost, task, disk>>
  BY DEF Taken
<1>2. /\ Types /\ Books /\ Pieces /\ intake.error = "none" /\ ~cancelled /\ SwarmTypes
      /\ intake \in Intake /\ Active
  BY <1>1, TakesBase
<1>3. /\ d \in InFlight /\ d \in Command /\ <<p, d.block>> \in disk
      /\ base \in Intake /\ base.pending = intake.pending /\ base.commands = intake.commands
      /\ base.error = "none" /\ base.jobs = intake.jobs - 1
      /\ (~base.pressured => base.resident < High) /\ Loaded(base, {}, base)
  BY <1>1, <1>2, HeadFacts
<1>4. p \in Piece /\ piece[p] = "wanted" /\ IsWrite(d)
  BY <1>2, <1>3, OthersTold
<1>5. v \in Command /\ v.kind = "verify" /\ v.piece = p /\ v.block = 0 /\ ~IsWrite(v)
  BY <1>4, Constants DEF Command, IsWrite
<1>6. /\ stored' = [stored EXCEPT ![p] = stored[p] + 1] /\ piece' = [piece EXCEPT ![p] = "hashing"]
      /\ After(r, where) /\ stored[p] + 1 = Blocks
  BY DEF ReadyToVerify
<1> HIDE DEF base, v
<1>7. v \notin InFlight
  BY <1>2, <1>4, <1>5, OthersTold
<1>8. Loaded(base, {v}, r)
  <2>1. v \notin ToSet(base.pending) \cup ToSet(base.commands) \cup {}
    BY <1>3, <1>7, LanesNow DEF Lanes, PendingSet, CommandSet
  <2>2. Loaded(base, {} \cup {v}, Enqueue(base, v))
    BY <1>3, <1>5, <2>1, EnqueueLoads
  <2> QED BY <2>2
<1> HIDE DEF r
<1>9. intake' = r /\ r \in Intake
  BY <1>6, <1>8 DEF After, Loaded
<1>10. Takes(c, {v})
  <2>1. driver' # "restarting"
    BY <1>6 DEF After
  <2> QED BY <1>1, <1>2, <1>7, <1>8, <1>9, <2>1 DEF Takes, base
<1>11. /\ TaskTypes'
       /\ r.error = "none" =>
            /\ Books' /\ InFlight' = (InFlight \ {d}) \cup {v} /\ Unreported' = Unreported \cup {v}
            /\ ReportsTrue(finished)' /\ ReportsTrue(completions)'
  BY <1>9, <1>10, TakesBooks
<1> HIDE DEF d, p
<1> DEFINE W == WritesOf(p)
<1>12. Downloading(p)
  BY <1>2, <1>4 DEF Pieces
<1>13. IsFiniteSet(W) /\ d \in W
  BY <1>2, <1>3, <1>4, FS_Subset DEF WritesOf, Books, p
<1>14. Cardinality(W) \in Nat /\ Cardinality(W \ {d}) = Cardinality(W) - 1 /\ Cardinality(W \ {d}) \in Nat
       /\ IsFiniteSet(W \ {d})
  BY <1>13, FS_RemoveElement, FS_Subset, FS_CardinalityType
<1>15. stored[p] \in Nat /\ received[p] \in Nat /\ Blocks \in Nat /\ received[p] <= Blocks
       /\ stored[p] + Cardinality(W) = received[p]
  BY <1>2, <1>4, <1>12, Constants DEF SwarmTypes, Downloading
<1>16. Cardinality(W \ {d}) = 0 /\ received[p] = Blocks
  BY <1>6, <1>14, <1>15
<1>17. W = {d}
  BY <1>13, <1>14, <1>16, FS_EmptySet
<1>18. \A e \in InFlight \ {d} : e.piece # p
  <2> SUFFICES ASSUME NEW e \in InFlight \ {d}, e.piece = p PROVE FALSE
    OBVIOUS
  <2>1. IsWrite(e)
    BY <1>2, <1>4, OthersTold
  <2> QED BY <1>17, <2>1 DEF WritesOf
<1>19. BlocksOf(p) \subseteq disk
  <2>1. \A k \in 1 .. Blocks : <<p, k>> \in disk
    BY <1>3, <1>12, <1>16, <1>17 DEF Downloading
  <2> QED BY <2>1 DEF BlocksOf
<1>20. \A q \in Piece : q # p => piece'[q] = piece[q] /\ stored'[q] = stored[q]
  BY <1>2, <1>4, <1>6 DEF SwarmTypes
<1>21. SwarmTypes' /\ piece'[p] = "hashing"
  <2>1. stored[p] + 1 \in 0 .. Blocks
    BY <1>6, <1>15
  <2> QED BY <1>2, <1>4, <1>6, <2>1 DEF SwarmTypes
<1>22. ASSUME r.error = "none" PROVE Pieces'
  <2>1. \A e \in (InFlight \ {d}) \cup {v} : Told(e)'
    <3> SUFFICES ASSUME NEW e \in (InFlight \ {d}) \cup {v} PROVE Told(e)'
      OBVIOUS
    <3>1. CASE e = v
      <4>1. e.kind = "verify" /\ e.piece = p /\ e.block = 0
        BY <1>5, <3>1
      <4> QED BY <1>21, <4>1 DEF Told, IsWrite
    <3>2. CASE e \in InFlight \ {d}
      <4>1. Told(e) /\ e.piece \in Piece /\ e.piece # p
        BY <1>2, <1>18, <3>2, OthersTold
      <4> QED BY <1>20, <4>1 DEF Told
    <3> QED BY <3>1, <3>2
  <2>2. \A e \in Unreported' : e.kind = "verify" => BlocksOf(e.piece) \subseteq disk'
    BY <1>1, <1>2, <1>5, <1>11, <1>19, <1>22 DEF Pieces
  <2>3. ASSUME NEW q \in Piece, piece'[q] = "wanted" PROVE Downloading(q)'
    <3>1. q # p
      BY <1>21, <2>3
    <3>2. WritesOf(q)' = WritesOf(q)
      BY <1>5, <1>11, <1>22, <3>1 DEF WritesOf, p
    <3>3. Downloading(q)
      BY <1>2, <1>20, <2>3, <3>1 DEF Pieces
    <3> QED BY <1>1, <1>20, <3>1, <3>2, <3>3 DEF Downloading
  <2>4. ASSUME NEW q \in Piece PROVE Awaited(q)'
    <3>1. CASE q = p
      BY <1>5, <1>11, <1>22, <3>1 DEF Awaited
    <3>2. CASE q # p
      <4>1. Awaited(q) /\ piece'[q] = piece[q]
        BY <1>2, <1>20, <3>2 DEF Pieces
      <4> QED BY <1>11, <1>22, <3>2, <4>1 DEF Awaited, p
    <3> QED BY <3>1, <3>2
  <2> QED BY <1>11, <1>22, <2>1, <2>2, <2>3, <2>4 DEF Pieces
<1>23. ASSUME Ample
       PROVE  /\ r.error \notin {"payload", "pending"}
              /\ r.error = "none" => /\ r.jobs <= Limit + 1 /\ Len(r.pending) <= PendingQueue
                                     /\ ~r.pressured => r.resident < High
  <2>1. Bounded
    BY <1>2, <1>23 DEF PipelineInv, NoOverflow
  <2>2. Len(intake.pending) <= 1 /\ Len(intake.pending) \in Nat /\ Len(intake.commands) <= Limit
    BY <1>1, <1>2, <2>1 DEF Bounded, Intake, Books
  <2>3. base.resident \in Nat /\ base.resident <= Limit /\ Weight(v) = 0
    BY <1>3, <1>5, Constants DEF Intake, Weight
  <2>4. /\ base.resident + Weight(v) <= Limit /\ Len(base.pending) < PendingQueue
        /\ Len(base.commands) <= Limit
    BY <1>3, <2>2, <2>3 DEF PendingQueue
  <2>5. /\ r.error = "none" /\ Len(r.pending) <= Len(base.pending) + 1 /\ Len(r.pending) \in Nat
        /\ r.jobs = base.jobs + 1 /\ (~r.pressured => r.resident < High)
    BY <1>3, <1>5, <2>4, EnqueueFits DEF r
  <2>6. intake.jobs \in Nat /\ intake.jobs <= Limit + 1 /\ Limit \in Nat
    BY <1>2, <2>1, Constants DEF Bounded, Intake
  <2>7. r.jobs <= Limit + 1
    BY <1>3, <2>5, <2>6
  <2>8. Len(r.pending) <= PendingQueue
    BY <1>3, <2>2, <2>5 DEF PendingQueue
  <2> QED BY <2>5, <2>7, <2>8
<1> QED BY <1>1, <1>2, <1>6, <1>9, <1>11, <1>21, <1>22, <1>23, AfterStep

\* A storage completion is handled.
LEMMA CompletionStep ==
  ASSUME PipelineInv, Completion
  PROVE  PipelineInv'
<1>1. PICK c : c = Head(completions)
  OBVIOUS
<1>2. PICK where : where = IF driver = "wait" THEN "top" ELSE "drain"
  OBVIOUS
<1>3. /\ driver \in {"wait", "drainWait"} /\ completions # <<>> /\ Handle(c, where)
      /\ completions' = Tail(completions)
      /\ UNCHANGED <<writes, hashes, running, finished, lost, task, disk>>
  BY <1>1, <1>2 DEF Completion
<1>4. Taken(c) /\ where \in {"top", "drain"}
  BY <1>1, <1>2, <1>3 DEF Taken
<1> DEFINE d == c.command
           s == Finished(intake, d)
<1>5. CASE IsWrite(d) /\ c.ok
  <2>1. stored' = [stored EXCEPT ![d.piece] = @ + 1] /\ received' = received
    BY <1>3, <1>5 DEF Handle, IsWrite, swarm
  <2>2. CASE ReadyToVerify(d.piece)
    <3>1. /\ piece' = [piece EXCEPT ![d.piece] = "hashing"]
          /\ After(Enqueue(s, [kind |-> "verify", piece |-> d.piece, block |-> 0]), where)
      BY <1>3, <1>5, <2>2 DEF Handle, IsWrite
    <3> QED BY <1>4, <1>5, <2>1, <2>2, <3>1, VerifyStep
  <2>3. CASE ~ReadyToVerify(d.piece)
    <3>1. After(s, where) /\ piece' = piece
      BY <1>3, <1>5, <2>3 DEF Handle, IsWrite
    <3> QED BY <1>4, <1>5, <2>1, <2>3, <3>1, StoredStep
  <2> QED BY <2>2, <2>3
<1>6. CASE IsWrite(d) /\ ~c.ok
  <2>1. After([s EXCEPT !.error = "write"], where) /\ UNCHANGED <<piece, received, stored>>
    BY <1>3, <1>6 DEF Handle, IsWrite, swarm
  <2> QED BY <1>4, <2>1, FailedStep
<1>7. CASE ~IsWrite(d)
  <2>1. /\ piece' = [piece EXCEPT ![d.piece] = IF c.ok THEN "have" ELSE "wanted"]
        /\ received' = [received EXCEPT ![d.piece] = IF c.ok THEN @ ELSE 0]
        /\ stored' = [stored EXCEPT ![d.piece] = IF c.ok THEN @ ELSE 0]
        /\ After(s, where)
    BY <1>3, <1>7 DEF Handle, IsWrite
  <2> QED BY <1>4, <1>7, <2>1, HashedStep
<1> QED BY <1>5, <1>6, <1>7

-----------------------------------------------------------------------------
(* Steps of the storage task. *)

\* How a step of the task moves what is under way.
LEMMA TaskBooks ==
  ASSUME Books, intake'.pending = intake.pending, intake'.jobs = intake.jobs,
         intake'.resident = intake.resident, Len(intake'.commands) <= Limit,
         Once', InFlight' = InFlight, driver' = driver,
         \A c \in WriteSet' : IsWrite(c), \A c \in HashSet' : ~IsWrite(c)
  PROVE  Books'
BY DEF Books, WriteSet, HashSet

\* The task's part of the invariant does not depend on the driver's.
LEMMA TaskStep ==
  ASSUME PipelineInv, UNCHANGED <<driver, closed, cancelled, piece, received, stored>>,
         intake' \in Intake, intake'.error = intake.error, intake'.jobs = intake.jobs,
         intake'.pending = intake.pending, intake'.resident = intake.resident,
         intake'.pressured = intake.pressured,
         TaskTypes', Running', task' = "ended" => running' = {}, task = "ended" => task' = "ended",
         Active => Books' /\ Pieces'
  PROVE  PipelineInv'
<1>1. Types /\ Control
  BY DEF PipelineInv
<1>2. Types'
  BY <1>1, TypePartsNow, TypePartsNext DEF TypeParts, DriverTypes, SwarmTypes
<1>3. Control'
  BY <1>1 DEF Control
<1>4. Active' = Active
  BY DEF Active
<1>5. Ample => NoOverflow'
  BY <1>4 DEF PipelineInv, NoOverflow, Bounded
<1> QED BY <1>2, <1>3, <1>4, <1>5 DEF PipelineInv, Ample

\* After cancellation the queues are dropped.
LEMMA CancelledTopStep ==
  ASSUME PipelineInv, CancelledTop
  PROVE  PipelineInv'
<1>1. /\ task = "top" /\ cancelled /\ writes' = <<>> /\ hashes' = <<>> /\ finished' = <<>>
      /\ intake' = [intake EXCEPT !.commands = <<>>]
      /\ task' = (IF running = {} THEN "ended" ELSE "top")
      /\ UNCHANGED <<running, completions, lost, driver, closed, cancelled, piece, received, stored, disk>>
  BY DEF CancelledTop, swarm
<1>2. Types /\ Running /\ TaskTypes /\ intake \in Intake
  BY TypePartsNow DEF PipelineInv, TypeParts
<1>3. <<>> \in Seq(Command) /\ <<>> \in Seq(Report)
  OBVIOUS
<1>4. /\ intake' \in Intake /\ intake'.error = intake.error /\ intake'.jobs = intake.jobs
      /\ intake'.pending = intake.pending /\ intake'.resident = intake.resident
      /\ intake'.pressured = intake.pressured
  BY <1>1, <1>2, <1>3 DEF Intake
<1>5. TaskTypes'
  BY <1>1, <1>2, <1>3 DEF TaskTypes
<1>6. Running'
  BY <1>1, <1>2, RunningKept
<1>7. ~Active
  BY <1>1 DEF Active
<1>8. task' = "ended" => running' = {}
  BY <1>1
<1>9. task # "ended"
  BY <1>1
<1> QED BY <1>1, <1>4, <1>5, <1>6, <1>7, <1>8, <1>9, TaskStep

\* A stretch of reports, and two lists of reports one after the other.
LEMMA ReportedStretch ==
  ASSUME NEW s \in Seq(Report), NEW m \in Nat \ {0}, NEW n \in Nat, n <= Len(s)
  PROVE  /\ SubSeq(s, m, n) \in Seq(Report)
         /\ Reported(SubSeq(s, m, n)) = SubSeq(Reported(s), m, n)
         /\ ReportsTrue(s) => ReportsTrue(SubSeq(s, m, n))
<1> DEFINE t == SubSeq(s, m, n)
           u == Reported(s)
           v == SubSeq(u, m, n)
           l == IF m <= n THEN (n - m) + 1 ELSE 0
<1>0. Len(s) \in Nat /\ DOMAIN s = 1 .. Len(s) /\ \A k \in 1 .. Len(s) : s[k] \in Report
  OBVIOUS
<1>1. u \in Seq(Command) /\ Len(u) = Len(s) /\ \A k \in 1 .. Len(s) : u[k] = s[k].command
  BY <1>0, ReportedFacts
<1>2. \A k \in m .. n : k \in 1 .. Len(s)
  BY <1>0
<1>3. t \in Seq(Report) /\ Len(t) = l /\ \A k \in 1 .. ((n - m) + 1) : t[k] = s[(m + k) - 1]
  <2>1. \A k \in m .. n : s[k] \in Report
    BY <1>0, <1>2
  <2> QED BY <2>1, SubSeqProperties
<1>4. v \in Seq(Command) /\ Len(v) = l /\ \A k \in 1 .. ((n - m) + 1) : v[k] = u[(m + k) - 1]
  <2> HIDE DEF u
  <2>1. \A k \in m .. n : u[k] \in Command
    BY <1>1, <1>2
  <2> QED BY <2>1, SubSeqProperties
<1> HIDE DEF t, u, v
<1>5. \A k \in 1 .. l : k \in 1 .. ((n - m) + 1) /\ ((m + k) - 1) \in 1 .. Len(s)
  <2> SUFFICES ASSUME NEW k \in 1 .. l
               PROVE  k \in 1 .. ((n - m) + 1) /\ ((m + k) - 1) \in 1 .. Len(s)
    OBVIOUS
  <2>1. m <= n
    OBVIOUS
  <2>2. ((m + k) - 1) \in m .. n /\ k \in 1 .. ((n - m) + 1)
    BY <2>1
  <2> QED BY <1>2, <2>2
<1>6. l \in Nat
  OBVIOUS
<1> HIDE DEF l
<1>7. DOMAIN t = 1 .. l
  BY <1>3, <1>6
<1>8. /\ Reported(t) \in Seq(Command) /\ Len(Reported(t)) = l
      /\ \A k \in 1 .. l : Reported(t)[k] = t[k].command
  BY <1>3, <1>7, ReportedFacts
<1>9. Reported(t) = v
  <2> DEFINE x == Reported(t)
  <2>1. \A k \in 1 .. l : x[k] = v[k]
    BY <1>1, <1>3, <1>4, <1>5, <1>8
  <2>2. x \in Seq(Command) /\ v \in Seq(Command) /\ Len(x) = l /\ Len(v) = l
    BY <1>4, <1>8
  <2> HIDE DEF x
  <2>3. x = v
    BY <2>1, <2>2
  <2> QED BY <2>3 DEF x
<1>10. ReportsTrue(s) => ReportsTrue(t)
  <2>1. \A k \in DOMAIN t : ((m + k) - 1) \in DOMAIN s /\ t[k] = s[(m + k) - 1]
    BY <1>0, <1>3, <1>5, <1>7
  <2> QED BY <2>1 DEF ReportsTrue
<1> QED BY <1>3, <1>9, <1>10 DEF t, u, v

\* The commands of two sequences of completions.
LEMMA ReportedConcat ==
  ASSUME NEW s \in Seq(Report), NEW t \in Seq(Report)
  PROVE  /\ s \o t \in Seq(Report) /\ Reported(s \o t) = Reported(s) \o Reported(t)
         /\ ReportsTrue(s) /\ ReportsTrue(t) => ReportsTrue(s \o t)
         /\ Len(s \o t) = Len(s) + Len(t)
<1> DEFINE u == s \o t
           a == Reported(s)
           b == Reported(t)
           v == a \o b
<1>1. /\ u \in Seq(Report) /\ Len(u) = Len(s) + Len(t) /\ Len(s) \in Nat /\ Len(t) \in Nat
      /\ \A k \in 1 .. Len(s) : u[k] = s[k]
      /\ \A k \in 1 .. Len(t) : u[Len(s) + k] = t[k]
      /\ DOMAIN u = 1 .. (Len(s) + Len(t)) /\ DOMAIN s = 1 .. Len(s) /\ DOMAIN t = 1 .. Len(t)
  OBVIOUS
<1>2. a \in Seq(Command) /\ Len(a) = Len(s) /\ \A k \in 1 .. Len(s) : a[k] = s[k].command
  BY <1>1, ReportedFacts
<1>3. b \in Seq(Command) /\ Len(b) = Len(t) /\ \A k \in 1 .. Len(t) : b[k] = t[k].command
  BY <1>1, ReportedFacts
<1> HIDE DEF u, a, b
<1>4. /\ v \in Seq(Command) /\ Len(v) = Len(s) + Len(t)
      /\ \A k \in 1 .. Len(s) : v[k] = a[k]
      /\ \A k \in 1 .. Len(t) : v[Len(s) + k] = b[k]
  <2>1. a \in Seq(Command) /\ b \in Seq(Command)
    BY <1>2, <1>3
  <2>2. /\ v \in Seq(Command) /\ Len(v) = Len(a) + Len(b)
        /\ \A k \in 1 .. Len(a) : v[k] = a[k]
        /\ \A k \in 1 .. Len(b) : v[Len(a) + k] = b[k]
    BY <2>1
  <2> HIDE DEF v
  <2> QED BY <1>2, <1>3, <2>2
<1> HIDE DEF v
<1>5. \A k \in 1 .. (Len(s) + Len(t)) : k \in 1 .. Len(s) \/ \E m \in 1 .. Len(t) : k = Len(s) + m
  <2> SUFFICES ASSUME NEW k \in 1 .. (Len(s) + Len(t)), k \notin 1 .. Len(s)
               PROVE  \E m \in 1 .. Len(t) : k = Len(s) + m
    OBVIOUS
  <2>1. k - Len(s) \in 1 .. Len(t) /\ k = Len(s) + (k - Len(s))
    BY <1>1
  <2> QED BY <2>1
<1>6. /\ Reported(u) \in Seq(Command) /\ Len(Reported(u)) = Len(s) + Len(t)
      /\ \A k \in 1 .. (Len(s) + Len(t)) : Reported(u)[k] = u[k].command
  BY <1>1, ReportedFacts
<1>7. Reported(u) = v
  <2> DEFINE x == Reported(u)
             l == Len(s) + Len(t)
  <2>1. ASSUME NEW k \in 1 .. l PROVE x[k] = v[k]
    <3>1. x[k] = u[k].command
      BY <1>6
    <3>2. CASE k \in 1 .. Len(s)
      BY <1>1, <1>2, <1>4, <3>1, <3>2
    <3>3. CASE k \notin 1 .. Len(s)
      <4>1. PICK m \in 1 .. Len(t) : k = Len(s) + m
        BY <1>5, <3>3
      <4>2. u[k] = t[m] /\ v[k] = b[m] /\ b[m] = t[m].command
        BY <1>1, <1>3, <1>4, <4>1
      <4> QED BY <3>1, <4>2
    <3> QED BY <3>2, <3>3
  <2>2. x \in Seq(Command) /\ v \in Seq(Command) /\ Len(x) = l /\ Len(v) = l
    BY <1>4, <1>6
  <2> HIDE DEF x, l
  <2>3. x = v
    BY <2>1, <2>2
  <2> QED BY <2>3 DEF x
<1>8. ASSUME ReportsTrue(s), ReportsTrue(t) PROVE ReportsTrue(u)
  <2> SUFFICES ASSUME NEW k \in DOMAIN u, IsWrite(u[k].command), u[k].ok
               PROVE  <<u[k].command.piece, u[k].command.block>> \in disk
    BY DEF ReportsTrue
  <2>1. CASE k \in 1 .. Len(s)
    BY <1>1, <1>8, <2>1 DEF ReportsTrue
  <2>2. CASE k \notin 1 .. Len(s)
    <3>1. PICK m \in 1 .. Len(t) : k = Len(s) + m
      BY <1>1, <1>5, <2>2
    <3>2. u[k] = t[m] /\ m \in DOMAIN t
      BY <1>1, <3>1
    <3> QED BY <1>8, <3>2 DEF ReportsTrue
  <2> QED BY <2>1, <2>2
<1> QED BY <1>1, <1>7, <1>8 DEF u, v, a, b

\* The first n reports go to the channel.
LEMMA MoveReports ==
  ASSUME Types, Books, Pieces, NEW n \in 0 .. Len(finished), Len(completions) + n <= Limit
  PROVE  LET u == completions \o SubSeq(finished, 1, n)
             v == SubSeq(finished, n + 1, Len(finished))
             U == ToSet(Reported(u))
             V == ToSet(Reported(v))
         IN /\ u \in Seq(Report) /\ v \in Seq(Report) /\ Len(u) <= Limit
            /\ IsInjective(Reported(u)) /\ IsInjective(Reported(v))
            /\ U \cup V = FinishedSet \cup CompletionSet /\ U \cap V = {}
            /\ ReportsTrue(u) /\ ReportsTrue(v)
<1> DEFINE f == finished
           d == completions
           a == SubSeq(f, 1, n)
           v == SubSeq(f, n + 1, Len(f))
           u == d \o a
<1>1. f \in Seq(Report) /\ d \in Seq(Report) /\ Len(f) \in Nat /\ Len(d) \in Nat
  BY TypePartsNow DEF TypeParts, TaskTypes
<1>2. n \in Nat /\ n <= Len(f) /\ n + 1 \in Nat \ {0} /\ Len(f) <= Len(f) /\ 1 \in Nat \ {0}
  BY <1>1
<1>3. /\ Reported(f) \in Seq(Command) /\ Reported(d) \in Seq(Command) /\ Len(Reported(f)) = Len(f)
      /\ IsInjective(Reported(f)) /\ IsInjective(Reported(d))
      /\ ToSet(Reported(f)) = FinishedSet /\ ToSet(Reported(d)) = CompletionSet
      /\ FinishedSet \cap CompletionSet = {}
  <2>1. SeqsOnce /\ LanesApart
    BY LanesNow DEF Books, Lanes
  <2>2. FinishedSet \cap CompletionSet = {}
    BY <2>1 DEF LanesApart, Apart
  <2> QED BY <1>1, <2>1, <2>2, ReportedFacts DEF SeqsOnce, FinishedSet, CompletionSet
<1>4. /\ a \in Seq(Report) /\ Reported(a) = SubSeq(Reported(f), 1, n) /\ ReportsTrue(a)
      /\ v \in Seq(Report) /\ Reported(v) = SubSeq(Reported(f), n + 1, Len(f)) /\ ReportsTrue(v)
  <2>1. ReportsTrue(f)
    BY DEF Pieces
  <2>2. a \in Seq(Report) /\ Reported(a) = SubSeq(Reported(f), 1, n) /\ ReportsTrue(a)
    BY <1>1, <1>2, <2>1, ReportedStretch
  <2>3. v \in Seq(Report) /\ Reported(v) = SubSeq(Reported(f), n + 1, Len(f)) /\ ReportsTrue(v)
    BY <1>1, <1>2, <2>1, ReportedStretch
  <2> QED BY <2>2, <2>3
<1> DEFINE g == Reported(f)
<1>5. LET x == SubSeq(g, 1, n)
          y == SubSeq(g, n + 1, Len(g))
      IN /\ x \in Seq(Command) /\ y \in Seq(Command) /\ IsInjective(x) /\ IsInjective(y)
         /\ ToSet(x) \cup ToSet(y) = ToSet(g) /\ ToSet(x) \cap ToSet(y) = {}
         /\ Len(x) = n
  <2> HIDE DEF g
  <2>1. g \in Seq(Command) /\ IsInjective(g) /\ n \in 0 .. Len(g)
    BY <1>3 DEF g
  <2> QED BY <2>1, SplitFacts
<1>6. /\ Reported(a) \in Seq(Command) /\ Reported(v) \in Seq(Command)
      /\ IsInjective(Reported(a)) /\ IsInjective(Reported(v)) /\ Len(Reported(a)) = n
      /\ ToSet(Reported(a)) \cup ToSet(Reported(v)) = FinishedSet
      /\ ToSet(Reported(a)) \cap ToSet(Reported(v)) = {}
  BY <1>3, <1>4, <1>5
<1> HIDE DEF f, a, v
<1>7. Len(a) = n
  BY <1>4, <1>6, ReportedFacts
<1>8. u \in Seq(Report) /\ Reported(u) = Reported(d) \o Reported(a) /\ ReportsTrue(u)
      /\ Len(u) = Len(d) + Len(a)
  <2>1. ReportsTrue(d)
    BY DEF Pieces
  <2> HIDE DEF d
  <2> QED BY <1>1, <1>4, <2>1, ReportedConcat
<1>9. ToSet(Reported(d)) \cap ToSet(Reported(a)) = {}
  BY <1>3, <1>6
<1>10. /\ IsInjective(Reported(u)) /\ ToSet(Reported(u)) = ToSet(Reported(d)) \cup ToSet(Reported(a))
  BY <1>3, <1>6, <1>8, <1>9, ConcatFacts
<1>11. Len(u) <= Limit
  BY <1>7, <1>8
<1>12. /\ ToSet(Reported(u)) \cup ToSet(Reported(v)) = FinishedSet \cup CompletionSet
       /\ ToSet(Reported(u)) \cap ToSet(Reported(v)) = {}
  BY <1>3, <1>6, <1>10
<1> HIDE DEF u
<1>13. u \in Seq(Report) /\ v \in Seq(Report) /\ Len(u) <= Limit
       /\ IsInjective(Reported(u)) /\ IsInjective(Reported(v)) /\ ReportsTrue(u) /\ ReportsTrue(v)
  BY <1>4, <1>6, <1>8, <1>10, <1>11
<1> QED BY <1>12, <1>13 DEF u, v, f, d, a

\* The task works for a pipeline that keeps its books.
LEMMA TaskActive ==
  ASSUME PipelineInv, ~cancelled, task # "ended"
  PROVE  Active /\ Books /\ Pieces /\ Types /\ Running /\ intake.error = "none"
<1>1. Active
  BY DEF PipelineInv, Control, Active
<1> QED BY <1>1 DEF PipelineInv, Control

\* One report that is sent is the front of the task's list.
LEMMA OneSent ==
  ASSUME NEW f \in Seq(Report), NEW d \in Seq(Report), f # <<>>
  PROVE  /\ Append(d, Head(f)) = d \o SubSeq(f, 1, 1)
         /\ Tail(f) = SubSeq(f, 1 + 1, Len(f))
<1>1. SubSeq(f, 1, 1) = <<Head(f)>>
  <2> DEFINE x == SubSeq(f, 1, 1)
             e == Head(f)
  <2>1. e = f[1] /\ e \in Report
    OBVIOUS
  <2>2. x \in Seq(Report) /\ Len(x) = 1 /\ x[1] = e
    <3>1. \A k \in 1 .. 1 : f[k] \in Report
      BY <2>1
    <3>2. /\ x \in Seq(Report) /\ Len(x) = (IF 1 <= 1 THEN (1 - 1) + 1 ELSE 0)
          /\ \A k \in 1 .. ((1 - 1) + 1) : x[k] = f[(1 + k) - 1]
      BY <3>1, SubSeqProperties
    <3> QED BY <2>1, <3>2
  <2> HIDE DEF x, e
  <2>3. x = <<e>>
    BY <2>1, <2>2
  <2> QED BY <2>3 DEF x, e
<1>2. d \o <<Head(f)>> = Append(d, Head(f))
  OBVIOUS
<1>3. Tail(f) = SubSeq(f, 1 + 1, Len(f))
  OBVIOUS
<1> QED BY <1>1, <1>2, <1>3

\* A report goes to the channel.
LEMMA SendCompletionStep ==
  ASSUME PipelineInv, SendCompletion
  PROVE  PipelineInv'
<1>1. /\ task = "select" /\ ~cancelled /\ finished # <<>> /\ Room > 0
      /\ completions' = Append(completions, Head(finished)) /\ finished' = Tail(finished)
      /\ task' = "top"
      /\ UNCHANGED <<intake, writes, hashes, running, lost, driver, closed, cancelled, piece, received, stored, disk>>
  BY DEF SendCompletion, swarm
<1>2. Active /\ Books /\ Pieces /\ Types /\ Running /\ intake.error = "none" /\ intake \in Intake
  BY <1>1, TaskActive DEF Types
<1>3. TaskTypes
  BY <1>2, TypePartsNow DEF TypeParts
<1>4. /\ Len(finished) \in Nat /\ 1 \in 0 .. Len(finished) /\ Len(completions) \in Nat
      /\ Len(completions) + 1 <= Limit
  BY <1>1, <1>3, Constants DEF TaskTypes, Room
<1>5. /\ completions' = completions \o SubSeq(finished, 1, 1)
      /\ finished' = SubSeq(finished, 1 + 1, Len(finished))
  BY <1>1, <1>3, OneSent DEF TaskTypes
<1>7. /\ completions' \in Seq(Report) /\ finished' \in Seq(Report) /\ Len(completions') <= Limit
      /\ IsInjective(Reported(completions')) /\ IsInjective(Reported(finished'))
      /\ CompletionSet' \cup FinishedSet' = FinishedSet \cup CompletionSet
      /\ CompletionSet' \cap FinishedSet' = {}
      /\ ReportsTrue(completions') /\ ReportsTrue(finished')
  BY <1>2, <1>4, <1>5, MoveReports DEF CompletionSet, FinishedSet
<1>8. /\ PendingSet' = PendingSet /\ CommandSet' = CommandSet /\ WriteSet' = WriteSet
      /\ HashSet' = HashSet /\ RunningSet' = RunningSet /\ lost' = lost
  BY <1>1 DEF PendingSet, CommandSet, WriteSet, HashSet, RunningSet
<1>9. SeqsOnce /\ JobsOnce /\ LanesApart
  BY <1>2, LanesNow DEF Books, Lanes
<1>10. SeqsOnce' /\ JobsOnce'
  BY <1>1, <1>7, <1>9 DEF SeqsOnce, JobsOnce
<1>11. LanesApart'
  <2>1. Apart(PendingSet, CommandSet, WriteSet, HashSet, RunningSet, FinishedSet, CompletionSet, lost)
    BY <1>9 DEF LanesApart
  <2>2. Apart(PendingSet, CommandSet, WriteSet, HashSet, RunningSet, FinishedSet', CompletionSet', lost)
    BY <1>7, <2>1 DEF Apart
  <2> QED BY <1>8, <2>2 DEF LanesApart
<1>12. InFlight' = InFlight /\ Unreported' = Unreported
  <2>1. /\ InFlight = PendingSet \cup CommandSet \cup WriteSet \cup HashSet \cup RunningSet
                \cup FinishedSet \cup CompletionSet \cup lost
        /\ Unreported = PendingSet \cup CommandSet \cup WriteSet \cup HashSet \cup RunningSet
    BY LanesNow DEF Lanes
  <2>2. /\ InFlight' = PendingSet' \cup CommandSet' \cup WriteSet' \cup HashSet' \cup RunningSet'
                \cup FinishedSet' \cup CompletionSet' \cup lost'
        /\ Unreported' = PendingSet' \cup CommandSet' \cup WriteSet' \cup HashSet' \cup RunningSet'
    BY LanesNext DEF Lanes
  <2> QED BY <1>7, <1>8, <2>1, <2>2
<1>13. Books'
  <2>1. Once'
    BY <1>10, <1>11, LanesNext DEF Lanes
  <2>2. (\A c \in WriteSet' : IsWrite(c)) /\ (\A c \in HashSet' : ~IsWrite(c))
    BY <1>2, <1>8 DEF Books, WriteSet, HashSet
  <2>3. Len(intake'.commands) <= Limit
    BY <1>1, <1>2 DEF Books
  <2> QED BY <1>1, <1>2, <1>12, <2>1, <2>2, <2>3, TaskBooks
<1>14. Pieces'
  <2>1. ReportsTrue(finished)' /\ ReportsTrue(completions)'
    BY <1>1, <1>7 DEF ReportsTrue
  <2>2. \A c \in Unreported' : c.kind = "verify" => BlocksOf(c.piece) \subseteq disk'
    BY <1>1, <1>2, <1>12 DEF Pieces
  <2> QED BY <1>1, <1>2, <1>12, <2>1, <2>2, PiecesKept
<1>15. TaskTypes' /\ Running' /\ intake' \in Intake
  BY <1>1, <1>2, <1>3, <1>7, RunningKept DEF TaskTypes
<1>16. task' # "ended" /\ task # "ended"
  BY <1>1
<1> QED BY <1>1, <1>13, <1>14, <1>15, <1>16, TaskStep

\* Two hash commands under way for one piece are the same.
LEMMA OneHash ==
  ASSUME Types, Pieces, NEW d \in InFlight, NEW e \in InFlight, ~IsWrite(d), e.piece = d.piece
  PROVE  e = d
<1>1. /\ d \in Command /\ ~IsWrite(d) /\ d.block = 0 /\ piece[d.piece] # "wanted"
      /\ piece[d.piece] = "hashing" <=> d.kind = "verify"
      /\ piece[d.piece] = "checking" <=> d.kind = "candidate"
  BY OthersTold
<1>2. /\ e \in Command /\ (piece[e.piece] = "wanted" <=> IsWrite(e)) /\ (~IsWrite(e) => e.block = 0)
      /\ piece[e.piece] = "hashing" <=> e.kind = "verify"
      /\ piece[e.piece] = "checking" <=> e.kind = "candidate"
  BY OthersTold
<1>3. ~IsWrite(e) /\ e.block = 0
  BY <1>1, <1>2
<1>4. d.kind \in {"verify", "candidate"} /\ e.kind \in {"verify", "candidate"}
  BY <1>1, <1>2, <1>3 DEF Command, IsWrite
<1>5. e.kind = d.kind
  BY <1>1, <1>2, <1>4
<1> QED BY <1>1, <1>2, <1>3, <1>5, SameCommand

\* the reports of a job that carries out the commands of o, of which the first k succeed
\* and the first m are reported
Outcome(o, k, m) == [i \in 1 .. m |-> [command |-> o[i], ok |-> i <= k]]

\* An order of a job has each of its commands once.
LEMMA OrderFacts ==
  ASSUME NEW j \in Seq(Command), NEW o \in Orders(j)
  PROVE  /\ o \in Seq(Command) /\ Len(o) = Len(j) /\ DOMAIN o = DOMAIN j /\ ToSet(o) = ToSet(j)
         /\ IsInjective(j) => IsInjective(o)
<1>1. Len(j) \in Nat /\ DOMAIN j = 1 .. Len(j) /\ ToSet(j) \subseteq Command
  BY DEF ToSet
<1>2. o \in [1 .. Len(j) -> ToSet(j)] /\ ToSet(o) = ToSet(j)
  BY <1>1 DEF Orders
<1>3. o \in [1 .. Len(j) -> Command]
  BY <1>1, <1>2
<1>4. o \in Seq(Command) /\ DOMAIN o = 1 .. Len(j)
  BY <1>1, <1>3, SeqDef
<1>5. Len(o) = Len(j)
  BY <1>1, <1>4
<1>6. ASSUME IsInjective(j) PROVE IsInjective(o)
  <2>1. IsFiniteSet(ToSet(j)) /\ Cardinality(ToSet(j)) = Len(j)
    BY <1>6, SizeFacts
  <2>2. IsFiniteSet(1 .. Len(j)) /\ Cardinality(1 .. Len(j)) = Len(j)
    <3>1. /\ IsFiniteSet(1 .. Len(j))
          /\ Cardinality(1 .. Len(j)) = IF 1 > Len(j) THEN 0 ELSE Len(j) - 1 + 1
      BY <1>1, FS_Interval
    <3> QED BY <1>1, <3>1
  <2>3. o \in Surjection(1 .. Len(j), ToSet(j))
    BY <1>2 DEF Surjection, ToSet
  <2>4. o \in Injection(1 .. Len(j), ToSet(j))
    BY <2>1, <2>2, <2>3, FS_SurjSameCardinalityImpliesInj
  <2> QED BY <1>4, <2>4 DEF Injection, IsInjective
<1> QED BY <1>1, <1>2, <1>4, <1>5, <1>6

\* The reports of a job are the first of its commands.
LEMMA JobReports ==
  ASSUME NEW o \in Seq(Command), NEW m \in 0 .. Len(o), NEW k \in Nat
  PROVE  LET t == Outcome(o, k, m)
         IN /\ t \in Seq(Report) /\ Reported(t) = SubSeq(o, 1, m) /\ DOMAIN t = 1 .. m
            /\ \A i \in 1 .. m : t[i].command = o[i] /\ t[i].ok = (i <= k)
<1> DEFINE t == Outcome(o, k, m)
           v == SubSeq(o, 1, m)
<1>1. /\ Len(o) \in Nat /\ DOMAIN o = 1 .. Len(o) /\ \A i \in DOMAIN o : o[i] \in Command
      /\ m \in Nat /\ m <= Len(o) /\ \A i \in 1 .. m : i \in DOMAIN o
  OBVIOUS
<1>2. /\ DOMAIN t = 1 .. m
      /\ \A i \in 1 .. m : t[i] = [command |-> o[i], ok |-> i <= k]
  BY DEF Outcome
<1>3. \A i \in 1 .. m : t[i].command = o[i] /\ t[i].ok = (i <= k)
  <2> HIDE DEF t
  <2> QED BY <1>2
<1>4. \A i \in 1 .. m : t[i] \in Report
  <2> SUFFICES ASSUME NEW i \in 1 .. m PROVE t[i] \in Report
    OBVIOUS
  <2>1. t[i] = [command |-> o[i], ok |-> i <= k] /\ o[i] \in Command /\ (i <= k) \in BOOLEAN
    BY <1>1, <1>2
  <2> HIDE DEF t
  <2> QED BY <2>1 DEF Report
<1>5. t \in Seq(Report)
  <2>1. t = [i \in 1 .. m |-> t[i]]
    BY DEF Outcome
  <2> HIDE DEF t
  <2>2. t \in [1 .. m -> Report]
    BY <1>4, <2>1
  <2> QED BY <1>1, <2>2, SeqDef
<1> HIDE DEF t
<1>6. /\ Reported(t) \in Seq(Command) /\ Len(Reported(t)) = Len(t) /\ DOMAIN Reported(t) = DOMAIN t
      /\ \A i \in DOMAIN t : Reported(t)[i] = t[i].command
  BY <1>5, ReportedFacts
<1>7. v \in Seq(Command) /\ Len(v) = m /\ \A i \in 1 .. m : v[i] = o[i]
  <2>1. \A i \in 1 .. m : o[i] \in Command
    BY <1>1
  <2>2. /\ v \in Seq(Command) /\ Len(v) = (IF 1 <= m THEN (m - 1) + 1 ELSE 0)
        /\ \A i \in 1 .. ((m - 1) + 1) : v[i] = o[(1 + i) - 1]
    BY <2>1, <1>1, SubSeqProperties
  <2> HIDE DEF v
  <2> QED BY <1>1, <2>2
<1> HIDE DEF v
<1>8. Reported(t) = v
  <2> DEFINE x == Reported(t)
  <2>1. x \in Seq(Command) /\ DOMAIN x = 1 .. m /\ \A i \in 1 .. m : x[i] = v[i]
    BY <1>2, <1>3, <1>6, <1>7
  <2> HIDE DEF x
  <2>2. Len(x) = m
    BY <1>1, <2>1
  <2>3. x = v
    BY <1>7, <2>1, <2>2
  <2> QED BY <2>3 DEF x
<1> QED BY <1>2, <1>3, <1>5, <1>8 DEF t, v

\* A job ends: the jobs that go on keep their blocks.
LEMMA EndRunning ==
  ASSUME Running, NEW j \in running, NEW k, NEW X, running' = running \ {j},
         disk' = IF IsWrite(j[1]) THEN disk \cup X
                 ELSE IF k = 0 THEN disk \ BlocksOf(j[1].piece) ELSE disk
  PROVE  Running'
<1>1. IsFiniteSet(running) /\ \A i \in running : IsJob(i)
  BY DEF Running
<1>2. IsFiniteSet(running') /\ \A i \in running' : IsJob(i)
  BY <1>1, FS_Subset
<1>3. HashJobs' \subseteq HashJobs
  BY DEF HashJobs, JobsOf
<1>4. IsFiniteSet(HashJobs)
  BY <1>1, FS_Subset DEF HashJobs, JobsOf
<1>5. Cardinality(HashJobs') <= Hashers
  <2>1. Cardinality(HashJobs') <= Cardinality(HashJobs) /\ Cardinality(HashJobs') \in Nat
        /\ Cardinality(HashJobs) \in Nat
    BY <1>3, <1>4, FS_Subset, FS_CardinalityType
  <2> QED BY <2>1, Constants DEF Running
<1>6. \A a, b \in HashJobs' : a[1].piece = b[1].piece => a = b
  BY <1>3 DEF Running
<1>7. ASSUME NEW i \in running', i[1].kind = "verify" PROVE BlocksOf(i[1].piece) \subseteq disk'
  <2>1. BlocksOf(i[1].piece) \subseteq disk /\ i \in running /\ i # j
    BY <1>7 DEF Running, HashSeesWrites
  <2>2. CASE IsWrite(j[1]) \/ k # 0
    BY <2>1, <2>2
  <2>3. CASE ~IsWrite(j[1]) /\ k = 0
    <3>1. i \in HashJobs
      BY <1>7, <2>1 DEF HashJobs, JobsOf
    <3>2. j \in HashJobs
      <4>1. j[1] \in Command
        <5>1. j \in Seq(Command) /\ j # <<>>
          BY <1>1 DEF IsJob
        <5> QED BY <5>1
      <4> QED BY <2>3, <4>1 DEF HashJobs, JobsOf, Command, IsWrite
    <3>3. i[1].piece # j[1].piece
      BY <2>1, <3>1, <3>2 DEF Running
    <3> QED BY <2>1, <2>3, <3>3 DEF BlocksOf
  <2> QED BY <2>2, <2>3
<1>8. HashSeesWrites'
  BY <1>7 DEF HashSeesWrites, BlocksOf
<1>9. \A i \in running' : IsJob(i)'
  BY <1>2 DEF IsJob
<1> QED BY <1>2, <1>5, <1>6, <1>8, <1>9 DEF Running

\* A job ends.
LEMMA JobEndsStep ==
  ASSUME PipelineInv, NEW j \in running, NEW o \in Orders(j), NEW m \in DOMAIN j, NEW k \in 0 .. m,
         JobEnds(j, o, k, m)
  PROVE  PipelineInv'
<1> DEFINE t == Outcome(o, k, m)
           X == {<<o[i].piece, o[i].block>> : i \in 1 .. k}
           L == {o[i] : i \in (m + 1) .. Len(o)}
           R == {o[i] : i \in 1 .. m}
<1>1. /\ running' = running \ {j}
      /\ disk' = IF IsWrite(j[1]) THEN disk \cup X
                 ELSE IF k = 0 THEN disk \ BlocksOf(j[1].piece) ELSE disk
      /\ finished' = IF cancelled THEN finished ELSE finished \o t
      /\ lost' = IF cancelled THEN lost ELSE lost \cup L
      /\ task' = "top"
      /\ UNCHANGED <<intake, writes, hashes, completions, driver, closed, cancelled, piece, received, stored>>
  BY DEF JobEnds, swarm, Outcome
<1>2. Types /\ Control /\ Running /\ TaskTypes /\ intake \in Intake
  BY TypePartsNow DEF PipelineInv, TypeParts
<1>3. task # "ended"
  BY DEF JobEnds
<1>4. Running'
  <2> HIDE DEF X
  <2> QED BY <1>1, <1>2, EndRunning
<1>5. j \in Seq(Command) /\ IsJob(j) /\ 1 \in DOMAIN j /\ j[1] \in Command
  <2>1. j \in Seq(Command) /\ IsJob(j) /\ j # <<>>
    BY <1>2 DEF Running, IsJob
  <2> QED BY <2>1
<1>6. /\ o \in Seq(Command) /\ Len(o) = Len(j) /\ DOMAIN o = DOMAIN j /\ ToSet(o) = ToSet(j)
      /\ IsInjective(j) => IsInjective(o)
  BY <1>5, OrderFacts
<1>7. /\ m \in 0 .. Len(o) /\ k \in Nat /\ m \in Nat /\ Len(o) \in Nat /\ k <= m
      /\ DOMAIN o = 1 .. Len(o)
  BY <1>5, <1>6
<1>8. /\ t \in Seq(Report) /\ Reported(t) = SubSeq(o, 1, m) /\ DOMAIN t = 1 .. m
      /\ \A i \in 1 .. m : t[i].command = o[i] /\ t[i].ok = (i <= k)
  BY <1>6, <1>7, JobReports
<1>10. /\ L \subseteq ToSet(j) /\ R \subseteq ToSet(j) /\ L \cup R = ToSet(j)
       /\ IsInjective(j) => L \cap R = {}
  <2>1. /\ \A i \in 1 .. Len(o) : i \in 1 .. m \/ i \in (m + 1) .. Len(o)
        /\ \A i \in 1 .. m : i \in 1 .. Len(o) /\ i \notin (m + 1) .. Len(o)
        /\ \A i \in (m + 1) .. Len(o) : i \in 1 .. Len(o)
    BY <1>7
  <2>2. ToSet(j) = {o[i] : i \in 1 .. Len(o)}
    BY <1>6, <1>7 DEF ToSet
  <2>3. ASSUME IsInjective(j) PROVE L \cap R = {}
    <3>1. \A a, b \in 1 .. Len(o) : o[a] = o[b] => a = b
      BY <1>6, <1>7, <2>3 DEF IsInjective
    <3> QED BY <2>1, <3>1
  <2> QED BY <2>1, <2>2, <2>3
<1>11. ToSet(j) \subseteq Command
  BY <1>5 DEF ToSet
<1> HIDE DEF t, L, R
<1>12. TaskTypes'
  <2>1. finished' \in Seq(Report)
    BY <1>1, <1>2, <1>8, ReportedConcat DEF TaskTypes
  <2>2. lost' \subseteq Command
    BY <1>1, <1>2, <1>10, <1>11 DEF TaskTypes
  <2> QED BY <1>1, <1>2, <2>1, <2>2 DEF TaskTypes
<1>9. ASSUME Active PROVE Books' /\ Pieces'
  <2>1. Books /\ Pieces /\ ~cancelled /\ finished' = finished \o t /\ lost' = lost \cup L
    BY <1>1, <1>9 DEF PipelineInv, Active
  <2>2. SeqsOnce /\ JobsOnce /\ LanesApart
    BY <2>1, LanesNow DEF Books, Lanes
  <2>3. Apart(PendingSet, CommandSet, WriteSet, HashSet, RunningSet, FinishedSet, CompletionSet, lost)
    BY <2>2 DEF LanesApart
  <2>4. ToSet(j) \subseteq RunningSet /\ RunningSet' = RunningSet \ ToSet(j)
    <3>1. \A i \in running : i # j => ToSet(i) \cap ToSet(j) = {}
      BY <2>2 DEF JobsOnce
    <3> QED BY <1>1, <3>1 DEF RunningSet
  <2>22. IsInjective(j) /\ L \cap R = {}
    BY <1>10, <2>2 DEF JobsOnce
  <2>5. /\ IsInjective(Reported(finished')) /\ FinishedSet' = FinishedSet \cup R
    <3> DEFINE v == SubSeq(o, 1, m)
    <3>4. v \in Seq(Command) /\ IsInjective(v) /\ ToSet(v) = R
      <4>1. /\ v \in Seq(Command) /\ IsInjective(v) /\ ToSet(v) = {o[i] : i \in 1 .. m}
        BY <1>6, <1>7, <2>22, SplitFacts
      <4> HIDE DEF v
      <4> QED BY <4>1 DEF R
    <3> HIDE DEF v
    <3>1. /\ Reported(finished') = Reported(finished) \o v /\ Reported(finished) \in Seq(Command)
          /\ IsInjective(Reported(finished))
      BY <1>2, <1>8, <2>1, <2>2, ReportedConcat, ReportedFacts DEF TaskTypes, SeqsOnce, v
    <3>2. ToSet(Reported(finished)) \cap ToSet(v) = {}
      BY <1>10, <2>3, <2>4, <3>4 DEF Apart, FinishedSet
    <3>3. /\ IsInjective(Reported(finished) \o v)
          /\ ToSet(Reported(finished) \o v) = ToSet(Reported(finished)) \cup ToSet(v)
      BY <3>1, <3>2, <3>4, ConcatFacts
    <3> QED BY <3>1, <3>3, <3>4 DEF FinishedSet
  <2>6. /\ PendingSet' = PendingSet /\ CommandSet' = CommandSet /\ WriteSet' = WriteSet
        /\ HashSet' = HashSet /\ CompletionSet' = CompletionSet
    BY <1>1 DEF PendingSet, CommandSet, WriteSet, HashSet, CompletionSet
  <2>7. SeqsOnce' /\ JobsOnce'
    BY <1>1, <2>2, <2>5 DEF SeqsOnce, JobsOnce
  <2>8. LanesApart'
    <3>1. \A x : /\ x \in ToSet(j) <=> x \in L \/ x \in R
                 /\ ~(x \in L /\ x \in R)
                 /\ x \in ToSet(j) => x \in RunningSet
      BY <1>10, <2>4, <2>22
    <3>2. Apart(PendingSet, CommandSet, WriteSet, HashSet, RunningSet \ ToSet(j),
                FinishedSet \cup R, CompletionSet, lost \cup L)
      BY <2>3, <3>1 DEF Apart
    <3> QED BY <2>1, <2>4, <2>5, <2>6, <3>2 DEF LanesApart
  <2>9. /\ InFlight = PendingSet \cup CommandSet \cup WriteSet \cup HashSet \cup RunningSet
                \cup FinishedSet \cup CompletionSet \cup lost
        /\ Unreported = PendingSet \cup CommandSet \cup WriteSet \cup HashSet \cup RunningSet
    BY LanesNow DEF Lanes
  <2>10. /\ InFlight' = PendingSet' \cup CommandSet' \cup WriteSet' \cup HashSet' \cup RunningSet'
                \cup FinishedSet' \cup CompletionSet' \cup lost'
         /\ Unreported' = PendingSet' \cup CommandSet' \cup WriteSet' \cup HashSet' \cup RunningSet'
    BY LanesNext DEF Lanes
  <2>11. InFlight' = InFlight /\ Unreported' = Unreported \ ToSet(j)
    <3>1. InFlight' = InFlight
      BY <1>10, <2>1, <2>4, <2>5, <2>6, <2>9, <2>10
    <3>2. \A x \in ToSet(j) : x \notin PendingSet /\ x \notin CommandSet /\ x \notin WriteSet /\ x \notin HashSet
      BY <2>3, <2>4 DEF Apart
    <3>3. Unreported' = Unreported \ ToSet(j)
      BY <2>4, <2>6, <2>9, <2>10, <3>2
    <3> QED BY <3>1, <3>3
  <2>12. Books'
    <3>1. Once'
      BY <2>7, <2>8, LanesNext DEF Lanes
    <3>2. (\A c \in WriteSet' : IsWrite(c)) /\ (\A c \in HashSet' : ~IsWrite(c))
      BY <2>1, <2>6 DEF Books, WriteSet, HashSet
    <3>3. Len(intake'.commands) <= Limit
      BY <1>1, <2>1 DEF Books
    <3> QED BY <1>1, <2>1, <2>11, <3>1, <3>2, <3>3, TaskBooks
  <2>13. j[1] \in ToSet(j) /\ j[1] \in InFlight
    BY <1>5, <2>4, <2>9 DEF ToSet
  \* the disk loses only blocks of a piece that is not wanted
  <2>14. \A q, b : <<q, b>> \in disk /\ <<q, b>> \notin disk' =>
                     ~IsWrite(j[1]) /\ q = j[1].piece
    BY <1>1 DEF BlocksOf
  <2>15. ~IsWrite(j[1]) => piece[j[1].piece] # "wanted"
    BY <1>2, <2>1, <2>13, OthersTold
  <2>16. ASSUME NEW e \in Unreported', e.kind = "verify" PROVE BlocksOf(e.piece) \subseteq disk'
    <3>1. e \in Unreported /\ e \notin ToSet(j) /\ e \in InFlight
      BY <2>9, <2>11
    <3>2. BlocksOf(e.piece) \subseteq disk
      BY <2>1, <2>16, <3>1 DEF Pieces
    <3>3. ~IsWrite(j[1]) => e.piece # j[1].piece
      BY <1>2, <2>1, <2>13, <3>1, OneHash
    <3> QED BY <2>14, <3>2, <3>3 DEF BlocksOf
  <2>17. \A q \in Piece : piece[q] = "wanted" => \A b : <<q, b>> \in disk => <<q, b>> \in disk'
    BY <2>14, <2>15
  \* a report of a write is about a piece that is wanted
  <2>18. ASSUME NEW s \in Seq(Report), ReportsTrue(s), ToSet(Reported(s)) \subseteq InFlight
         PROVE  \A i \in DOMAIN s : IsWrite(s[i].command) /\ s[i].ok =>
                  <<s[i].command.piece, s[i].command.block>> \in disk'
    <3> SUFFICES ASSUME NEW i \in DOMAIN s, IsWrite(s[i].command), s[i].ok
                 PROVE  <<s[i].command.piece, s[i].command.block>> \in disk'
      OBVIOUS
    <3>1. Reported(s)[i] = s[i].command /\ i \in DOMAIN Reported(s)
      BY ReportedFacts
    <3>2. s[i].command \in InFlight
      BY <2>18, <3>1 DEF ToSet
    <3>3. piece[s[i].command.piece] = "wanted" /\ s[i].command.piece \in Piece
      BY <1>2, <2>1, <3>2, OthersTold
    <3>4. <<s[i].command.piece, s[i].command.block>> \in disk
      BY <2>18 DEF ReportsTrue
    <3> QED BY <2>17, <3>3, <3>4
  <2>19. ReportsTrue(completions)'
    <3>1. completions \in Seq(Report) /\ ReportsTrue(completions) /\ ToSet(Reported(completions)) \subseteq InFlight
      BY <1>2, <2>1, <2>9 DEF TaskTypes, Pieces, CompletionSet
    <3> QED BY <1>1, <2>18, <3>1 DEF ReportsTrue
  <2>20. ReportsTrue(finished)'
    <3>1. \A i \in DOMAIN finished : IsWrite(finished[i].command) /\ finished[i].ok =>
                  <<finished[i].command.piece, finished[i].command.block>> \in disk'
      <4>1. finished \in Seq(Report) /\ ReportsTrue(finished) /\ ToSet(Reported(finished)) \subseteq InFlight
        BY <1>2, <2>1, <2>9 DEF TaskTypes, Pieces, FinishedSet
      <4> QED BY <2>18, <4>1
    <3>2. \A i \in 1 .. m : IsWrite(o[i]) /\ i <= k => <<o[i].piece, o[i].block>> \in disk'
      <4> SUFFICES ASSUME NEW i \in 1 .. m, IsWrite(o[i]), i <= k
                   PROVE  <<o[i].piece, o[i].block>> \in disk'
        OBVIOUS
      <4>0. i \in DOMAIN o /\ i \in 1 .. k
        BY <1>7
      <4>1. IsWrite(j[1])
        <5> SUFFICES ASSUME ~IsWrite(j[1]) PROVE FALSE
          OBVIOUS
        <5>1. Len(j) = 1
          BY <1>5 DEF IsJob
        <5>2. o[i] \in ToSet(j) /\ ToSet(j) = {j[1]}
          BY <1>5, <1>6, <4>0, <5>1 DEF ToSet
        <5>3. o[i] = j[1]
          BY <5>2
        <5> QED BY <5>3
      <4>2. <<o[i].piece, o[i].block>> \in X
        BY <4>0
      <4> HIDE DEF X
      <4> QED BY <1>1, <4>1, <4>2
    <3> DEFINE f == finished
               u == f \o t
    <3>3. /\ f \in Seq(Report) /\ Len(f) \in Nat /\ Len(t) \in Nat
          /\ DOMAIN f = 1 .. Len(f) /\ DOMAIN t = 1 .. Len(t)
      BY <1>2, <1>8 DEF TaskTypes
    <3>4. /\ DOMAIN u = 1 .. (Len(f) + Len(t))
          /\ \A i \in 1 .. Len(f) : u[i] = f[i]
          /\ \A i \in 1 .. Len(t) : u[Len(f) + i] = t[i]
      BY <1>8, <3>3
    <3>5. finished' = u
      BY <2>1
    <3> HIDE DEF u
    <3> SUFFICES ASSUME NEW x \in DOMAIN u, IsWrite(u[x].command), u[x].ok
                 PROVE  <<u[x].command.piece, u[x].command.block>> \in disk'
      BY <3>5 DEF ReportsTrue
    <3>6. CASE x \in 1 .. Len(f)
      BY <3>1, <3>3, <3>4, <3>6
    <3>7. CASE x \notin 1 .. Len(f)
      <4>1. x - Len(f) \in 1 .. Len(t) /\ x = Len(f) + (x - Len(f))
        BY <3>3, <3>4, <3>7
      <4> DEFINE y == x - Len(f)
      <4>2. y \in 1 .. m /\ u[x] = t[y]
        BY <1>8, <3>3, <3>4, <4>1
      <4> HIDE DEF y
      <4>3. u[x].command = o[y] /\ u[x].ok = (y <= k)
        BY <1>8, <4>2
      <4> QED BY <3>2, <4>2, <4>3
    <3> QED BY <3>6, <3>7
  <2>21. Pieces'
    BY <1>1, <2>1, <2>11, <2>16, <2>17, <2>19, <2>20, PiecesKept
  <2> QED BY <2>12, <2>21
<1> QED BY <1>1, <1>2, <1>3, <1>4, <1>9, <1>12, TaskStep

\* Multiplication is monotone.
LEMMA MulMono ==
  ASSUME NEW a \in Nat, NEW b \in Nat, NEW n \in Nat, a <= b
  PROVE  a * n <= b * n /\ a * n \in Nat /\ b * n \in Nat
OBVIOUS

\* Integer division.
LEMMA DivFacts ==
  ASSUME NEW x \in Nat, NEW n \in Nat \ {0}
  PROVE  x \div n \in Nat /\ (x \div n) * n <= x /\ x < (x \div n) * n + n
OBVIOUS

\* The batches cut a stretch off the front of the writes, each write in one of them.
LEMMA BatchesFacts ==
  ASSUME NEW w \in Seq(Command), IsInjective(w), \A c \in ToSet(w) : IsWrite(c), IsFiniteSet(running)
  PROVE  LET b == Batches(w)
             n == Min({Len(w), Len(b) * Batch})
         IN /\ n \in 0 .. Len(w) /\ IsFiniteSet(ToSet(b))
            /\ \A j \in ToSet(b) : IsJob(j) /\ IsInjective(j) /\ IsWrite(j[1])
            /\ \A i, j \in ToSet(b) : i # j => ToSet(i) \cap ToSet(j) = {}
            /\ UNION {ToSet(j) : j \in ToSet(b)} = {w[k] : k \in 1 .. n}
<1> DEFINE l == Len(w)
           B == Batch
           free == Writers - Cardinality(JobsOf({"write"}))
           q == (l + B - 1) \div B
           n0 == Min({free, q})
           m == IF n0 < 0 THEN 0 ELSE n0
           Hi(i) == Min({i * B, l})
           Job(i) == SubSeq(w, (i - 1) * B + 1, Hi(i))
           b == Batches(w)
           n == Min({l, m * B})
<1>1. l \in Nat /\ B \in Nat \ {0} /\ free \in Int
  <2>1. IsFiniteSet(JobsOf({"write"}))
    BY FS_Subset DEF JobsOf
  <2>2. Cardinality(JobsOf({"write"})) \in Nat
    BY <2>1, FS_CardinalityType
  <2> QED BY <2>2, Constants
<1>2. DOMAIN w = 1 .. l /\ \A k \in 1 .. l : w[k] \in Command /\ IsWrite(w[k])
  BY DEF ToSet
<1> HIDE DEF l, B, free
<1>3. q \in Nat /\ q * B <= (l + B) - 1
  <2> DEFINE x == l + B - 1
  <2>1. x \in Nat /\ x = (l + B) - 1
    BY <1>1
  <2> HIDE DEF x
  <2>2. x \div B \in Nat /\ (x \div B) * B <= x
    BY <1>1, <2>1, DivFacts
  <2> QED BY <2>1, <2>2 DEF x
<1> HIDE DEF q
<1>4. n0 \in Int /\ n0 <= q
  <2>1. n0 = IF free <= q THEN free ELSE q
    BY <1>1, <1>3, MinTwo
  <2> HIDE DEF n0
  <2> QED BY <1>1, <1>3, <2>1
<1>5. m \in Nat /\ m <= q /\ 1 .. n0 = 1 .. m
  <2> HIDE DEF n0
  <2> QED BY <1>3, <1>4
<1>6. b = [i \in 1 .. m |-> Job(i)]
  <2>1. b = [i \in 1 .. n0 |-> Job(i)]
    BY DEF Batches, l, B, free, q
  <2> HIDE DEF n0, Job, b, m
  <2> QED BY <1>5, <2>1
<1> HIDE DEF n0, m, b
<1>7. ASSUME NEW i \in 1 .. m
      PROVE  /\ (i - 1) * B \in Nat /\ i * B = (i - 1) * B + B /\ (i - 1) * B + 1 \in Nat \ {0}
             /\ i * B <= m * B /\ m * B \in Nat
             /\ Hi(i) \in Nat /\ Hi(i) <= l /\ Hi(i) <= i * B /\ (i - 1) * B + 1 <= Hi(i)
             /\ \A k : k <= l /\ k <= i * B => k <= Hi(i)
  <2>1. i \in Nat /\ i - 1 \in Nat /\ i <= q /\ i <= m /\ i - 1 <= i /\ B \in Nat
    BY <1>1, <1>3, <1>5
  <2>2. (i - 1) * B \in Nat /\ i * B \in Nat /\ i * B <= q * B /\ i * B <= m * B /\ m * B \in Nat
    BY <1>3, <1>5, <2>1, MulMono
  <2>3. i * B = (i - 1) * B + B
    BY <2>1
  <2> DEFINE x == (i - 1) * B
             y == i * B
             z == q * B
  <2>4. Hi(i) = IF y <= l THEN y ELSE l
    BY <1>1, <2>2, MinTwo
  <2>5. x \in Nat /\ y \in Nat /\ y <= z /\ y = x + B /\ z <= (l + B) - 1
    BY <1>3, <2>2, <2>3
  <2>6. z \in Nat
    BY <1>3, <2>1, <2>2, MulMono
  <2> HIDE DEF x, y, z, Hi
  <2>7. /\ x + 1 \in Nat \ {0} /\ Hi(i) \in Nat /\ Hi(i) <= l /\ Hi(i) <= y /\ x + 1 <= Hi(i)
        /\ \A k : k <= l /\ k <= y => k <= Hi(i)
    BY <1>1, <2>4, <2>5, <2>6
  <2> QED BY <2>2, <2>3, <2>7 DEF x, y
<1>8. /\ Len(b) = m /\ DOMAIN b = 1 .. m /\ \A i \in 1 .. m : b[i] = Job(i)
      /\ ToSet(b) = {Job(i) : i \in 1 .. m}
  <2>1. \A i \in 1 .. m : Job(i) \in Seq(Command)
    <3> SUFFICES ASSUME NEW i \in 1 .. m PROVE Job(i) \in Seq(Command)
      OBVIOUS
    <3> HIDE DEF Hi
    <3>1. (i - 1) * B + 1 \in Nat \ {0} /\ Hi(i) \in Nat /\ Hi(i) <= Len(w)
      BY <1>7 DEF l
    <3> QED BY <3>1, StretchFacts
  <2> HIDE DEF Job
  <2>2. b \in Seq(Seq(Command)) /\ DOMAIN b = 1 .. m
    BY <1>5, <1>6, <2>1, SeqDef
  <2>3. Len(b) = m
    BY <1>5, <2>2
  <2>4. \A i \in 1 .. m : b[i] = Job(i)
    BY <1>6
  <2>5. ToSet(b) = {Job(i) : i \in 1 .. m}
    BY <2>2, <2>4 DEF ToSet
  <2> QED BY <2>2, <2>3, <2>4, <2>5
<1>9. ASSUME NEW i \in 1 .. m
      PROVE  /\ Job(i) \in Seq(Command) /\ IsInjective(Job(i)) /\ Len(Job(i)) \in Nat \ {0}
             /\ ToSet(Job(i)) = {w[k] : k \in ((i - 1) * B + 1) .. Hi(i)}
             /\ IsJob(Job(i)) /\ IsWrite(Job(i)[1])
  <2> DEFINE x == (i - 1) * B + 1
             y == Hi(i)
  <2>1. x \in Nat \ {0} /\ y \in Nat /\ y <= Len(w) /\ x <= y
    BY <1>7 DEF l
  <2> DEFINE j == SubSeq(w, x, y)
  <2>2. Job(i) = j
    OBVIOUS
  <2> HIDE DEF x, y, Hi, Job
  <2>3. /\ j \in Seq(Command) /\ IsInjective(j) /\ ToSet(j) = {w[k] : k \in x .. y}
        /\ Len(j) = (IF x <= y THEN (y - x) + 1 ELSE 0) /\ j[1] = w[x]
    BY <2>1, StretchFacts
  <2> HIDE DEF j
  <2>4. Len(j) \in Nat \ {0} /\ j # <<>>
    BY <2>1, <2>3
  <2>5. \A k \in x .. y : k \in 1 .. l
    BY <1>1, <2>1 DEF l
  <2>6. \A c \in ToSet(j) : IsWrite(c)
    BY <1>2, <2>3, <2>5
  <2>7. \A k \in DOMAIN j : IsWrite(j[k])
    BY <2>6 DEF ToSet
  <2>8. 1 \in DOMAIN j
    BY <2>3, <2>4
  <2>9. IsJob(j) /\ IsWrite(j[1])
    BY <2>3, <2>4, <2>7, <2>8 DEF IsJob
  <2> QED BY <2>2, <2>3, <2>4, <2>9 DEF x, y
<1> HIDE DEF Job, Hi
<1>10. n \in 0 .. l /\ n = IF l <= m * B THEN l ELSE m * B
  <2>1. m * B \in Nat
    BY <1>1, <1>5, MulMono
  <2>2. n = IF l <= m * B THEN l ELSE m * B
    BY <1>1, <2>1, MinTwo
  <2> HIDE DEF n
  <2> QED BY <1>1, <2>1, <2>2
<1> HIDE DEF n
<1>11. IsFiniteSet(ToSet(b))
  <2>1. IsFiniteSet(1 .. m)
    BY <1>5, FS_Interval
  <2>2. b \in Surjection(1 .. m, ToSet(b))
    BY <1>6, <1>8 DEF Surjection, ToSet
  <2> QED BY <2>1, <2>2, FS_Surjection
<1>12. ASSUME NEW i \in 1 .. m, NEW k \in 1 .. m, i < k PROVE ToSet(Job(i)) \cap ToSet(Job(k)) = {}
  <2>1. i * B <= (k - 1) * B
    <3>1. i \in Nat /\ k - 1 \in Nat /\ i <= k - 1 /\ B \in Nat
      BY <1>1, <1>5, <1>12
    <3> QED BY <3>1, MulMono
  <2> SUFFICES ASSUME NEW a \in ((i - 1) * B + 1) .. Hi(i), NEW c \in ((k - 1) * B + 1) .. Hi(k), w[a] = w[c]
               PROVE  FALSE
    BY <1>9
  <2> DEFINE x1 == (i - 1) * B
             y1 == i * B
             x2 == (k - 1) * B
             h1 == Hi(i)
             h2 == Hi(k)
  <2>2. /\ x1 \in Nat /\ x2 \in Nat /\ y1 <= x2 /\ h1 \in Nat /\ h1 <= l /\ h1 <= y1
        /\ h2 \in Nat /\ h2 <= l /\ y1 = x1 + B
    BY <1>7, <2>1
  <2>3. a \in (x1 + 1) .. h1 /\ c \in (x2 + 1) .. h2
    OBVIOUS
  <2> HIDE DEF x1, y1, x2, h1, h2
  <2>4. a \in 1 .. l /\ c \in 1 .. l /\ a < c
    BY <1>1, <2>2, <2>3
  <2>5. a = c
    BY <1>2, <2>4 DEF IsInjective
  <2> QED BY <2>4, <2>5
<1>13. \A i, j \in ToSet(b) : i # j => ToSet(i) \cap ToSet(j) = {}
  <2> SUFFICES ASSUME NEW i \in 1 .. m, NEW k \in 1 .. m, Job(i) # Job(k)
               PROVE  ToSet(Job(i)) \cap ToSet(Job(k)) = {}
    BY <1>8
  <2>1. i < k \/ k < i
    <3>1. i # k
      OBVIOUS
    <3> QED BY <1>5, <3>1
  <2> QED BY <1>12, <2>1
<1>14. UNION {ToSet(j) : j \in ToSet(b)} = {w[k] : k \in 1 .. n}
  <2>1. ASSUME NEW i \in 1 .. m, NEW k \in ((i - 1) * B + 1) .. Hi(i) PROVE k \in 1 .. n
    <3> DEFINE x == (i - 1) * B
               y == i * B
               z == m * B
               h == Hi(i)
    <3>1. x \in Nat /\ h \in Nat /\ h <= l /\ h <= y /\ y <= z /\ z \in Nat /\ y = x + B
      BY <1>7
    <3>2. k \in (x + 1) .. h /\ n = IF l <= z THEN l ELSE z
      BY <1>10
    <3> HIDE DEF x, y, z, h
    <3> QED BY <1>1, <3>1, <3>2
  <2>2. ASSUME NEW k \in 1 .. n PROVE \E i \in 1 .. m : k \in ((i - 1) * B + 1) .. Hi(i)
    <3> DEFINE e == (k - 1) \div B
    <3>1. k - 1 \in Nat /\ n \in Nat
      BY <1>10
    <3>2. e \in Nat /\ e * B <= k - 1 /\ k - 1 < e * B + B
      BY <1>1, <3>1, DivFacts
    <3> HIDE DEF e
    <3>3. e < m
      <4> SUFFICES ASSUME m <= e PROVE FALSE
        BY <1>5, <3>2
      <4>1. m * B <= e * B /\ m * B \in Nat /\ e * B \in Nat
        BY <1>1, <1>5, <3>2, MulMono
      <4> DEFINE u == m * B
                 v == e * B
      <4>2. u <= v /\ u \in Nat /\ v \in Nat /\ v <= k - 1 /\ n <= u
        BY <1>1, <1>10, <3>2, <4>1
      <4> HIDE DEF u, v
      <4> QED BY <3>1, <4>2
    <3>4. e + 1 \in 1 .. m /\ (e + 1) - 1 = e
      BY <1>5, <3>2, <3>3
    <3> DEFINE i == e + 1
    <3>5. i \in 1 .. m /\ i - 1 = e
      BY <3>4
    <3> HIDE DEF i
    <3>6. /\ i * B = e * B + B /\ e * B \in Nat /\ Hi(i) \in Nat
          /\ \A a : a <= l /\ a <= i * B => a <= Hi(i)
      BY <1>7, <3>5
    <3> DEFINE v == e * B
               y == i * B
    <3>7. v \in Nat /\ y = v + B /\ v <= k - 1 /\ k - 1 < v + B
      BY <3>2, <3>6
    <3> HIDE DEF v, y
    <3>8. k <= l /\ k <= y /\ v + 1 <= k /\ k \in Nat
      BY <1>1, <1>10, <3>1, <3>7
    <3>9. k <= Hi(i)
      BY <3>6, <3>8 DEF y
    <3>10. k \in (v + 1) .. Hi(i)
      BY <3>6, <3>7, <3>8, <3>9
    <3> QED BY <3>5, <3>10 DEF v
  <2> DEFINE U == UNION {ToSet(j) : j \in ToSet(b)}
  <2>3. U = UNION {ToSet(Job(i)) : i \in 1 .. m}
    BY <1>8
  <2>4. ASSUME NEW c \in U PROVE c \in {w[k] : k \in 1 .. n}
    <3>1. PICK i \in 1 .. m : c \in ToSet(Job(i))
      BY <2>3
    <3>2. PICK k \in ((i - 1) * B + 1) .. Hi(i) : c = w[k]
      BY <1>9, <3>1
    <3> QED BY <2>1, <3>2
  <2>5. ASSUME NEW k \in 1 .. n PROVE w[k] \in U
    <3>1. PICK i \in 1 .. m : k \in ((i - 1) * B + 1) .. Hi(i)
      BY <2>2
    <3>2. w[k] \in ToSet(Job(i))
      BY <1>9, <3>1
    <3> QED BY <2>3, <3>2
  <2> QED BY <2>4, <2>5
<1>15. \A j \in ToSet(b) : IsJob(j) /\ IsInjective(j) /\ IsWrite(j[1])
  BY <1>8, <1>9
<1>16. n = Min({Len(w), Len(b) * Batch})
  BY <1>8 DEF n, l, B
<1> QED BY <1>10, <1>11, <1>13, <1>14, <1>15, <1>16 DEF b, l

\* A sequence of one command.
LEMMA Single ==
  ASSUME NEW c \in Command
  PROVE  /\ <<c>> \in Seq(Command) /\ IsInjective(<<c>>) /\ ToSet(<<c>>) = {c} /\ <<c>>[1] = c
         /\ ~IsWrite(c) => IsJob(<<c>>)
<1>1. /\ <<c>> \in Seq(Command) /\ Len(<<c>>) = 1 /\ <<c>>[1] = c /\ <<c>> # <<>>
      /\ DOMAIN <<c>> = {1}
  OBVIOUS
<1> DEFINE j == <<c>>
<1> HIDE DEF j
<1>2. j \in Seq(Command) /\ Len(j) = 1 /\ j[1] = c /\ j # <<>> /\ DOMAIN j = {1}
  BY <1>1 DEF j
<1>3. IsInjective(j) /\ ToSet(j) = {c}
  BY <1>2 DEF IsInjective, ToSet
<1>4. ~IsWrite(c) => IsJob(j)
  BY <1>2 DEF IsJob
<1> QED BY <1>2, <1>3, <1>4 DEF j

\* Hash jobs are started while a hasher is free, one command each.
LEMMA HashStarts ==
  ASSUME NEW h \in Seq(Command), IsInjective(h), \A c \in ToSet(h) : ~IsWrite(c), Running
  PROVE  LET n == Min({Len(h), Hashers - Cardinality(HashJobs)})
             H == {<<h[i]>> : i \in 1 .. n}
         IN /\ n \in 0 .. Len(h) /\ IsFiniteSet(H) /\ Cardinality(H) + Cardinality(HashJobs) <= Hashers
            /\ \A j \in H : IsJob(j) /\ IsInjective(j) /\ ~IsWrite(j[1]) /\ j[1] \in ToSet(h)
            /\ \A i, j \in H : i # j => ToSet(i) \cap ToSet(j) = {}
            /\ UNION {ToSet(j) : j \in H} = {h[k] : k \in 1 .. n}
<1> DEFINE l == Len(h)
           a == Cardinality(HashJobs)
           n == Min({l, Hashers - a})
           H == {<<h[i]>> : i \in 1 .. n}
<1>1. l \in Nat /\ DOMAIN h = 1 .. l
  OBVIOUS
<1>2. a \in Nat /\ a <= Hashers /\ Hashers \in Nat
  <2>1. IsFiniteSet(HashJobs)
    BY FS_Subset DEF Running, HashJobs, JobsOf
  <2> QED BY <2>1, FS_CardinalityType, Constants DEF Running
<1> HIDE DEF a
<1>3. n \in 0 .. l /\ n + a <= Hashers /\ n \in Nat
  <2>1. Hashers - a \in Nat
    BY <1>2
  <2>2. n = IF l <= Hashers - a THEN l ELSE Hashers - a
    BY <1>1, <2>1, MinTwo
  <2> HIDE DEF n, l
  <2> QED BY <1>1, <1>2, <2>1, <2>2
<1> HIDE DEF n
<1>4. \A k \in 1 .. n : k \in DOMAIN h /\ h[k] \in Command /\ ~IsWrite(h[k]) /\ h[k] \in ToSet(h)
  BY <1>1, <1>3 DEF ToSet
<1>5. ASSUME NEW k \in 1 .. n
      PROVE  /\ <<h[k]>> \in Seq(Command) /\ IsInjective(<<h[k]>>) /\ ToSet(<<h[k]>>) = {h[k]}
             /\ <<h[k]>>[1] = h[k] /\ IsJob(<<h[k]>>)
  BY <1>4, Single
<1>6. \A j \in H : IsJob(j) /\ IsInjective(j) /\ ~IsWrite(j[1]) /\ j[1] \in ToSet(h)
  <2> SUFFICES ASSUME NEW k \in 1 .. n
               PROVE  LET j == <<h[k]>> IN IsJob(j) /\ IsInjective(j) /\ ~IsWrite(j[1]) /\ j[1] \in ToSet(h)
    OBVIOUS
  <2> QED BY <1>4, <1>5
<1>7. \A i, j \in H : i # j => ToSet(i) \cap ToSet(j) = {}
  <2> SUFFICES ASSUME NEW i \in 1 .. n, NEW k \in 1 .. n, <<h[i]>> # <<h[k]>>
               PROVE  ToSet(<<h[i]>>) \cap ToSet(<<h[k]>>) = {}
    OBVIOUS
  <2>1. h[i] # h[k]
    OBVIOUS
  <2>2. ToSet(<<h[i]>>) = {h[i]} /\ ToSet(<<h[k]>>) = {h[k]}
    BY <1>5
  <2> QED BY <2>1, <2>2
<1>8. UNION {ToSet(j) : j \in H} = {h[k] : k \in 1 .. n}
  <2>1. UNION {ToSet(j) : j \in H} = UNION {ToSet(<<h[k]>>) : k \in 1 .. n}
    OBVIOUS
  <2>2. UNION {ToSet(<<h[k]>>) : k \in 1 .. n} = UNION {{h[k]} : k \in 1 .. n}
    BY <1>5
  <2> QED BY <2>1, <2>2
<1>9. IsFiniteSet(H) /\ Cardinality(H) <= n /\ Cardinality(H) \in Nat
  <2> DEFINE f == [k \in 1 .. n |-> <<h[k]>>]
  <2>1. f \in Surjection(1 .. n, H)
    BY DEF Surjection
  <2>2. IsFiniteSet(1 .. n) /\ Cardinality(1 .. n) = n
    <3>1. Cardinality(1 .. n) = IF 1 > n THEN 0 ELSE (n - 1) + 1
      BY <1>3, FS_Interval
    <3>2. n = IF 1 > n THEN 0 ELSE (n - 1) + 1
      BY <1>3
    <3> QED BY <1>3, <3>1, <3>2, FS_Interval
  <2> HIDE DEF f, H
  <2> QED BY <2>1, <2>2, FS_Surjection, FS_CardinalityType
<1>10. Cardinality(H) + a <= Hashers
  <2> HIDE DEF H
  <2> QED BY <1>2, <1>3, <1>9
<1> QED BY <1>3, <1>6, <1>7, <1>8, <1>9, <1>10 DEF n, a

\* The commands of three sets of jobs.
LEMMA JobsUnion ==
  ASSUME NEW A, NEW B, NEW C
  PROVE  UNION {ToSet(j) : j \in A \cup B \cup C}
           = (UNION {ToSet(j) : j \in A}) \cup (UNION {ToSet(j) : j \in B}) \cup (UNION {ToSet(j) : j \in C})
OBVIOUS

\* What the task has of one kind once it has taken the channel's commands.
LEMMA QueueFacts ==
  ASSUME Types, Books, NEW writing \in BOOLEAN, NEW q \in Seq(Command), IsInjective(q),
         ToSet(q) \cap CommandSet = {}, \A c \in ToSet(q) : IsWrite(c) = writing
  PROVE  LET w == q \o Sorted(intake.commands, writing)
         IN /\ w \in Seq(Command) /\ IsInjective(w)
            /\ ToSet(w) = ToSet(q) \cup {c \in CommandSet : IsWrite(c) = writing}
            /\ \A c \in ToSet(w) : IsWrite(c) = writing
<1> DEFINE s == Sorted(intake.commands, writing)
<1>1. intake.commands \in Seq(Command) /\ IsInjective(intake.commands)
  BY LanesNow DEF Types, Intake, Books, Lanes, SeqsOnce
<1>2. /\ s \in Seq(Command) /\ IsInjective(s)
      /\ ToSet(s) = {c \in CommandSet : IsWrite(c) = writing}
  BY <1>1, SortedFacts DEF CommandSet
<1> HIDE DEF s
<1>3. ToSet(q) \cap ToSet(s) = {}
  BY <1>2
<1>4. q \o s \in Seq(Command) /\ IsInjective(q \o s) /\ ToSet(q \o s) = ToSet(q) \cup ToSet(s)
  BY <1>2, <1>3, ConcatFacts
<1> QED BY <1>2, <1>4 DEF s

\* The top of the task's loop.
LEMMA TaskTopStep ==
  ASSUME PipelineInv, TaskTop
  PROVE  PipelineInv'
<1> DEFINE w == writes \o Sorted(intake.commands, TRUE)
           h == hashes \o Sorted(intake.commands, FALSE)
           sent == Min({Len(finished), Room})
           batches == Batches(w)
           nw == Min({Len(w), Len(batches) * Batch})
           nh == Min({Len(h), Hashers - Cardinality(HashJobs)})
           Bs == ToSet(batches)
           Hs == {<<h[i]>> : i \in 1 .. nh}
<1>1. /\ task = "top" /\ ~cancelled /\ intake' = [intake EXCEPT !.commands = <<>>]
      /\ writes' = SubSeq(w, nw + 1, Len(w)) /\ hashes' = SubSeq(h, nh + 1, Len(h))
      /\ running' = running \cup Bs \cup Hs
      /\ completions' = completions \o SubSeq(finished, 1, sent)
      /\ finished' = SubSeq(finished, sent + 1, Len(finished))
      /\ UNCHANGED <<lost, driver, closed, cancelled, piece, received, stored, disk>>
  BY DEF TaskTop, swarm, HashJobs
<1>2. task' \in {"ended", "select"} /\ (task' = "ended" => running' = {})
  BY DEF TaskTop
<1>3. Active /\ Books /\ Pieces /\ Types /\ Running /\ intake.error = "none" /\ intake \in Intake /\ TaskTypes
  BY <1>1, TaskActive, TypePartsNow DEF TypeParts
<1>4. SeqsOnce /\ JobsOnce /\ LanesApart
  BY <1>3, LanesNow DEF Books, Lanes
<1>5. Apart(PendingSet, CommandSet, WriteSet, HashSet, RunningSet, FinishedSet, CompletionSet, lost)
  BY <1>4 DEF LanesApart
<1> DEFINE wc == {c \in CommandSet : IsWrite(c)}
           hc == {c \in CommandSet : ~IsWrite(c)}
<1>6. /\ w \in Seq(Command) /\ IsInjective(w) /\ ToSet(w) = WriteSet \cup wc
      /\ \A c \in ToSet(w) : IsWrite(c)
  <2>1. writes \in Seq(Command) /\ IsInjective(writes) /\ ToSet(writes) \cap CommandSet = {}
        /\ \A c \in ToSet(writes) : IsWrite(c) = TRUE
    BY <1>3, <1>4, <1>5 DEF TaskTypes, SeqsOnce, Apart, WriteSet, Books, IsWrite
  <2>2. /\ w \in Seq(Command) /\ IsInjective(w)
        /\ ToSet(w) = ToSet(writes) \cup {c \in CommandSet : IsWrite(c) = TRUE}
        /\ \A c \in ToSet(w) : IsWrite(c) = TRUE
    <3>1. TRUE \in BOOLEAN
      OBVIOUS
    <3> QED BY <1>3, <2>1, <3>1, QueueFacts
  <2> HIDE DEF w
  <2>3. {c \in CommandSet : IsWrite(c) = TRUE} = wc
    BY DEF IsWrite
  <2> QED BY <2>2, <2>3 DEF WriteSet
<1>7. /\ h \in Seq(Command) /\ IsInjective(h) /\ ToSet(h) = HashSet \cup hc
      /\ \A c \in ToSet(h) : ~IsWrite(c)
  <2>1. hashes \in Seq(Command) /\ IsInjective(hashes) /\ ToSet(hashes) \cap CommandSet = {}
        /\ \A c \in ToSet(hashes) : IsWrite(c) = FALSE
    BY <1>3, <1>4, <1>5 DEF TaskTypes, SeqsOnce, Apart, HashSet, Books, IsWrite
  <2>2. /\ h \in Seq(Command) /\ IsInjective(h)
        /\ ToSet(h) = ToSet(hashes) \cup {c \in CommandSet : IsWrite(c) = FALSE}
        /\ \A c \in ToSet(h) : IsWrite(c) = FALSE
    <3>1. FALSE \in BOOLEAN
      OBVIOUS
    <3> QED BY <1>3, <2>1, <3>1, QueueFacts
  <2> HIDE DEF h
  <2>3. {c \in CommandSet : IsWrite(c) = FALSE} = hc
    BY DEF IsWrite
  <2> QED BY <2>2, <2>3 DEF HashSet
<1> HIDE DEF w, h
<1>8. /\ nw \in 0 .. Len(w) /\ IsFiniteSet(Bs)
      /\ \A j \in Bs : IsJob(j) /\ IsInjective(j) /\ IsWrite(j[1])
      /\ \A i, j \in Bs : i # j => ToSet(i) \cap ToSet(j) = {}
      /\ UNION {ToSet(j) : j \in Bs} = {w[k] : k \in 1 .. nw}
  <2>1. IsFiniteSet(running)
    BY <1>3 DEF Running
  <2> QED BY <1>6, <2>1, BatchesFacts
<1>9. /\ nh \in 0 .. Len(h) /\ IsFiniteSet(Hs) /\ Cardinality(Hs) + Cardinality(HashJobs) <= Hashers
      /\ \A j \in Hs : IsJob(j) /\ IsInjective(j) /\ ~IsWrite(j[1]) /\ j[1] \in ToSet(h)
      /\ \A i, j \in Hs : i # j => ToSet(i) \cap ToSet(j) = {}
      /\ UNION {ToSet(j) : j \in Hs} = {h[k] : k \in 1 .. nh}
  BY <1>3, <1>7, HashStarts
<1> HIDE DEF nw, nh, Bs, Hs, batches
<1> DEFINE w1 == ToSet(SubSeq(w, 1, nw))
           w2 == ToSet(SubSeq(w, nw + 1, Len(w)))
           h1 == ToSet(SubSeq(h, 1, nh))
           h2 == ToSet(SubSeq(h, nh + 1, Len(h)))
<1>10. /\ writes' \in Seq(Command) /\ IsInjective(writes') /\ w1 \cup w2 = ToSet(w)
       /\ w1 \cap w2 = {} /\ w1 = {w[k] : k \in 1 .. nw}
  BY <1>1, <1>6, <1>8, SplitFacts
<1>11. /\ hashes' \in Seq(Command) /\ IsInjective(hashes') /\ h1 \cup h2 = ToSet(h)
       /\ h1 \cap h2 = {} /\ h1 = {h[k] : k \in 1 .. nh}
  BY <1>1, <1>7, <1>9, SplitFacts
<1>12. sent \in 0 .. Len(finished) /\ Len(completions) + sent <= Limit
  <2> DEFINE lf == Len(finished)
             lc == Len(completions)
  <2>1. lf \in Nat /\ lc \in Nat /\ lc <= Limit /\ Limit \in Nat /\ Limit - lc \in Nat
    BY <1>3, Constants DEF TaskTypes
  <2>2. sent = IF lf <= Limit - lc THEN lf ELSE Limit - lc
    BY <2>1, MinTwo DEF Room
  <2> HIDE DEF sent, lf, lc
  <2>3. sent \in 0 .. lf /\ lc + sent <= Limit
    BY <2>1, <2>2
  <2> QED BY <2>3 DEF lf, lc
<1> HIDE DEF sent
<1>13. /\ completions' \in Seq(Report) /\ finished' \in Seq(Report) /\ Len(completions') <= Limit
       /\ IsInjective(Reported(completions')) /\ IsInjective(Reported(finished'))
       /\ CompletionSet' \cup FinishedSet' = FinishedSet \cup CompletionSet
       /\ CompletionSet' \cap FinishedSet' = {}
       /\ ReportsTrue(completions') /\ ReportsTrue(finished')
  BY <1>1, <1>3, <1>12, MoveReports DEF CompletionSet, FinishedSet
<1>14. /\ intake' \in Intake /\ intake'.error = intake.error /\ intake'.jobs = intake.jobs
       /\ intake'.pending = intake.pending /\ intake'.resident = intake.resident
       /\ intake'.pressured = intake.pressured /\ intake'.commands = <<>>
  <2>1. <<>> \in Seq(Command)
    OBVIOUS
  <2> QED BY <1>1, <1>3, <2>1 DEF Intake
<1>15. IsInjective(<<>>) /\ ToSet(<<>>) = {} /\ Len(<<>>) = 0
  BY DEF IsInjective, ToSet
<1>16. /\ PendingSet' = PendingSet /\ CommandSet' = {} /\ WriteSet' = w2 /\ HashSet' = h2
       /\ RunningSet' = RunningSet \cup w1 \cup h1
  <2>1. RunningSet' = RunningSet \cup w1 \cup h1
    <3>1. UNION {ToSet(j) : j \in running \cup Bs \cup Hs}
            = (UNION {ToSet(j) : j \in running}) \cup (UNION {ToSet(j) : j \in Bs})
                \cup (UNION {ToSet(j) : j \in Hs})
      BY JobsUnion
    <3>2. RunningSet' = UNION {ToSet(j) : j \in running \cup Bs \cup Hs}
      BY <1>1 DEF RunningSet
    <3>3. w1 = UNION {ToSet(j) : j \in Bs} /\ h1 = UNION {ToSet(j) : j \in Hs}
      BY <1>8, <1>9, <1>10, <1>11
    <3> HIDE DEF w1, h1
    <3> QED BY <3>1, <3>2, <3>3 DEF RunningSet
  <2>2. WriteSet' = w2 /\ HashSet' = h2
    BY <1>1 DEF WriteSet, HashSet
  <2>3. PendingSet' = PendingSet /\ CommandSet' = {}
    BY <1>14, <1>15 DEF PendingSet, CommandSet
  <2> QED BY <2>1, <2>2, <2>3
<1> HIDE DEF w1, w2, h1, h2
<1>17. /\ Apart(PendingSet, {}, w2, h2, RunningSet \cup w1 \cup h1, FinishedSet', CompletionSet', lost)
       /\ PendingSet \cup {} \cup w2 \cup h2 \cup (RunningSet \cup w1 \cup h1)
            = PendingSet \cup CommandSet \cup WriteSet \cup HashSet \cup RunningSet
       /\ ToSet(w) \cap ToSet(h) = {} /\ RunningSet \cap ToSet(w) = {} /\ RunningSet \cap ToSet(h) = {}
  <2> DEFINE f2 == FinishedSet'
             d2 == CompletionSet'
  <2>1. \A x : /\ x \in CommandSet <=> x \in wc \/ x \in hc
               /\ ~(x \in wc /\ x \in hc)
    OBVIOUS
  <2>2. \A x : /\ x \in w1 \/ x \in w2 <=> x \in ToSet(w)
               /\ x \in ToSet(w) <=> x \in WriteSet \/ x \in wc
               /\ ~(x \in w1 /\ x \in w2)
    BY <1>6, <1>10
  <2>3. \A x : /\ x \in h1 \/ x \in h2 <=> x \in ToSet(h)
               /\ x \in ToSet(h) <=> x \in HashSet \/ x \in hc
               /\ ~(x \in h1 /\ x \in h2)
    BY <1>7, <1>11
  <2>4. \A x : /\ x \in f2 \/ x \in d2 <=> x \in FinishedSet \/ x \in CompletionSet
               /\ ~(x \in f2 /\ x \in d2)
    BY <1>13
  <2> HIDE DEF wc, hc, f2, d2
  <2>5. Apart(PendingSet, {}, w2, h2, RunningSet \cup w1 \cup h1, f2, d2, lost)
    BY <1>5, <2>1, <2>2, <2>3, <2>4 DEF Apart
  <2>6. PendingSet \cup {} \cup w2 \cup h2 \cup (RunningSet \cup w1 \cup h1)
             = PendingSet \cup CommandSet \cup WriteSet \cup HashSet \cup RunningSet
    BY <2>1, <2>2, <2>3
  <2>7. ToSet(w) \cap ToSet(h) = {} /\ RunningSet \cap ToSet(w) = {} /\ RunningSet \cap ToSet(h) = {}
    BY <1>5, <2>1, <2>2, <2>3 DEF Apart
  <2> QED BY <2>5, <2>6, <2>7 DEF f2, d2
<1>18. LanesApart'
  BY <1>1, <1>16, <1>17 DEF LanesApart
<1>19. InFlight' = InFlight /\ Unreported' = Unreported
  <2>1. /\ InFlight = PendingSet \cup CommandSet \cup WriteSet \cup HashSet \cup RunningSet
                \cup FinishedSet \cup CompletionSet \cup lost
        /\ Unreported = PendingSet \cup CommandSet \cup WriteSet \cup HashSet \cup RunningSet
    BY LanesNow DEF Lanes
  <2>2. /\ InFlight' = PendingSet' \cup CommandSet' \cup WriteSet' \cup HashSet' \cup RunningSet'
                \cup FinishedSet' \cup CompletionSet' \cup lost'
        /\ Unreported' = PendingSet' \cup CommandSet' \cup WriteSet' \cup HashSet' \cup RunningSet'
    BY LanesNext DEF Lanes
  <2>3. Unreported' = Unreported
    BY <1>16, <1>17, <2>1, <2>2
  <2>4. InFlight = Unreported \cup (FinishedSet \cup CompletionSet) \cup lost
    BY <2>1
  <2>5. InFlight' = Unreported' \cup (CompletionSet' \cup FinishedSet') \cup lost
    BY <1>1, <2>2
  <2> QED BY <1>13, <2>3, <2>4, <2>5
<1>20. SeqsOnce'
  BY <1>4, <1>10, <1>11, <1>13, <1>14, <1>15 DEF SeqsOnce
<1>21. JobsOnce'
  <2>1. \A j \in running : IsInjective(j) /\ ToSet(j) \subseteq RunningSet
    BY <1>4 DEF JobsOnce, RunningSet
  <2>2. \A j \in Bs : ToSet(j) \subseteq ToSet(w)
    BY <1>8, <1>10
  <2>3. \A j \in Hs : ToSet(j) \subseteq ToSet(h)
    BY <1>9, <1>11
  <2>4. \A j \in running' : IsInjective(j)
    BY <1>1, <1>8, <1>9, <2>1
  <2>5. \A i \in running, j \in Bs : ToSet(i) \cap ToSet(j) = {}
    BY <1>17, <2>1, <2>2
  <2>6. \A i \in running, j \in Hs : ToSet(i) \cap ToSet(j) = {}
    BY <1>17, <2>1, <2>3
  <2>7. \A i \in Bs, j \in Hs : ToSet(i) \cap ToSet(j) = {}
    BY <1>17, <2>2, <2>3
  <2>8. \A i, j \in running : i # j => ToSet(i) \cap ToSet(j) = {}
    BY <1>4 DEF JobsOnce
  <2>9. \A i, j \in running' : i # j => ToSet(i) \cap ToSet(j) = {}
    <3> SUFFICES ASSUME NEW i \in running', NEW j \in running', i # j PROVE ToSet(i) \cap ToSet(j) = {}
      OBVIOUS
    <3>1. (i \in running \/ i \in Bs \/ i \in Hs) /\ (j \in running \/ j \in Bs \/ j \in Hs)
      BY <1>1
    <3>2. CASE i \in running
      BY <2>5, <2>6, <2>8, <3>1, <3>2
    <3>3. CASE i \in Bs
      BY <1>8, <2>5, <2>7, <3>1, <3>3
    <3>4. CASE i \in Hs
      BY <1>9, <2>6, <2>7, <3>1, <3>4
    <3> QED BY <3>1, <3>2, <3>3, <3>4
  <2> QED BY <2>4, <2>9 DEF JobsOnce
<1>22. Books'
  <2>1. Once'
    BY <1>18, <1>20, <1>21, LanesNext DEF Lanes
  <2>2. (\A c \in WriteSet' : IsWrite(c)) /\ (\A c \in HashSet' : ~IsWrite(c))
    BY <1>6, <1>7, <1>10, <1>11, <1>16
  <2>3. Len(intake'.commands) <= Limit
    BY <1>14, <1>15, Constants
  <2> QED BY <1>1, <1>3, <1>14, <1>19, <2>1, <2>2, <2>3, TaskBooks
<1>23. Pieces'
  <2>1. ReportsTrue(finished)' /\ ReportsTrue(completions)'
    BY <1>1, <1>13 DEF ReportsTrue
  <2>2. \A c \in Unreported' : c.kind = "verify" => BlocksOf(c.piece) \subseteq disk'
    BY <1>1, <1>3, <1>19 DEF Pieces
  <2> QED BY <1>1, <1>3, <1>19, <2>1, <2>2, PiecesKept
<1>24. IsFiniteSet(running') /\ \A j \in running' : IsJob(j)
  <2>1. IsFiniteSet(running) /\ \A j \in running : IsJob(j)
    BY <1>3 DEF Running
  <2>2. IsFiniteSet(running \cup Bs)
    BY <1>8, <2>1, FS_Union
  <2>3. IsFiniteSet((running \cup Bs) \cup Hs)
    BY <1>9, <2>2, FS_Union
  <2> QED BY <1>1, <1>8, <1>9, <2>1, <2>3
<1>25. \A j \in running' : j \in Seq(Command) /\ j # <<>> /\ 1 \in DOMAIN j /\ j[1] \in Command /\ j[1] \in Unreported
  <2> SUFFICES ASSUME NEW j \in running'
               PROVE  j \in Seq(Command) /\ j # <<>> /\ 1 \in DOMAIN j /\ j[1] \in Command /\ j[1] \in Unreported
    OBVIOUS
  <2>1. j \in Seq(Command) /\ j # <<>>
    BY <1>24 DEF IsJob
  <2>2. 1 \in DOMAIN j /\ j[1] \in Command
    BY <2>1
  <2>3. j[1] \in RunningSet'
    BY <2>2 DEF RunningSet, ToSet
  <2>4. RunningSet' \subseteq Unreported'
    BY LanesNext DEF Lanes
  <2> QED BY <1>19, <2>1, <2>2, <2>3, <2>4
<1>26. TaskTypes'
  <2>1. lost' \subseteq Command
    BY <1>1, <1>3 DEF TaskTypes
  <2> QED BY <1>2, <1>10, <1>11, <1>13, <1>25, <2>1 DEF TaskTypes
<1>27. Running'
  <2>1. \A j \in running' : IsJob(j)'
    BY <1>24 DEF IsJob
  <2>2. HashSeesWrites'
    BY <1>1, <1>3, <1>25 DEF HashSeesWrites, Pieces, BlocksOf
  <2>3. HashJobs' = {j \in running' : j[1].kind \in {"verify", "candidate"}}
    BY DEF HashJobs, JobsOf
  <2>4. \A j \in running' : j \in HashJobs' <=> ~IsWrite(j[1])
    <3>1. \A c \in Command : c.kind \in {"verify", "candidate"} <=> ~IsWrite(c)
      BY DEF Command, IsWrite
    <3> QED BY <1>25, <2>3, <3>1
  <2>5. \A i, j \in HashJobs' : i[1].piece = j[1].piece => i = j
    <3> SUFFICES ASSUME NEW i \in HashJobs', NEW j \in HashJobs', i[1].piece = j[1].piece PROVE i = j
      OBVIOUS
    <3>1. i \in running' /\ j \in running' /\ ~IsWrite(i[1]) /\ ~IsWrite(j[1])
      BY <2>3, <2>4
    <3>2. Unreported \subseteq InFlight
      BY LanesNow DEF Lanes
    <3>3. i[1] = j[1]
      BY <1>3, <1>25, <3>1, <3>2, OneHash
    <3>4. i \in Seq(Command) /\ Len(i) = 1 /\ j \in Seq(Command) /\ Len(j) = 1
      BY <1>24, <3>1 DEF IsJob
    <3> QED BY <3>3, <3>4
  <2>6. HashJobs' \subseteq HashJobs \cup Hs
    <3>1. \A j \in running : j[1].kind \in {"verify", "candidate"} => j \in HashJobs
      BY DEF HashJobs, JobsOf
    <3>2. \A j \in Bs : j \in running' /\ IsWrite(j[1])
      BY <1>1, <1>8
    <3> QED BY <1>1, <2>3, <2>4, <3>1, <3>2
  <2>7. IsFiniteSet(HashJobs) /\ IsFiniteSet(HashJobs \cup Hs)
    <3>1. IsFiniteSet(HashJobs)
      BY <1>3, FS_Subset DEF Running, HashJobs, JobsOf
    <3> QED BY <1>9, <3>1, FS_Union
  <2>8. Cardinality(HashJobs') <= Hashers
    <3> DEFINE a == Cardinality(HashJobs)
               b == Cardinality(Hs)
               c == Cardinality(HashJobs \cup Hs)
               d == Cardinality(HashJobs')
               e == Cardinality(HashJobs \cap Hs)
    <3>1. a \in Nat /\ b \in Nat /\ c \in Nat
      BY <1>9, <2>7, FS_CardinalityType
    <3>2. e \in Nat
      <4>1. IsFiniteSet(HashJobs \cap Hs)
        BY <2>7, FS_Subset
      <4> QED BY <4>1, FS_CardinalityType
    <3>3. c = a + b - e
      BY <1>9, <2>7, FS_Union
    <3>4. d <= c /\ d \in Nat
      <4>1. IsFiniteSet(HashJobs')
        BY <2>6, <2>7, FS_Subset
      <4> QED BY <2>6, <2>7, <4>1, FS_Subset, FS_CardinalityType
    <3>5. b + a <= Hashers /\ Hashers \in Nat
      BY <1>9, Constants
    <3> HIDE DEF a, b, c, d, e
    <3>6. d <= Hashers
      BY <3>1, <3>2, <3>3, <3>4, <3>5
    <3> QED BY <3>6 DEF d
  <2> QED BY <1>24, <2>1, <2>2, <2>5, <2>8 DEF Running
<1>28. task # "ended"
  BY <1>1
<1> QED BY <1>1, <1>2, <1>14, <1>22, <1>23, <1>26, <1>27, <1>28, TaskStep

-----------------------------------------------------------------------------
(* The invariant. *)

\* A pipeline that has just been started satisfies the invariant.
LEMMA InitHolds ==
  ASSUME Init
  PROVE  PipelineInv
<1>1. /\ intake = [pending |-> <<>>, commands |-> <<>>, jobs |-> 0, resident |-> 0,
                   pressured |-> FALSE, error |-> "none"]
      /\ writes = <<>> /\ hashes = <<>> /\ running = {} /\ finished = <<>> /\ completions = <<>>
      /\ lost = {} /\ task = "top" /\ driver = "top" /\ closed = FALSE /\ cancelled = FALSE
      /\ piece = [p \in Piece |-> IF p \in Candidate THEN "candidate" ELSE "wanted"]
      /\ received = [p \in Piece |-> 0] /\ stored = [p \in Piece |-> 0]
  BY DEF Init
<1>2. <<>> \in Seq(Command) /\ <<>> \in Seq(Report) /\ Len(<<>>) = 0 /\ 0 \in 0 .. Limit /\ 0 \in 0 .. Blocks
  BY Constants
<1>3. IsInjective(<<>>) /\ ToSet(<<>>) = {} /\ Reported(<<>>) = <<>>
  BY DEF IsInjective, ToSet, Reported
<1>4. intake \in Intake /\ intake.error = "none" /\ intake.jobs = 0 /\ intake.resident = 0
      /\ intake.pending = <<>> /\ intake.commands = <<>>
  BY <1>1, <1>2 DEF Intake
<1>5. Types
  <2>1. TaskTypes
    BY <1>1, <1>2, Constants DEF TaskTypes
  <2>2. DriverTypes /\ SwarmTypes
    BY <1>1, <1>2 DEF DriverTypes, SwarmTypes
  <2> QED BY <1>4, <2>1, <2>2, TypePartsNow DEF TypeParts
<1>6. Control
  BY <1>1, <1>4 DEF Control
<1>7. IsFiniteSet({}) /\ Cardinality({}) = 0
  BY FS_EmptySet
<1>8. Running
  <2>1. HashJobs = {}
    BY <1>1 DEF HashJobs, JobsOf
  <2> QED BY <1>1, <1>7, <2>1, Constants DEF Running, HashSeesWrites
<1>9. /\ PendingSet = {} /\ CommandSet = {} /\ WriteSet = {} /\ HashSet = {} /\ RunningSet = {}
      /\ FinishedSet = {} /\ CompletionSet = {} /\ lost = {}
  BY <1>1, <1>3, <1>4
    DEF PendingSet, CommandSet, WriteSet, HashSet, RunningSet, FinishedSet, CompletionSet
<1>10. InFlight = {} /\ Unreported = {}
  BY <1>9, LanesNow DEF Lanes
<1>11. Once
  <2>1. SeqsOnce /\ JobsOnce
    BY <1>1, <1>3, <1>4 DEF SeqsOnce, JobsOnce
  <2>2. LanesApart
    BY <1>9 DEF LanesApart, Apart
  <2> QED BY <2>1, <2>2, LanesNow DEF Lanes
<1>12. Books
  <2>1. WritesIn(InFlight) = {}
    BY <1>10 DEF WritesIn
  <2>2. IsFiniteSet(InFlight) /\ intake.jobs = Cardinality(InFlight)
        /\ intake.resident = Cardinality(WritesIn(InFlight))
    BY <1>4, <1>7, <1>10, <2>1
  <2>3. Len(intake.commands) <= Limit
    BY <1>2, <1>4, Constants
  <2>4. ToSet(writes) = {} /\ ToSet(hashes) = {} /\ driver = "top"
    BY <1>1, <1>3
  <2> QED BY <1>11, <2>2, <2>3, <2>4 DEF Books
<1>13. Pieces
  <2>1. ASSUME NEW p \in Piece PROVE Downloading(p)
    <3>1. WritesOf(p) = {}
      BY <1>10 DEF WritesOf
    <3>2. received[p] = 0 /\ stored[p] = 0 /\ Cardinality(WritesOf(p)) = 0
      BY <1>1, <1>7, <3>1
    <3> QED BY <3>2 DEF Downloading
  <2>2. ReportsTrue(finished) /\ ReportsTrue(completions)
    BY <1>1 DEF ReportsTrue
  <2>3. \A p \in Piece : Awaited(p)
    BY <1>1 DEF Awaited
  <2> QED BY <1>10, <2>1, <2>2, <2>3 DEF Pieces
<1>14. NoOverflow
  BY <1>1, <1>2, <1>4, Constants DEF NoOverflow, Bounded, PendingQueue
<1> QED BY <1>5, <1>6, <1>8, <1>12, <1>13, <1>14 DEF PipelineInv

\* Every step keeps the invariant.
LEMMA StepHolds ==
  ASSUME PipelineInv, [Next]_vars
  PROVE  PipelineInv'
<1>1. CASE SupervisorTop
  BY <1>1, SupervisorTopStep
<1>2. CASE Deadline \/ BeginSelection \/ Wake
  BY <1>2, QuietStep
<1>3. CASE Completion
  BY <1>3, CompletionStep
<1>4. CASE DrainTurn
  BY <1>4, DrainTurnStep
<1>5. CASE Stopped
  BY <1>5, StoppedStep
<1>6. CASE \E S \in SUBSET Candidate : Restart(S)
  BY <1>6, RestartStep
<1>7. CASE TaskTop
  BY <1>7, TaskTopStep
<1>8. CASE CancelledTop
  BY <1>8, CancelledTopStep
<1>9. CASE SendCompletion
  BY <1>9, SendCompletionStep
<1>10. CASE JobEnd
  BY <1>10, JobEndsStep DEF JobEnd
<1>11. CASE Cancel
  BY <1>11, CancelStep
<1>12. CASE Over \/ UNCHANGED vars
  BY <1>12, StutterStep DEF Over
<1>13. CASE \E p \in Piece : ReceiveBlock(p)
  BY <1>13, ReceiveBlockStep
<1>14. CASE \E S \in SUBSET Candidate : ReceiveHashes(S)
  BY <1>14, ReceiveHashesStep
<1> QED BY <1>1, <1>2, <1>3, <1>4, <1>5, <1>6, <1>7, <1>8, <1>9, <1>10, <1>11, <1>12, <1>13, <1>14
        DEF Next, Supervise, Work

\* The two tasks keep the books of the pipeline together.
THEOREM PipelineInvHolds == Spec => []PipelineInv
<1>1. Init => PipelineInv
  BY InitHolds
<1>2. PipelineInv /\ [Next]_vars => PipelineInv'
  BY StepHolds
<1> QED BY <1>1, <1>2, PTL DEF Spec

\* When a new selection is applied the old pipeline is empty: no piece waits for a hash,
\* as its command would be under way, and received blocks are stored.
LEMMA DrainLeavesNothing ==
  ASSUME PipelineInv
  PROVE  DrainedEmpty
<1> SUFFICES ASSUME driver = "restarting" PROVE DrainedEmpty
  BY DEF DrainedEmpty
<1>1. ~cancelled /\ Books /\ Pieces /\ Types
  BY DEF PipelineInv, Control, Active
<1>2. InFlight = {}
  BY <1>1 DEF Books
<1>3. ASSUME NEW p \in Piece PROVE piece[p] \in {"candidate", "wanted", "have"}
  <2>1. Awaited(p) /\ piece[p] \in {"candidate", "checking", "wanted", "hashing", "have"}
    BY <1>1 DEF Pieces, Types, TypeOK
  <2> QED BY <1>2, <2>1 DEF Awaited
<1>4. ASSUME NEW p \in Piece, piece[p] = "wanted" PROVE stored[p] = received[p]
  <2>1. Downloading(p) /\ stored[p] \in Nat
    BY <1>1, <1>4, Constants DEF Pieces, Types, TypeOK
  <2>2. WritesOf(p) = {}
    BY <1>2 DEF WritesOf
  <2>3. Cardinality(WritesOf(p)) = 0
    BY <2>2, FS_EmptySet
  <2> QED BY <2>1, <2>3 DEF Downloading
<1> QED BY <1>2, <1>3, <1>4 DEF DrainedEmpty

-----------------------------------------------------------------------------
(* A dropped completion is never silent: its batch reported a failed write. *)

FailInv == Active => (lost # {} => FailureReported)
BadWrite(r) == IsWrite(r.command) /\ ~r.ok
Reports == ToSet(finished) \cup ToSet(completions)

\* A step that drops nothing and keeps the reports of failed writes keeps the invariant.
LEMMA FailureKept ==
  ASSUME FailInv, Active' => Active,
         Active' => lost' = lost,
         Active' => \A r \in Reports : BadWrite(r) => r \in Reports'
  PROVE  FailInv'
<1> SUFFICES ASSUME Active', lost' # {} PROVE FailureReported'
  BY DEF FailInv
<1>1. PICK r \in Reports : BadWrite(r)
  BY DEF FailInv, FailureReported, Reports, BadWrite
<1>2. r \in Reports'
  BY <1>1
<1> QED BY <1>1, <1>2 DEF FailureReported, Reports, BadWrite

\* The completion the driver handles: a failed write cancels the pipeline, any other
\* report is not one the invariant needs.
LEMMA CompletionFails ==
  ASSUME PipelineInv, FailInv, Completion
  PROVE  FailInv'
<1> DEFINE c == Head(completions)
<1>1. /\ completions # <<>> /\ completions' = Tail(completions) /\ finished' = finished /\ lost' = lost
      /\ driver \in {"wait", "drainWait"}
      /\ Handle(c, IF driver = "wait" THEN "top" ELSE "drain")
  BY DEF Completion
<1>2. completions \in Seq(Report) /\ intake \in Intake
  BY DEF PipelineInv, Types, TypeOK, Report
<1>3. ~cancelled
  BY <1>1 DEF PipelineInv, Control
<1>4. Active
  BY <1>1, <1>3 DEF Active
<1>5. ToSet(completions) \subseteq ToSet(completions') \cup {c}
  <2> DEFINE s == completions
             t == Tail(completions)
  <2>1. /\ Len(s) \in Nat \ {0} /\ DOMAIN s = 1 .. Len(s) /\ DOMAIN t = 1 .. (Len(s) - 1)
        /\ Head(s) = s[1] /\ \A i \in 1 .. (Len(s) - 1) : t[i] = s[i + 1]
    BY <1>1, <1>2
  <2> HIDE DEF s, t
  <2>2. ASSUME NEW i \in DOMAIN s, i # 1 PROVE i - 1 \in DOMAIN t /\ t[i - 1] = s[i]
    <3>1. i - 1 \in 1 .. (Len(s) - 1) /\ (i - 1) + 1 = i
      BY <2>1, <2>2
    <3> QED BY <2>1, <3>1
  <2>3. ToSet(s) \subseteq ToSet(t) \cup {Head(s)}
    BY <2>1, <2>2 DEF ToSet
  <2> QED BY <1>1, <2>3 DEF s, t
<1>6. ASSUME BadWrite(c) PROVE cancelled'
  <2> DEFINE s == Finished(intake, c.command)
             z == [s EXCEPT !.error = "write"]
  <2>1. After(z, IF driver = "wait" THEN "top" ELSE "drain")
    BY <1>1, <1>6 DEF Handle, BadWrite, IsWrite
  <2>2. z.error = "write"
    BY <1>2 DEF Finished, Intake
  <2> HIDE DEF z
  <2> QED BY <2>1, <2>2 DEF After
<1>7. Active' => \A r \in Reports : BadWrite(r) => r \in Reports'
  BY <1>1, <1>5, <1>6 DEF Active, Reports
<1> QED BY <1>1, <1>4, <1>7, FailureKept

\* Reports that move from the task's list to the channel are kept.
LEMMA MovedKept ==
  ASSUME NEW f \in Seq(Report), NEW d \in Seq(Report), NEW n \in 0 .. Len(f)
  PROVE  ToSet(f) \cup ToSet(d)
           \subseteq ToSet(d \o SubSeq(f, 1, n)) \cup ToSet(SubSeq(f, n + 1, Len(f)))
<1> DEFINE a == SubSeq(f, 1, n)
           b == SubSeq(f, n + 1, Len(f))
           u == d \o a
<1>1. /\ Len(f) \in Nat /\ DOMAIN f = 1 .. Len(f) /\ \A i \in 1 .. Len(f) : f[i] \in Report
      /\ n \in Nat /\ n <= Len(f)
  OBVIOUS
<1>2. /\ a \in Seq(Report) /\ DOMAIN a = 1 .. n /\ \A i \in 1 .. n : a[i] = f[i]
  <2>1. \A i \in 1 .. n : f[i] \in Report
    BY <1>1
  <2>2. /\ a \in Seq(Report) /\ Len(a) = (IF 1 <= n THEN (n - 1) + 1 ELSE 0)
        /\ \A i \in 1 .. ((n - 1) + 1) : a[i] = f[(1 + i) - 1]
    BY <2>1, <1>1, SubSeqProperties
  <2> HIDE DEF a
  <2> QED BY <1>1, <2>2
<1>3. /\ DOMAIN b = 1 .. (Len(f) - n) /\ \A i \in 1 .. (Len(f) - n) : b[i] = f[n + i]
  <2>1. \A i \in (n + 1) .. Len(f) : f[i] \in Report
    BY <1>1
  <2>2. /\ b \in Seq(Report) /\ Len(b) = (IF n + 1 <= Len(f) THEN (Len(f) - (n + 1)) + 1 ELSE 0)
        /\ \A i \in 1 .. ((Len(f) - (n + 1)) + 1) : b[i] = f[((n + 1) + i) - 1]
    <3>1. n + 1 \in Nat \ {0}
      BY <1>1
    <3> QED BY <2>1, <3>1, <1>1, SubSeqProperties
  <2> HIDE DEF b
  <2> DEFINE l == Len(f)
  <2>3. l \in Nat /\ n \in Nat /\ n <= l
    BY <1>1
  <2>4. b \in Seq(Report) /\ Len(b) = (IF n + 1 <= l THEN (l - (n + 1)) + 1 ELSE 0)
        /\ \A i \in 1 .. ((l - (n + 1)) + 1) : b[i] = f[((n + 1) + i) - 1]
    BY <2>2
  <2> HIDE DEF l
  <2>5. /\ (l - (n + 1)) + 1 = l - n /\ (IF n + 1 <= l THEN (l - (n + 1)) + 1 ELSE 0) = l - n
        /\ \A i \in 1 .. (l - n) : ((n + 1) + i) - 1 = n + i
    BY <2>3
  <2>6. DOMAIN b = 1 .. (l - n)
    BY <2>4, <2>5
  <2>7. \A i \in 1 .. (l - n) : b[i] = f[n + i]
    <3> SUFFICES ASSUME NEW i \in 1 .. (l - n) PROVE b[i] = f[n + i]
      OBVIOUS
    <3>1. b[i] = f[((n + 1) + i) - 1]
      BY <2>4, <2>5
    <3>2. ((n + 1) + i) - 1 = n + i
      BY <2>5
    <3> QED BY <3>1, <3>2
  <2> QED BY <2>6, <2>7 DEF l
<1> HIDE DEF a, b
<1>4. /\ Len(d) \in Nat /\ DOMAIN d = 1 .. Len(d) /\ DOMAIN u = 1 .. (Len(d) + n)
      /\ \A i \in 1 .. Len(d) : u[i] = d[i]
      /\ \A i \in 1 .. n : u[Len(d) + i] = a[i]
  <2>1. Len(a) = n
    BY <1>1, <1>2
  <2> QED BY <1>1, <1>2, <2>1
<1> HIDE DEF u
<1>5. ASSUME NEW i \in 1 .. Len(f) PROVE f[i] \in ToSet(u) \cup ToSet(b)
  <2>1. CASE i <= n
    <3>1. i \in 1 .. n /\ Len(d) + i \in DOMAIN u
      BY <1>1, <1>4, <2>1
    <3>2. u[Len(d) + i] = f[i]
      BY <1>2, <1>4, <3>1
    <3> QED BY <3>1, <3>2 DEF ToSet
  <2>2. CASE ~(i <= n)
    <3>1. i - n \in 1 .. (Len(f) - n) /\ n + (i - n) = i
      BY <1>1, <2>2
    <3>2. i - n \in DOMAIN b /\ b[i - n] = f[i]
      BY <1>3, <3>1
    <3> QED BY <3>2 DEF ToSet
  <2> QED BY <2>1, <2>2
<1>6. ASSUME NEW i \in 1 .. Len(d) PROVE d[i] \in ToSet(u)
  <2>1. i \in DOMAIN u /\ u[i] = d[i]
    BY <1>1, <1>4
  <2> QED BY <2>1 DEF ToSet
<1> QED BY <1>1, <1>4, <1>5, <1>6 DEF ToSet, u, a, b

\* The task sends completions.
LEMMA SendingFails ==
  ASSUME PipelineInv, FailInv, SendCompletion \/ TaskTop
  PROVE  FailInv'
<1>1. finished \in Seq(Report) /\ completions \in Seq(Report) /\ Len(completions) <= Limit
  BY DEF PipelineInv, Types, TypeOK, Report
<1>2. PICK n \in 0 .. Len(finished) : /\ completions' = completions \o SubSeq(finished, 1, n)
                                     /\ finished' = SubSeq(finished, n + 1, Len(finished))
  <2>1. CASE SendCompletion
    <3> DEFINE f == finished
    <3>1. f # <<>> /\ completions' = Append(completions, Head(f)) /\ finished' = Tail(f)
      BY <2>1 DEF SendCompletion
    <3>2. 1 \in 0 .. Len(f) /\ f \in Seq(Report)
      BY <1>1, <3>1
    <3> HIDE DEF f
    <3>3. /\ completions' = completions \o SubSeq(f, 1, 1)
          /\ finished' = SubSeq(f, 1 + 1, Len(f))
      BY <1>1, <3>1, <3>2, OneSent
    <3> QED BY <3>2, <3>3 DEF f
  <2>2. CASE TaskTop
    <3> DEFINE n == Min({Len(finished), Room})
    <3>1. /\ completions' = completions \o SubSeq(finished, 1, n)
          /\ finished' = SubSeq(finished, n + 1, Len(finished))
      BY <2>2 DEF TaskTop
    <3>2. Len(finished) \in Nat /\ Room \in Nat
      BY <1>1, Constants DEF Room
    <3>3. n \in 0 .. Len(finished)
      <4>1. n = IF Len(finished) <= Room THEN Len(finished) ELSE Room
        BY <3>2, MinTwo
      <4> HIDE DEF n
      <4> QED BY <3>2, <4>1
    <3> HIDE DEF n
    <3> QED BY <3>1, <3>3
  <2> QED BY <2>1, <2>2
<1>3. lost' = lost /\ driver' = driver /\ cancelled' = cancelled
  BY DEF SendCompletion, TaskTop
<1>4. Reports \subseteq Reports'
  <2>1. ToSet(finished) \cup ToSet(completions)
          \subseteq ToSet(completions \o SubSeq(finished, 1, n))
                      \cup ToSet(SubSeq(finished, n + 1, Len(finished)))
    BY <1>1, MovedKept
  <2> QED BY <1>2, <2>1 DEF Reports
<1> QED BY <1>3, <1>4, FailureKept DEF Active

\* A job ends: when the batch drops completions, the last one it reports is a failed write.
LEMMA JobFails ==
  ASSUME PipelineInv, FailInv, NEW j \in running, NEW o \in Orders(j), NEW m \in DOMAIN j,
         NEW k \in 0 .. m, JobEnds(j, o, k, m)
  PROVE  FailInv'
<1> DEFINE t == Outcome(o, k, m)
           L == {o[i] : i \in (m + 1) .. Len(o)}
<1>1. /\ finished' = IF cancelled THEN finished ELSE finished \o t
      /\ lost' = IF cancelled THEN lost ELSE lost \cup L
      /\ k = Len(o) \/ k < m
      /\ UNCHANGED <<completions, driver, cancelled>>
  BY DEF JobEnds, Outcome
<1>2. finished \in Seq(Report) /\ IsJob(j) /\ j \in Seq(Command) /\ j # <<>>
  BY DEF PipelineInv, Types, TypeOK, Report, Running, IsJob
<1>3. /\ o \in Seq(Command) /\ Len(o) = Len(j) /\ DOMAIN o = DOMAIN j /\ ToSet(o) = ToSet(j)
  BY <1>2, OrderFacts
<1>4. /\ m \in 1 .. Len(o) /\ m \in 0 .. Len(o) /\ k \in Nat /\ Len(o) \in Nat
  BY <1>2, <1>3
<1>5. /\ t \in Seq(Report) /\ DOMAIN t = 1 .. m
      /\ \A i \in 1 .. m : t[i].command = o[i] /\ t[i].ok = (i <= k)
  BY <1>3, <1>4, JobReports
<1> SUFFICES ASSUME Active', lost' # {} PROVE FailureReported'
  BY DEF FailInv
<1>6. Active /\ ~cancelled /\ finished' = finished \o t /\ lost' = lost \cup L
  BY <1>1 DEF Active
<1> HIDE DEF t
<1>7. /\ ToSet(finished) \subseteq ToSet(finished')
      /\ \A i \in 1 .. m : t[i] \in ToSet(finished')
  <2> DEFINE f == finished
             u == f \o t
  <2>1. f \in Seq(Report) /\ Len(t) = m
    BY <1>2, <1>4, <1>5
  <2> HIDE DEF f
  <2>2. /\ Len(f) \in Nat /\ DOMAIN f = 1 .. Len(f) /\ DOMAIN u = 1 .. (Len(f) + m)
        /\ \A i \in 1 .. Len(f) : u[i] = f[i]
        /\ \A i \in 1 .. m : u[Len(f) + i] = t[i]
    BY <1>5, <2>1
  <2> HIDE DEF u
  <2>3. ASSUME NEW i \in 1 .. m PROVE t[i] \in ToSet(u)
    <3>1. Len(f) + i \in DOMAIN u /\ u[Len(f) + i] = t[i]
      BY <1>4, <2>2
    <3> QED BY <3>1 DEF ToSet
  <2>4. ASSUME NEW i \in DOMAIN f PROVE f[i] \in ToSet(u)
    <3>1. i \in DOMAIN u /\ u[i] = f[i]
      BY <1>4, <2>2
    <3> QED BY <3>1 DEF ToSet
  <2>5. finished' = u /\ finished = f
    BY <1>6 DEF u, f
  <2> QED BY <2>3, <2>4, <2>5 DEF ToSet
<1>8. CASE lost # {}
  <2>1. PICK r \in Reports : BadWrite(r)
    BY <1>6, <1>8 DEF FailInv, FailureReported, Reports, BadWrite
  <2>2. r \in ToSet(finished') \cup ToSet(completions')
    BY <1>1, <1>7, <2>1 DEF Reports
  <2> QED BY <2>1, <2>2 DEF FailureReported, BadWrite
<1>9. CASE lost = {}
  <2>1. PICK i \in (m + 1) .. Len(o) : TRUE
    BY <1>6, <1>9
  <2>2. m < Len(o) /\ k < m /\ Len(j) # 1 /\ ~(m <= k)
    <3> DEFINE l == Len(o)
    <3>1. m \in 1 .. l /\ l \in Nat /\ k \in Nat /\ k \in 0 .. m /\ (k = l \/ k < m) /\ i \in (m + 1) .. l
      BY <1>1, <1>4
    <3> HIDE DEF l
    <3>2. m < l /\ k < m /\ l # 1 /\ ~(m <= k)
      BY <3>1
    <3> QED BY <1>3, <3>2 DEF l
  <2>3. IsWrite(j[1])
    BY <1>2, <2>2 DEF IsJob
  <2>4. \A x \in ToSet(j) : IsWrite(x)
    BY <1>2, <2>3 DEF IsJob, ToSet
  <2>5. o[m] \in ToSet(j)
    BY <1>3 DEF ToSet
  <2>6. m \in 1 .. m /\ t[m].command = o[m] /\ t[m].ok = (m <= k)
    BY <1>4, <1>5
  <2>7. t[m] \in ToSet(finished') /\ IsWrite(t[m].command) /\ ~t[m].ok
    BY <1>7, <2>2, <2>4, <2>5, <2>6
  <2> QED BY <2>7 DEF FailureReported
<1> QED BY <1>8, <1>9

\* While a dropped completion is counted, a failed write is on its way to the driver.
THEOREM FailInvHolds == Spec => []FailInv
<1>1. Init => FailInv
  BY DEF Init, FailInv
<1>2. ASSUME PipelineInv, FailInv, [Next]_vars PROVE FailInv'
  <2>1. CASE Completion
    BY <1>2, <2>1, CompletionFails
  <2>2. CASE SendCompletion \/ TaskTop
    BY <1>2, <2>2, SendingFails
  <2>3. CASE JobEnd
    BY <1>2, <2>3, JobFails DEF JobEnd
  <2>4. CASE CancelledTop \/ Cancel \/ Stopped
    BY <1>2, <2>4 DEF CancelledTop, Cancel, Stopped, FailInv, Active
  <2>5. CASE \E S \in SUBSET Candidate : Restart(S)
    <3>1. driver = "restarting" /\ lost' = lost
      BY <2>5 DEF Restart, queues
    <3>2. lost = {}
      <4>1. InFlight = {}
        BY <1>2, <3>1, DrainLeavesNothing DEF DrainedEmpty
      <4> QED BY <4>1, LanesNow DEF Lanes
    <3> QED BY <3>1, <3>2 DEF FailInv
  <2>6. CASE SupervisorTop \/ Deadline \/ DrainTurn \/ BeginSelection \/ Wake \/ Over \/ UNCHANGED vars
    <3>1. /\ lost' = lost /\ finished' = finished /\ completions' = completions
          /\ cancelled' = cancelled /\ (driver = "stopped" => driver' = "stopped")
      BY <2>6 DEF SupervisorTop, Deadline, DrainTurn, BeginSelection, Wake, Over, vars, queues
    <3> QED BY <1>2, <3>1, FailureKept DEF Active, Reports
  <2>7. CASE \/ \E p \in Piece : ReceiveBlock(p)
             \/ \E S \in SUBSET Candidate : ReceiveHashes(S)
    <3>1. driver = "wait" /\ lost' = lost /\ finished' = finished /\ completions' = completions
      BY <2>7 DEF ReceiveBlock, ReceiveHashes, queues
    <3>2. Active
      BY <1>2, <3>1 DEF PipelineInv, Control, Active
    <3> QED BY <1>2, <3>1, <3>2, FailureKept DEF Reports
  <2> QED BY <1>2, <2>1, <2>2, <2>3, <2>4, <2>5, <2>6, <2>7 DEF Next, Supervise, Work
<1>3. PipelineInv /\ FailInv /\ [Next]_vars => FailInv'
  BY <1>2
<1> QED BY <1>1, <1>3, PipelineInvHolds, PTL DEF Spec

\* Every command is in one place, once, until its completion is handled; the job counter
\* and the payload counter of ContentStoragePipeline, which decide backpressure and when a
\* selection may be applied, count exactly those commands; while a completion that a
\* failed batch dropped is still counted, a failed write is on its way to the driver; and
\* when a new selection is applied nothing is left in the old pipeline.
THEOREM PipelineAlwaysSound == Spec => []PipelineSound
<1>1. ASSUME PipelineInv, FailInv PROVE PipelineSound
  <2>1. TypeOK
    BY <1>1 DEF PipelineInv, Types
  <2>2. JobsConserved
    BY <1>1 DEF PipelineInv, Active, Books, JobsConserved, WritesIn, FailInv
  <2>3. DrainedEmpty
    BY <1>1, DrainLeavesNothing
  <2> QED BY <2>1, <2>2, <2>3 DEF PipelineSound
<1>2. PipelineInv /\ FailInv => PipelineSound
  BY <1>1
<1> QED BY <1>2, PipelineInvHolds, FailInvHolds, PTL

\* A piece is hashed only when every block the hash will read is on disk, whatever batches
\* the writes went in and however completions and verification were interleaved.
THEOREM HashAlwaysSeesWrites == Spec => []HashSeesWrites
<1>1. PipelineInv => HashSeesWrites
  BY DEF PipelineInv, Running
<1> QED BY <1>1, PipelineInvHolds, PTL

\* Two local commands suffice (CONTENT_STORAGE_PENDING_QUEUE) when at most two candidates
\* can be made verifiable at once: enqueue never fails on the pending list or the payload.
THEOREM IntakeNeverOverflows == Spec => []NoIntakeOverflow
<1>1. PipelineInv => NoIntakeOverflow
  BY DEF PipelineInv, Ample, NoOverflow, NoIntakeOverflow
<1> QED BY <1>1, PipelineInvHolds, PTL
=============================================================================
