------------------------- MODULE UtpTransportProofs -------------------------
(***************************************************************************)
(* Proofs about UtpTransport for every sequence space, every script that   *)
(* fits in half of it and every limit: the connection is the byte stream   *)
(* of ByteStream, what a sender lets go of is at the receiver, both        *)
(* ledgers stay in their limits, and a side that finishes leaves its peer  *)
(* with everything.                                                        *)
(***************************************************************************)
EXTENDS UtpTransport, FiniteSetTheorems, SequenceTheorems, WellFoundedInduction, TLAPS

-----------------------------------------------------------------------------
(* The inductive invariant. *)

Number == 0..Modulus - 1
Kind == {"SYN", "DATA", "FIN", "STATE"}
Established(e) == phase[e] \notin {"None", "SynSent", "Reset", "Closed"}

\* Place k of e's stream and its sequence number: 0 is the SYN (or, for the acceptor, the
\* number before its first), 1..sent[e] the data, sent[e] + 1 the FIN.
Base(e) == IF e = Initiator THEN Iss[e] ELSE Add(Iss[e], Modulus - 1)
Num(e, k) == Add(Base(e), k)
First(e) == IF e = Initiator THEN 0 ELSE 1
Top(e) == IF send[e].fin THEN sent[e] + 1 ELSE sent[e]
KindAt(e, k) == IF k = 0 THEN "SYN" ELSE IF k <= sent[e] THEN "DATA" ELSE "FIN"
PosAt(e, k) == IF k <= sent[e] THEN k ELSE 0
PacketAt(e, k) == [seq |-> Num(e, k), kind |-> KindAt(e, k), pos |-> PosAt(e, k)]

\* the place up to which e has everything
At(e) == IF recv[e].eof THEN Len(got[e]) + 1 ELSE Len(got[e])

SentPacket == [seq : Number, kind : Kind, pos : Nat, tx : 1..MaxTx, lost : BOOLEAN]
HeldPacket == [seq : Number, kind : Kind, pos : Nat]
SendLedger == [next : Number, cum : Number, high : {None} \cup Number, out : Seq(SentPacket),
               dup : 0..LossThreshold, fin : BOOLEAN]
RecvLedger == [ack : Number, buf : SUBSET HeldPacket, unread : Nat,
               fin : {None} \cup Number, eof : BOOLEAN]
Datagram == [from : Side, kind : Kind, seq : Number, pos : Nat, ack : Number,
             sack : SUBSET Int, win : Int]
Types ==
  /\ phase \in [Side -> {"None", "SynSent", "Connected", "LocalFinSent",
                         "RemoteFinReceived", "Closing", "Reset", "Closed"}]
  /\ send \in [Side -> SendLedger] /\ recv \in [Side -> RecvLedger]
  /\ retx \in [Side -> Seq([seq : Number, fast : BOOLEAN])]
  /\ flight \in [Side -> SUBSET Number]
  /\ ackDue \in [Side -> BOOLEAN] /\ synDue \in BOOLEAN
  /\ written \in [Side -> Nat] /\ sent \in [Side -> Nat] /\ closing \in [Side -> BOOLEAN]
  /\ \A e \in Side : sent[e] <= written[e] /\ written[e] <= Script[e]
  /\ got \in [Side -> Seq(Nat)]
  /\ net \subseteq Datagram /\ IsFiniteSet(net) /\ Cardinality(net) <= NetMax

\* how far a side is
Course(e) ==
  /\ phase[e] \in {"None", "SynSent"} =>
       /\ written[e] = 0 /\ ~send[e].fin /\ got[e] = <<>> /\ ~ackDue[e]
       /\ recv[e] = NewReceive(0)
  /\ phase[e] = "SynSent" => e = Initiator /\ send[e].high = Iss[e]
  /\ phase[e] = "None" => e = Acceptor /\ send[e].out = <<>>
  /\ Established(e) => phase[e] = PhaseOf(send[e].fin, recv[e].eof)
  /\ Terminal(e) => send[e].out = <<>> /\ recv[e].buf = {} /\ recv[e].unread = 0 /\ ~recv[e].eof
  /\ send[e].fin => closing[e] /\ sent[e] = written[e]
  /\ e = Acceptor /\ got[e] = <<>> =>
       written[e] = 0 /\ ~send[e].fin /\ (closing[e] => Terminal(e))

\* the send ledger holds packets of the stream, each once
Sending(e) ==
  /\ send[e].next = Num(e, sent[e] + 1)
  /\ ~Terminal(e) =>
       IF phase[e] = "SynSent" THEN send[e].cum = Add(Iss[e], Modulus - 1)
       ELSE \E c \in 0..Top(e) : send[e].cum = Num(e, c)
  /\ \A i \in DOMAIN send[e].out : \E k \in First(e)..Top(e) :
       /\ send[e].out[i].seq = Num(e, k)
       /\ send[e].out[i].kind = KindAt(e, k) /\ send[e].out[i].pos = PosAt(e, k)
  /\ \A i, j \in DOMAIN send[e].out : send[e].out[i].seq = send[e].out[j].seq => i = j

\* the receive ledger has given a prefix and holds packets beyond the first hole
Receiving(e) ==
  LET s == Peer(e)
  IN /\ got[e] = [i \in 1..Len(got[e]) |-> i] /\ Len(got[e]) <= sent[s]
     /\ recv[e].eof => send[s].fin /\ Len(got[e]) = sent[s]
     /\ Established(e) => recv[e].ack = Num(s, At(e))
     /\ \A p \in recv[e].buf : \E k \in At(e) + 2..Top(s) :
          k <= At(e) + MaxDistance /\ p = PacketAt(s, k)
     /\ Buffered(recv[e]) <= MaxReceive

\* Place k of the stream to e is at e, and if e has ended it is not the first it lacks.
Has(e, k) ==
  \/ k <= Len(got[e])
  \/ k = sent[Peer(e)] + 1 /\ recv[e].eof
  \/ \E p \in recv[e].buf : p.seq = Num(Peer(e), k)
Acked(e, k) ==
  /\ k <= sent[Peer(e)] => k # Len(got[e]) + 1
  /\ ~Terminal(e) => Has(e, k)

LetGo(e) ==
  ~Terminal(e) =>
    \A k \in 1..Top(e) : Num(e, k) \notin Outstanding(send[e]) => Acked(Peer(e), k)

Carries(p) ==
  /\ p.kind = "SYN" => p = SynPacket(Initiator)
  /\ p.kind = "DATA" => p.pos \in 1..sent[p.from] /\ p.seq = Num(p.from, p.pos)
  /\ p.kind = "FIN" =>
       send[p.from].fin /\ p.pos = 0 /\ p.seq = Num(p.from, sent[p.from] + 1)
  /\ p.kind = "STATE" => \E n \in 1..sent[p.from] + 1 : p.seq = Num(p.from, n)
\* The acknowledgement of p, at place x, names place k.
Covers(p, x, k) == k <= x \/ k - x \in p.sack
Claims(p) ==
  p.kind # "SYN" =>
    \E x \in 0..Top(Peer(p.from)) :
      /\ p.ack = Num(Peer(p.from), x)
      /\ \A o \in p.sack : x + o <= Top(Peer(p.from))
      /\ \A k \in 1..Top(Peer(p.from)) : Covers(p, x, k) => Acked(p.from, k)

UtpInv ==
  /\ Types
  /\ \A e \in Side : Course(e) /\ Sending(e) /\ Receiving(e) /\ LetGo(e)
  /\ \A p \in net : Carries(p) /\ Claims(p)
  /\ WorkIsOutstanding

-----------------------------------------------------------------------------
(* Induction. *)

\* Induction over the natural numbers, for the set of numbers with a property.
LEMMA Induction ==
  ASSUME NEW S, 0 \in S, \A n \in Nat : n \in S => n + 1 \in S
  PROVE  Nat \subseteq S
<1> SUFFICES ASSUME Nat \ S # {} PROVE FALSE
  OBVIOUS
<1>1. PICK n \in Nat \ S : \A m \in Nat \ S : ~ (<<m, n>> \in OpToRel(<, Nat))
  BY WFMin, NatLessThanWellFounded, Zenon
<1>2. \A m \in Nat : m < n => m \in S
  BY <1>1 DEF OpToRel
<1>3. n \in Nat /\ n # 0
  BY <1>1
<1>4. n - 1 \in Nat /\ n - 1 < n /\ (n - 1) + 1 = n
  BY <1>3
<1> QED BY <1>1, <1>2, <1>4

-----------------------------------------------------------------------------
(* Sequence arithmetic. *)

\* What SequenceAssumption says of the numbers of the connection.
LEMMA Constants ==
  /\ Modulus \in Nat \ {0} /\ Half \in Nat /\ 2 * Half = Modulus /\ Half >= 2
  /\ MaxDistance \in Nat \ {0} /\ MaxDistance < Half /\ MaxDistance = MaxReorder + 1
  /\ MaxTx \in Nat \ {0} /\ MaxReceive \in Nat \ {0} /\ MaxReorder \in Nat
  /\ LossThreshold \in Nat \ {0} /\ NetMax \in Nat
  /\ \A e \in Side : Iss[e] \in Number /\ Script[e] \in Nat /\ Script[e] + 2 <= Half
  /\ Side = {"initiator", "acceptor"}
<1>1. Initiator \in Side
  BY DEF Side
<1>2. Half \in Nat /\ 2 * Half = Modulus
  BY SequenceAssumption DEF Half
<1>3. Half >= 2
  BY <1>1, <1>2, SequenceAssumption
<1>4. Modulus \in Nat \ {0}
  BY <1>2, <1>3, SequenceAssumption
<1>5. Side = {"initiator", "acceptor"}
  BY DEF Side, Initiator, Acceptor
<1> QED BY <1>2, <1>3, <1>4, <1>5, SequenceAssumption DEF MaxDistance, Number

\* The remainder of a number below twice the modulus.
LEMMA Wrapped ==
  /\ \A x \in 0..Modulus - 1 : x % Modulus = x
  /\ \A x \in Modulus..Modulus + Modulus - 1 : x % Modulus = x - Modulus
<1>1. Modulus \in Nat \ {0}
  BY Constants
<1> QED BY <1>1

\* There are two sides, each the peer of the other.
LEMMA SidesFacts ==
  /\ Initiator \in Side /\ Acceptor \in Side /\ Initiator # Acceptor
  /\ \A e \in Side : Peer(e) \in Side /\ Peer(e) # e /\ Peer(Peer(e)) = e
  /\ \A e, f \in Side : f # e => f = Peer(e)
  /\ \A e \in Side : e # Initiator <=> e = Acceptor
  BY DEF Side, Peer, Initiator, Acceptor

\* wrapping_add of two sequence numbers wraps at most once.
LEMMA AddNumber ==
  ASSUME NEW s \in Number, NEW n \in Number
  PROVE  /\ Add(s, n) \in Number
         /\ s + n < Modulus => Add(s, n) = s + n
         /\ s + n >= Modulus => Add(s, n) = s + n - Modulus
<1>1. Modulus \in Nat \ {0} /\ s + n \in Nat /\ s + n <= 2 * Modulus - 2
  BY Constants DEF Number
<1>2. CASE s + n < Modulus
  BY <1>1, <1>2, Wrapped DEF Add, Number
<1>3. CASE s + n >= Modulus
  <2>1. s + n \in Modulus..Modulus + Modulus - 1
    BY <1>1, <1>3
  <2>2. (s + n) % Modulus = s + n - Modulus
    BY <1>1, <2>1, Wrapped DEF Number
  <2> QED BY <1>1, <1>3, <2>2 DEF Add, Number
<1> QED BY <1>1, <1>2, <1>3

\* wrapping_sub of two sequence numbers.
LEMMA DistanceNumber ==
  ASSUME NEW s \in Number, NEW t \in Number
  PROVE  /\ s >= t => Distance(s, t) = s - t
         /\ s < t => Distance(s, t) = s - t + Modulus
<1>1. Modulus \in Nat \ {0}
  BY Constants
<1>2. CASE s >= t
  <2>1. s - t + Modulus \in Modulus..Modulus + Modulus - 1
    BY <1>1, <1>2 DEF Number
  <2>2. (s - t + Modulus) % Modulus = s - t + Modulus - Modulus
    BY <1>1, <2>1, Wrapped DEF Number
  <2> QED BY <1>1, <1>2, <2>2 DEF Distance, Number
<1>3. CASE s < t
  <2>1. s - t + Modulus \in 0..Modulus - 1
    BY <1>1, <1>3 DEF Number
  <2>2. (s - t + Modulus) % Modulus = s - t + Modulus
    BY <1>1, <2>1, Wrapped DEF Number
  <2> QED BY <1>1, <1>3, <2>2 DEF Distance, Number
<1> QED BY <1>1, <1>2, <1>3 DEF Number

\* Places less than half the sequence space apart are ordered by their numbers.
LEMMA Places ==
  ASSUME NEW e \in Side
  PROVE  /\ Base(e) \in Number
         /\ \A k \in Number : Num(e, k) \in Number
         /\ \A j, k \in Number : Num(e, j) = Num(e, k) => j = k
         /\ \A j, k \in Number : j >= k => Distance(Num(e, j), Num(e, k)) = j - k
         /\ \A j, k \in Number : j < k => Distance(Num(e, j), Num(e, k)) = j - k + Modulus
         /\ \A j, n \in Number : j + n < Modulus => Add(Num(e, j), n) = Num(e, j + n)
<1>0. Modulus \in Nat \ {0}
  BY Constants
<1>1. Base(e) \in Number
  <2>1. Modulus - 1 \in Number /\ Iss[e] \in Number
    BY <1>0, Constants DEF Number
  <2> QED BY <2>1, AddNumber DEF Base
<1>2. \A k \in Number :
        /\ Num(e, k) \in Number
        /\ Base(e) + k < Modulus => Num(e, k) = Base(e) + k
        /\ Base(e) + k >= Modulus => Num(e, k) = Base(e) + k - Modulus
  BY <1>1, AddNumber DEF Num
<1>3. \A j, k \in Number : Num(e, j) = Num(e, k) => j = k
  BY <1>0, <1>1, <1>2 DEF Number
<1>4. ASSUME NEW j \in Number, NEW k \in Number
      PROVE  /\ j >= k => Distance(Num(e, j), Num(e, k)) = j - k
             /\ j < k => Distance(Num(e, j), Num(e, k)) = j - k + Modulus
  <2> DEFINE s == Num(e, j)
             t == Num(e, k)
  <2>1. /\ s >= t => Distance(s, t) = s - t
        /\ s < t => Distance(s, t) = s - t + Modulus
    BY <1>2, DistanceNumber
  <2> QED BY <1>0, <1>1, <1>2, <2>1 DEF Number
<1>5. ASSUME NEW j \in Number, NEW n \in Number, j + n < Modulus
      PROVE  Add(Num(e, j), n) = Num(e, j + n)
  <2>1. j + n \in Number
    BY <1>0, <1>5 DEF Number
  <2> DEFINE s == Num(e, j)
  <2>2. /\ s + n < Modulus => Add(s, n) = s + n
        /\ s + n >= Modulus => Add(s, n) = s + n - Modulus
    BY <1>2, AddNumber
  <2> QED BY <1>0, <1>1, <1>2, <1>5, <2>1, <2>2 DEF Number
<1> QED BY <1>1, <1>2, <1>3, <1>4, <1>5

\* relation_to orders two places of a stream as they were sent.
LEMMA Order ==
  ASSUME NEW e \in Side, NEW j \in Number, NEW k \in Number
  PROVE  /\ j - k < Half => (j > k => After(Num(e, j), Num(e, k)))
         /\ k - j < Half => (After(Num(e, j), Num(e, k)) => j > k)
<1>1. 2 * Half = Modulus /\ Half \in Nat
  BY Constants
<1>2. /\ j >= k => Distance(Num(e, j), Num(e, k)) = j - k
      /\ j < k => Distance(Num(e, j), Num(e, k)) = j - k + Modulus
  BY Places
<1> QED BY <1>1, <1>2 DEF After, Number

-----------------------------------------------------------------------------
(* The packets with certain numbers. *)

\* f[i] has those of the first i packets of s whose number is in S
Picks(s, S, n, f) ==
  f = [i \in 0..n |->
         IF i = 0 THEN <<>>
         ELSE IF s[i].seq \in S THEN Append(f[i - 1], s[i]) ELSE f[i - 1]]

\* The recursive function of Picked exists.
LEMMA PicksExists ==
  ASSUME NEW s, NEW S
  PROVE  \A n \in Nat : \E f : Picks(s, S, n, f)
<1> DEFINE N == {n \in Nat : \E f : Picks(s, S, n, f)}
<1>1. 0 \in N
  <2> DEFINE f == [i \in 0..0 |-> <<>>]
  <2>1. \A i \in 0..0 : i = 0
    OBVIOUS
  <2>2. Picks(s, S, 0, f)
    BY <2>1 DEF Picks
  <2> QED BY <2>2
<1>2. ASSUME NEW n \in Nat, n \in N PROVE n + 1 \in N
  <2>1. PICK f : Picks(s, S, n, f)
    BY <1>2
  <2> DEFINE Then(g, i) == IF i = 0 THEN <<>>
                           ELSE IF s[i].seq \in S THEN Append(g[i - 1], s[i]) ELSE g[i - 1]
             h == [i \in 0..(n + 1) |-> Then(f, i)]
  <2>2. \A i \in 0..n : i \in 0..(n + 1) /\ h[i] = f[i]
    <3>1. \A i \in 0..n : i \in 0..(n + 1)
      OBVIOUS
    <3>2. \A i \in 0..n : f[i] = Then(f, i)
      BY <2>1 DEF Picks
    <3> QED BY <3>1, <3>2
  <2>3. \A i \in 0..(n + 1) : i # 0 => i - 1 \in 0..n
    OBVIOUS
  <2>4. \A i \in 0..(n + 1) : i # 0 => h[i - 1] = f[i - 1]
    <3> HIDE DEF h
    <3> QED BY <2>2, <2>3
  <2>5. \A i \in 0..(n + 1) : Then(f, i) = Then(h, i)
    <3> HIDE DEF h
    <3> QED BY <2>4
  <2>6. Picks(s, S, n + 1, h)
    BY <2>5 DEF Picks
  <2> HIDE DEF h
  <2> QED BY <2>6
<1>3. Nat \subseteq N
  <2> HIDE DEF N
  <2> QED BY <1>1, <1>2, Induction
<1> QED BY <1>3

\* no two packets have one number
Distinct(s) == \A i, j \in DOMAIN s : s[i].seq = s[j].seq => i = j

\* q has those of the first n packets of s whose number is in S
PickedFrom(q, s, S, n) ==
  /\ \A i \in DOMAIN q : \E j \in 1..n : q[i] = s[j] /\ s[j].seq \in S
  /\ \A j \in 1..n : s[j].seq \in S => \E i \in DOMAIN q : q[i] = s[j]
  /\ Distinct(s) => Distinct(q)
  /\ (\A j \in 1..n : s[j].seq \in S) => Len(q) = n /\ \A j \in 1..n : q[j] = s[j]

\* Append, place by place.
LEMMA AppendPlaces ==
  ASSUME NEW T, NEW q \in Seq(T), NEW x \in T
  PROVE  /\ Append(q, x) \in Seq(T) /\ Len(Append(q, x)) = Len(q) + 1
         /\ DOMAIN q = 1..Len(q) /\ DOMAIN Append(q, x) = 1..Len(q) + 1
         /\ \A i \in 1..Len(q) : Append(q, x)[i] = q[i]
         /\ Append(q, x)[Len(q) + 1] = x
  OBVIOUS

\* A packet that is picked comes last.
LEMMA PickedStep ==
  ASSUME NEW T, NEW s \in Seq(T), NEW S, NEW n \in Nat, n + 1 <= Len(s),
         NEW q \in Seq(T), PickedFrom(q, s, S, n), s[n + 1].seq \in S
  PROVE  Append(q, s[n + 1]) \in Seq(T) /\ PickedFrom(Append(q, s[n + 1]), s, S, n + 1)
<1> DEFINE x == s[n + 1]
           a == Append(q, x)
           m == Len(q)
<1>0. /\ n + 1 \in 1..Len(s) /\ DOMAIN s = 1..Len(s) /\ x \in T /\ m \in Nat
      /\ 1..n \subseteq 1..Len(s) /\ 1..(n + 1) = (1..n) \cup {n + 1} /\ n + 1 \notin 1..n
      /\ 1..(m + 1) = (1..m) \cup {m + 1} /\ m + 1 \notin 1..m
  OBVIOUS
<1>1. /\ a \in Seq(T) /\ Len(a) = m + 1 /\ DOMAIN q = 1..m /\ DOMAIN a = 1..(m + 1)
      /\ \A i \in 1..m : a[i] = q[i]
      /\ a[m + 1] = x
  BY <1>0, AppendPlaces
<1>2. x = s[n + 1] /\ x.seq \in S
  OBVIOUS
<1> HIDE DEF x, a, m
<1>3. \A i \in DOMAIN a : \E j \in 1..(n + 1) : a[i] = s[j] /\ s[j].seq \in S
  BY <1>0, <1>1, <1>2 DEF PickedFrom
<1>4. \A j \in 1..(n + 1) : s[j].seq \in S => \E i \in DOMAIN a : a[i] = s[j]
  BY <1>0, <1>1, <1>2 DEF PickedFrom
<1>5. ASSUME Distinct(s) PROVE Distinct(a)
  <2>1. \A i \in 1..m : q[i].seq # x.seq
    <3> SUFFICES ASSUME NEW i \in 1..m, q[i].seq = x.seq PROVE FALSE
      OBVIOUS
    <3>1. PICK j \in 1..n : q[i] = s[j]
      BY <1>1 DEF PickedFrom
    <3>2. j \in DOMAIN s /\ n + 1 \in DOMAIN s /\ s[j].seq = s[n + 1].seq
      BY <1>0, <1>2, <3>1
    <3>3. j = n + 1
      BY <1>5, <3>2 DEF Distinct
    <3> QED BY <1>0, <3>3
  <2>2. Distinct(q)
    BY <1>5 DEF PickedFrom
  <2> QED BY <1>0, <1>1, <2>1, <2>2 DEF Distinct
<1>6. ASSUME \A j \in 1..(n + 1) : s[j].seq \in S
      PROVE  Len(a) = n + 1 /\ \A j \in 1..(n + 1) : a[j] = s[j]
  <2>1. m = n /\ \A j \in 1..n : q[j] = s[j]
    BY <1>0, <1>6 DEF PickedFrom, m
  <2> QED BY <1>0, <1>1, <1>2, <2>1
<1>7. a = Append(q, s[n + 1])
  BY DEF a, x
<1> QED BY ZenonT(30), <1>1, <1>3, <1>4, <1>5, <1>6, <1>7 DEF PickedFrom

\* A packet that is not picked changes nothing.
LEMMA PickedSkip ==
  ASSUME NEW T, NEW s \in Seq(T), NEW S, NEW n \in Nat, n + 1 <= Len(s),
         NEW q \in Seq(T), PickedFrom(q, s, S, n), s[n + 1].seq \notin S
  PROVE  PickedFrom(q, s, S, n + 1)
<1>0. 1..(n + 1) = (1..n) \cup {n + 1} /\ n + 1 \notin 1..n
  OBVIOUS
<1> QED BY <1>0 DEF PickedFrom

\* What is picked from a sequence of packets.
LEMMA PickedPrefix ==
  ASSUME NEW T, NEW s \in Seq(T), NEW S
  PROVE  \E k : /\ Picked(s, S) = k[Len(s)]
                /\ \A n \in 0..Len(s) : k[n] \in Seq(T) /\ PickedFrom(k[n], s, S, n)
                /\ \A n \in 1..Len(s) : s[n].seq \notin S => k[n] = k[n - 1]
<1> DEFINE k == CHOOSE f : Picks(s, S, Len(s), f)
<1>0. Len(s) \in Nat
  OBVIOUS
<1>1. Picked(s, S) = k[Len(s)]
  BY Zenon DEF Picked, Picks
<1>2. Picks(s, S, Len(s), k)
  BY <1>0, PicksExists
<1> HIDE DEF k
<1>3. \A i \in 0..Len(s) :
        k[i] = IF i = 0 THEN <<>>
               ELSE IF s[i].seq \in S THEN Append(k[i - 1], s[i]) ELSE k[i - 1]
  BY <1>2 DEF Picks
<1> DEFINE N == {n \in Nat : n <= Len(s) => k[n] \in Seq(T) /\ PickedFrom(k[n], s, S, n)}
<1>4. 0 \in N
  <2>1. k[0] = <<>>
    BY <1>0, <1>3
  <2>2. <<>> \in Seq(T) /\ DOMAIN <<>> = {} /\ 1..0 = {} /\ Len(<<>>) = 0
    OBVIOUS
  <2>3. PickedFrom(<<>>, s, S, 0)
    BY <2>2 DEF PickedFrom, Distinct
  <2> QED BY <2>1, <2>2, <2>3
<1>5. ASSUME NEW n \in Nat, n \in N PROVE n + 1 \in N
  <2> SUFFICES ASSUME n + 1 <= Len(s)
               PROVE  k[n + 1] \in Seq(T) /\ PickedFrom(k[n + 1], s, S, n + 1)
    OBVIOUS
  <2>1. k[n] \in Seq(T) /\ PickedFrom(k[n], s, S, n)
    BY <1>0, <1>5
  <2>2. n + 1 \in 0..Len(s) /\ n + 1 # 0 /\ (n + 1) - 1 = n
    BY <1>0
  <2>3. CASE s[n + 1].seq \in S
    <3>1. k[n + 1] = Append(k[n], s[n + 1])
      BY <1>3, <2>2, <2>3
    <3> QED BY <2>1, <2>3, <3>1, PickedStep
  <2>4. CASE s[n + 1].seq \notin S
    <3>1. k[n + 1] = k[n]
      BY <1>3, <2>2, <2>4
    <3> QED BY <2>1, <2>4, <3>1, PickedSkip
  <2> QED BY <2>3, <2>4
<1>6. Nat \subseteq N
  <2> HIDE DEF N
  <2> QED BY <1>4, <1>5, Induction
<1>7. \A n \in 0..Len(s) : k[n] \in Seq(T) /\ PickedFrom(k[n], s, S, n)
  BY <1>0, <1>6
<1>8. \A n \in 1..Len(s) : s[n].seq \notin S => k[n] = k[n - 1]
  <2>1. \A n \in 1..Len(s) : n \in 0..Len(s) /\ n # 0
    BY <1>0
  <2> QED BY <1>3, <2>1
<1> QED BY <1>1, <1>7, <1>8

\* Picked keeps exactly the packets whose numbers are asked for, in their order.
LEMMA PickedFacts ==
  ASSUME NEW T, NEW s \in Seq(T), NEW S
  PROVE  /\ Picked(s, S) \in Seq(T)
         /\ PickedFrom(Picked(s, S), s, S, Len(s))
         /\ s # <<>> /\ s[Len(s)].seq \notin S
              => PickedFrom(Picked(s, S), s, S, Len(s) - 1)
<1>1. PICK k : /\ Picked(s, S) = k[Len(s)]
               /\ \A n \in 0..Len(s) : k[n] \in Seq(T) /\ PickedFrom(k[n], s, S, n)
               /\ \A n \in 1..Len(s) : s[n].seq \notin S => k[n] = k[n - 1]
  BY PickedPrefix
<1>2. Len(s) \in Nat /\ Len(s) \in 0..Len(s)
  OBVIOUS
<1>3. s # <<>> => Len(s) \in 1..Len(s) /\ Len(s) - 1 \in 0..Len(s)
  OBVIOUS
<1> QED BY <1>1, <1>2, <1>3

-----------------------------------------------------------------------------
(* The receive ledger. *)

\* The places of a stream, its FIN and the next one fit in half the sequence space.
LEMMA StreamFits ==
  ASSUME Types, NEW e \in Side
  PROVE  /\ sent[e] \in Nat /\ sent[e] <= Script[e] /\ Top(e) \in Nat /\ Top(e) <= Script[e] + 1
         /\ sent[e] <= Top(e) /\ Top(e) <= sent[e] + 1 /\ Top(e) + 1 <= Half
         /\ (Top(e) = sent[e] + 1) <=> send[e].fin
         /\ \A k \in 0..Top(e) + 1 : k \in Number
         /\ \A k \in 0..sent[e] + 1 : k \in Number
<1>1. Script[e] \in Nat /\ Script[e] + 2 <= Half /\ 2 * Half = Modulus /\ Half \in Nat
  BY Constants
<1>2. sent[e] \in Nat /\ written[e] \in Nat /\ sent[e] <= written[e] /\ written[e] <= Script[e]
  BY DEF Types
<1>3. send[e].fin \in BOOLEAN
  BY DEF Types, SendLedger
<1> QED BY <1>1, <1>2, <1>3 DEF Top, Number

\* The packets of the stream from s that a ledger may hold at place a.
HeldFrom(s, a, buf) ==
  \A p \in buf : \E j \in a + 2..Top(s) : j <= a + MaxDistance /\ p = PacketAt(s, j)

\* The held packets that follow the acknowledgement without a gap.
LEMMA ContiguousFacts ==
  ASSUME Types, NEW s \in Side, NEW r, NEW a \in Nat, a < Top(s), r.ack = Num(s, a),
         HeldFrom(s, a, r.buf),
         NEW k \in a + 1..Top(s), k <= a + MaxDistance
  PROVE  LET held == r.buf \cup {PacketAt(s, k)}
             out == Contiguous(r, KindAt(s, k), Num(s, k), PosAt(s, k))
         IN \E n \in 0..MaxDistance :
              /\ a + n <= Top(s)
              /\ out = [i \in 1..n |-> PacketAt(s, a + i)]
              /\ \A i \in 1..n : PacketAt(s, a + i) \in held
              /\ PacketAt(s, a + n + 1) \notin held
<1> DEFINE held == r.buf \cup {[seq |-> Num(s, k), kind |-> KindAt(s, k), pos |-> PosAt(s, k)]}
           In(n) == {p \in held : p.seq = Add(r.ack, n)}
           Run(m) == (\A i \in 1..m : In(i) # {}) /\ In(m + 1) = {}
           H == {j \in a + 1..Top(s) : j <= a + MaxDistance /\ PacketAt(s, j) \in held}
<1>0. /\ MaxDistance \in Nat /\ MaxDistance < Half /\ 2 * Half = Modulus /\ Half \in Nat
      /\ Top(s) \in Nat /\ Top(s) + 1 <= Half
  BY Constants, StreamFits
<1>1. \A p \in held : \E j \in H : p = PacketAt(s, j)
  <2>1. k \in H
    BY DEF PacketAt
  <2>2. \A p \in r.buf : \E j \in H : p = PacketAt(s, j)
    BY <1>0 DEF HeldFrom
  <2> QED BY <2>1, <2>2 DEF PacketAt
<1>2. \A j \in H : j \in Number /\ j \in Nat /\ a < j /\ j <= Top(s) /\ j <= a + MaxDistance
                   /\ PacketAt(s, j) \in held
  BY <1>0 DEF Number
<1>3. \A j : PacketAt(s, j).seq = Num(s, j)
  BY DEF PacketAt
<1>4. ASSUME NEW i \in 1..MaxDistance + 1
      PROVE  /\ a + i \in Number
             /\ a + i \in H => In(i) = {PacketAt(s, a + i)}
             /\ a + i \notin H => In(i) = {}
  <2>1. a \in Number /\ i \in Number /\ a + i < Modulus /\ a + i \in Number
    BY <1>0 DEF Number
  <2>2. Add(r.ack, i) = Num(s, a + i)
    BY <2>1, Places
  <2>3. \A j \in H : Num(s, j) = Num(s, a + i) => j = a + i
    BY <1>2, <2>1, Places
  <2> HIDE DEF held, H
  <2>4. \A p \in In(i) : p = PacketAt(s, a + i) /\ a + i \in H
    BY <1>1, <1>3, <2>2, <2>3
  <2>5. a + i \in H => PacketAt(s, a + i) \in In(i)
    BY <1>2, <1>3, <2>2
  <2> QED BY <2>1, <2>4, <2>5
<1> HIDE DEF held, H
<1>5. \E m \in 0..MaxDistance : Run(m)
  <2> DEFINE N == {m \in Nat : \A i \in 1..m : a + i \in H}
  <2> SUFFICES ASSUME ~ \E m \in 0..MaxDistance : Run(m) PROVE FALSE
    OBVIOUS
  <2>1. 0 \in N
    OBVIOUS
  <2>2. ASSUME NEW m \in Nat, m \in N PROVE m + 1 \in N
    <3>1. m <= MaxDistance
      <4>1. m # 0 => m \in 1..m /\ a + m \in H
        BY <2>2
      <4> QED BY <1>0, <1>2, <4>1
    <3>2. \A i \in 1..m : In(i) # {}
      <4>1. \A i \in 1..m : i \in 1..MaxDistance + 1 /\ a + i \in H
        BY <1>0, <2>2, <3>1
      <4> QED BY <1>4, <4>1
    <3>3. In(m + 1) # {}
      BY <1>0, <3>1, <3>2
    <3>4. m + 1 \in 1..MaxDistance + 1
      BY <1>0, <3>1
    <3>5. a + (m + 1) \in H
      BY <1>4, <3>3, <3>4
    <3> QED BY <2>2, <3>5
  <2>3. Nat \subseteq N
    <3> HIDE DEF N
    <3> QED BY <2>1, <2>2, Induction
  <2>4. MaxDistance + 1 \in Nat /\ MaxDistance + 1 \in 1..MaxDistance + 1
    BY <1>0
  <2>5. a + (MaxDistance + 1) \in H
    BY <2>3, <2>4
  <2> QED BY <1>0, <1>2, <2>5
<1> DEFINE n == CHOOSE m \in 0..MaxDistance : Run(m)
           out == Contiguous(r, KindAt(s, k), Num(s, k), PosAt(s, k))
<1>6. n \in 0..MaxDistance /\ Run(n)
  <2> HIDE DEF Run
  <2> QED BY <1>5
<1>7. out = [i \in 1..n |-> CHOOSE p \in In(i) : TRUE]
  BY Zenon DEF Contiguous, held
<1> HIDE DEF n, out
<1>8. \A i \in 1..n : i \in 1..MaxDistance + 1 /\ a + i \in H /\ In(i) = {PacketAt(s, a + i)}
  BY <1>0, <1>4, <1>6
<1>9. n + 1 \in 1..MaxDistance + 1 /\ a + (n + 1) \notin H
  BY <1>0, <1>4, <1>6
<1>10. out = [i \in 1..n |-> PacketAt(s, a + i)]
  BY <1>7, <1>8
<1>11. a + n <= Top(s)
  <2>1. n # 0 => n \in 1..n
    BY <1>6
  <2> QED BY <1>0, <1>2, <1>6, <1>8, <2>1
<1>12. \A i \in 1..n : PacketAt(s, a + i) \in held
  BY <1>2, <1>8
<1>13. PacketAt(s, a + n + 1) \notin held
  <2> SUFFICES ASSUME PacketAt(s, a + n + 1) \in held PROVE FALSE
    OBVIOUS
  <2>1. PICK j \in H : PacketAt(s, a + n + 1) = PacketAt(s, j)
    BY <1>1
  <2>2. a + n + 1 = a + (n + 1) /\ a + n + 1 \in Number
    BY <1>4, <1>6, <1>9
  <2>3. Num(s, a + n + 1) = Num(s, j)
    BY <1>3, <2>1
  <2>4. j = a + n + 1
    BY <1>2, <2>2, <2>3, Places
  <2> QED BY <1>9, <2>2, <2>4
<1>14. held = r.buf \cup {PacketAt(s, k)}
  BY DEF held, PacketAt
<1> QED BY <1>6, <1>10, <1>11, <1>12, <1>13, <1>14 DEF out

\* A place of a stream is a packet the receive ledger may hold.
LEMMA PacketTypes ==
  ASSUME Types, NEW s \in Side, NEW j \in Number
  PROVE  /\ PacketAt(s, j) \in HeldPacket /\ PacketAt(s, j).seq = Num(s, j)
         /\ PacketAt(s, j).kind = KindAt(s, j) /\ PacketAt(s, j).pos = PosAt(s, j)
<1>1. Num(s, j) \in Number /\ j \in Nat /\ sent[s] \in Nat
  <2>1. Num(s, j) \in Number
    BY Places
  <2>2. j \in Nat /\ sent[s] \in Nat
    BY StreamFits, Constants DEF Number
  <2> QED BY <2>1, <2>2
<1> QED BY <1>1 DEF PacketAt, HeldPacket, KindAt, PosAt, Kind

\* As many packets as places.
PacketsAt(s, lo, hi) == {PacketAt(s, j) : j \in lo..hi}
\* A stretch of a stream is finite and has as many packets as places.
LEMMA Span ==
  ASSUME Types, NEW s \in Side, NEW lo \in Nat, NEW hi \in Number, lo <= hi + 1
  PROVE  /\ IsFiniteSet(PacketsAt(s, lo, hi))
         /\ Cardinality(PacketsAt(s, lo, hi)) = hi - lo + 1
<1> DEFINE S == PacketsAt(s, lo, hi)
           f == [j \in lo..hi |-> PacketAt(s, j)]
<1>0. hi \in Nat /\ lo..hi \subseteq Number
  BY Constants DEF Number
<1>1. \A i, j \in lo..hi : PacketAt(s, i) = PacketAt(s, j) => i = j
  BY <1>0, PacketTypes, Places
<1>2. f \in Bijection(lo..hi, S)
  <2>1. DOMAIN f = lo..hi /\ \A j \in lo..hi : f[j] = PacketAt(s, j) /\ f[j] \in S
    BY DEF PacketsAt
  <2>2. \A x \in S : \E j \in lo..hi : f[j] = x
    BY DEF PacketsAt
  <2>3. f \in [lo..hi -> S]
    BY <2>1
  <2> HIDE DEF f, S
  <2>4. f \in Injection(lo..hi, S)
    <3>1. \A i, j \in lo..hi : f[i] = f[j] => i = j
      BY <1>1, <2>1
    <3> QED BY <2>3, <3>1 DEF Injection, IsInjective
  <2>5. f \in Surjection(lo..hi, S)
    BY <2>2, <2>3 DEF Surjection
  <2> QED BY <2>4, <2>5 DEF Bijection
<1>3. ExistsBijection(lo..hi, S)
  <2> HIDE DEF f, S
  <2> QED BY <1>2 DEF ExistsBijection
<1>4. IsFiniteSet(lo..hi) /\ Cardinality(lo..hi) = hi - lo + 1
  BY <1>0, FS_Interval
<1> HIDE DEF S
<1>5. IsFiniteSet(S) /\ Cardinality(S) = hi - lo + 1
  BY <1>3, <1>4, FS_Bijection
<1> QED BY <1>5 DEF S

\* The data among packets in their order: all of them, or all but a last FIN.
LEMMA DataFacts ==
  ASSUME Types, NEW s \in Side, NEW a \in Nat, NEW n \in Nat, a <= sent[s], a + n <= Top(s)
  PROVE  LET d == DataOf([i \in 1..n |-> PacketAt(s, a + i)])
             m == IF a + n <= sent[s] THEN n ELSE n - 1
         IN /\ d \in Seq(HeldPacket) /\ m \in Nat /\ Len(d) = m
            /\ \A i \in 1..m : d[i].pos = a + i
<1> DEFINE out == [i \in 1..n |-> PacketAt(s, a + i)]
           S == {out[i].seq : i \in {j \in DOMAIN out : out[j].kind = "DATA"}}
           d == Picked(out, S)
<1>0. /\ sent[s] \in Nat /\ Top(s) \in Nat /\ sent[s] <= Top(s) /\ Top(s) <= sent[s] + 1
      /\ \A j \in 0..Top(s) + 1 : j \in Number
  BY StreamFits
<1>1. \A i \in 1..n : /\ a + i \in Number /\ PacketAt(s, a + i) \in HeldPacket
                      /\ out[i].seq = Num(s, a + i) /\ out[i].kind = KindAt(s, a + i)
                      /\ out[i].pos = PosAt(s, a + i)
  BY <1>0, PacketTypes
<1>2. out \in Seq(HeldPacket) /\ Len(out) = n /\ DOMAIN out = 1..n
  BY <1>1
<1>3. \A i \in 1..n : a + i <= sent[s] => out[i].seq \in S /\ out[i].pos = a + i
  <2> SUFFICES ASSUME NEW i \in 1..n, a + i <= sent[s] PROVE out[i].seq \in S /\ out[i].pos = a + i
    OBVIOUS
  <2>1. KindAt(s, a + i) = "DATA" /\ PosAt(s, a + i) = a + i
    BY <1>0 DEF KindAt, PosAt
  <2> QED BY <1>1, <1>2, <2>1
<1>4. \A x \in S : \E i \in 1..n : x = out[i].seq /\ out[i].kind = "DATA"
  BY <1>2
<1>5. DataOf(out) = d
  BY DEF DataOf
<1> HIDE DEF out, S, d
<1>6. /\ d \in Seq(HeldPacket) /\ PickedFrom(d, out, S, n)
      /\ n # 0 /\ out[n].seq \notin S => PickedFrom(d, out, S, n - 1)
  <2>1. n # 0 => out # <<>>
    BY <1>2
  <2> QED BY <1>2, <2>1, PickedFacts DEF d
<1> SUFFICES LET m == IF a + n <= sent[s] THEN n ELSE n - 1
             IN /\ d \in Seq(HeldPacket) /\ m \in Nat /\ Len(d) = m
                /\ \A i \in 1..m : d[i].pos = a + i
  BY <1>5 DEF out
<1>7. CASE a + n <= sent[s]
  <2>1. \A i \in 1..n : a + i <= sent[s]
    BY <1>0, <1>7
  <2>2. \A i \in 1..n : out[i].seq \in S /\ out[i].pos = a + i
    BY <1>3, <2>1
  <2>3. Len(d) = n /\ \A i \in 1..n : d[i] = out[i]
    BY <1>6, <2>2 DEF PickedFrom
  <2> QED BY <1>6, <1>7, <2>2, <2>3
<1>8. CASE a + n > sent[s]
  <2>1. n # 0 /\ n - 1 \in Nat /\ a + n = sent[s] + 1 /\ n \in 1..n
    BY <1>0, <1>8
  <2>2. out[n].kind # "DATA"
    BY <1>0, <1>1, <1>8, <2>1 DEF KindAt
  <2>3. out[n].seq \notin S
    <3> SUFFICES ASSUME NEW j \in 1..n, out[j].kind = "DATA", out[j].seq = out[n].seq PROVE FALSE
      BY <1>4
    <3>1. a + j \in Number /\ a + n \in Number /\ Num(s, a + j) = Num(s, a + n)
      BY <1>1, <2>1
    <3>2. a + j = a + n
      BY <3>1, Places
    <3>3. j = n
      BY <3>2
    <3> QED BY <2>2, <3>3
  <2>4. \A i \in 1..(n - 1) : i \in 1..n /\ a + i <= sent[s]
    BY <1>0, <2>1
  <2>5. \A i \in 1..(n - 1) : out[i].seq \in S /\ out[i].pos = a + i
    BY <1>3, <2>4
  <2>6. PickedFrom(d, out, S, n - 1)
    BY <1>6, <2>1, <2>3
  <2>7. Len(d) = n - 1 /\ \A i \in 1..(n - 1) : d[i] = out[i]
    BY <2>5, <2>6 DEF PickedFrom
  <2>8. ~(a + n <= sent[s])
    BY <1>0, <1>8
  <2> QED BY <1>6, <2>1, <2>5, <2>7, <2>8
<1> QED BY <1>0, <1>7, <1>8

DataIn(B) == {p \in B : p.kind = "DATA"}

\* What stays in the ledger and what leaves it fits in the receive window.
Leave(s, a, m, buf, x, gone, u) ==
  /\ s \in Side /\ a \in Nat /\ m \in Nat /\ a + m <= sent[s]
  /\ IsFiniteSet(buf) /\ x.kind \in {"DATA", "FIN"} /\ gone \subseteq buf \cup {x}
  /\ PacketsAt(s, a + 1, a + m) \subseteq gone /\ u \in Nat
  /\ Cardinality(DataIn(buf)) + u + Payload(x.kind) <= MaxReceive
\* What the window counts after x has been taken: nothing is counted twice.
LEMMA WindowKept ==
  ASSUME Types, NEW s, NEW a, NEW m, NEW buf, NEW x, NEW gone, NEW u,
         Leave(s, a, m, buf, x, gone, u)
  PROVE  Cardinality(DataIn((buf \cup {x}) \ gone)) + u + m <= MaxReceive
<1> DEFINE D == {p \in buf : p.kind = "DATA"}
           E == {p \in buf \cup {x} : p.kind = "DATA"}
           G == PacketsAt(s, a + 1, a + m)
           L == {p \in (buf \cup {x}) \ gone : p.kind = "DATA"}
<1> /\ s \in Side /\ a \in Nat /\ m \in Nat /\ a + m <= sent[s]
    /\ IsFiniteSet(buf) /\ x.kind \in {"DATA", "FIN"} /\ gone \subseteq buf \cup {x}
    /\ PacketsAt(s, a + 1, a + m) \subseteq gone /\ u \in Nat
    /\ Cardinality(DataIn(buf)) + u + Payload(x.kind) <= MaxReceive
  BY DEF Leave
<1>0. MaxReceive \in Nat /\ sent[s] \in Nat /\ \A j \in 0..sent[s] + 1 : j \in Number
  BY Constants, StreamFits
<1>1. IsFiniteSet(D) /\ Cardinality(D) \in Nat
  <2>1. D \in SUBSET buf
    OBVIOUS
  <2>2. IsFiniteSet(D)
    BY <2>1, FS_Subset
  <2> HIDE DEF D
  <2> QED BY <2>2, FS_CardinalityType
<1>2. IsFiniteSet(E) /\ Cardinality(E) \in Nat /\ Cardinality(E) <= Cardinality(D) + Payload(x.kind)
  <2>1. CASE x.kind = "DATA"
    <3>1. E = D \cup {x}
      BY <2>1
    <3> HIDE DEF D, E
    <3>2. IsFiniteSet(D \cup {x}) /\ Cardinality(D \cup {x}) = IF x \in D THEN Cardinality(D) ELSE Cardinality(D) + 1
      BY <1>1, FS_AddElement
    <3> QED BY <1>1, <2>1, <3>1, <3>2 DEF Payload
  <2>2. CASE x.kind = "FIN"
    <3>1. E = D
      BY <2>2
    <3> HIDE DEF D, E
    <3> QED BY <1>1, <2>2, <3>1 DEF Payload
  <2> QED BY <2>1, <2>2
<1>3. IsFiniteSet(G) /\ Cardinality(G) = m
  <2>1. a + 1 \in Nat /\ a + m \in Number /\ a + 1 <= a + m + 1
    BY <1>0
  <2>2. IsFiniteSet(G) /\ Cardinality(G) = a + m - (a + 1) + 1
    BY <2>1, Span
  <2> QED BY <2>2
<1>4. G \subseteq E
  <2>1. ASSUME NEW j \in a + 1..a + m PROVE PacketAt(s, j).kind = "DATA"
    <3>1. j \in Number /\ j # 0 /\ j <= sent[s]
      BY <1>0
    <3> QED BY <3>1, PacketTypes DEF KindAt
  <2> QED BY <2>1 DEF PacketsAt
<1>5. L \subseteq E \ G
  OBVIOUS
<1> HIDE DEF D, E, G, L
<1> USE DEF DataIn
<1>6. Cardinality(E \ G) = Cardinality(E) - Cardinality(G)
  <2>1. IsFiniteSet(E \ G)
    BY <1>2, FS_Difference
  <2>2. Cardinality(E \ G) = Cardinality(E) - Cardinality(E \cap G)
    BY <1>2, <1>3, FS_Difference
  <2>3. E \cap G = G
    BY <1>4
  <2> QED BY <2>2, <2>3
<1>7. IsFiniteSet(E \ G) /\ IsFiniteSet(L) /\ Cardinality(L) <= Cardinality(E \ G) /\ Cardinality(L) \in Nat
  <2>1. IsFiniteSet(E \ G)
    BY <1>2, FS_Difference
  <2>2. L \in SUBSET (E \ G)
    BY <1>5
  <2>3. IsFiniteSet(L) /\ Cardinality(L) <= Cardinality(E \ G)
    BY <2>1, <2>2, FS_Subset
  <2> QED BY <2>1, <2>3, FS_CardinalityType
<1>8. Cardinality(D) + u + Payload(x.kind) <= MaxReceive
  BY DEF D
<1>9. Payload(x.kind) \in Nat
  BY DEF Payload
<1>10. Cardinality(L) + u + m <= MaxReceive
  BY <1>0, <1>1, <1>2, <1>3, <1>6, <1>7, <1>8, <1>9
<1> QED BY <1>10 DEF L

\* The receive ledger holds at most MaxReorder packets.
LEMMA HeldFinite ==
  ASSUME Types, NEW s \in Side, NEW a \in Nat, a <= Top(s), NEW buf, HeldFrom(s, a, buf)
  PROVE  IsFiniteSet(buf) /\ Cardinality(buf) <= MaxReorder /\ Cardinality(buf) \in Nat
<1>0. /\ MaxDistance \in Nat /\ MaxDistance < Half /\ 2 * Half = Modulus /\ Half \in Nat
      /\ MaxDistance = MaxReorder + 1 /\ Top(s) \in Nat /\ Top(s) + 1 <= Half
      /\ MaxReorder \in Nat
  BY Constants, StreamFits
<1>1. a + 2 \in Nat /\ a + MaxDistance \in Number /\ a + 2 <= a + MaxDistance + 1
  BY <1>0 DEF Number
<1> DEFINE P == PacketsAt(s, a + 2, a + MaxDistance)
<1>2. IsFiniteSet(P) /\ Cardinality(P) = a + MaxDistance - (a + 2) + 1
  BY <1>0, <1>1, Span
<1>3. buf \in SUBSET P
  BY <1>0 DEF HeldFrom, PacketsAt
<1> HIDE DEF P
<1>4. IsFiniteSet(buf) /\ Cardinality(buf) <= Cardinality(P)
  BY <1>2, <1>3, FS_Subset
<1> QED BY <1>0, <1>2, <1>4, FS_CardinalityType

\* ReceiveState::receive on the packet at place k: n packets leave the ledger.
LEMMA ReceiveFacts ==
  ASSUME Types, NEW s \in Side, NEW r \in RecvLedger, NEW a \in Nat, a <= sent[s], ~r.eof,
         r.ack = Num(s, a), HeldFrom(s, a, r.buf),
         NEW k \in a + 1..Top(s), k <= a + MaxDistance,
         Buffered(r) + Payload(KindAt(s, k)) <= MaxReceive
  PROVE  LET q == Receive(r, KindAt(s, k), Num(s, k), PosAt(s, k))
             g == Given(r, KindAt(s, k), Num(s, k), PosAt(s, k))
         IN \E n \in Nat :
              /\ q \in RecvLedger /\ a + n <= Top(s) /\ q.ack = Num(s, a + n)
              /\ q.eof <=> a + n = sent[s] + 1
              /\ g \in Seq(Nat) /\ Len(g) = (IF q.eof THEN n - 1 ELSE n)
              /\ \A i \in 1..Len(g) : g[i] = a + i
              /\ HeldFrom(s, a + n, q.buf)
              /\ \A p \in r.buf \cup {PacketAt(s, k)} :
                   p \in q.buf \/ \E j \in a + 1..a + n : p = PacketAt(s, j)
              /\ Buffered(q) <= MaxReceive
<1> DEFINE kind == KindAt(s, k)
           x == PacketAt(s, k)
           held == r.buf \cup {x}
           out == Contiguous(r, kind, Num(s, k), PosAt(s, k))
           d == DataOf(out)
           q == Receive(r, kind, Num(s, k), PosAt(s, k))
           g == Given(r, kind, Num(s, k), PosAt(s, k))
<1>0. /\ MaxDistance \in Nat /\ MaxDistance < Half /\ 2 * Half = Modulus /\ Half \in Nat
      /\ Top(s) \in Nat /\ Top(s) + 1 <= Half /\ sent[s] \in Nat /\ sent[s] <= Top(s)
      /\ Top(s) <= sent[s] + 1 /\ a < Top(s) /\ k \in Nat /\ MaxReceive \in Nat
  BY Constants, StreamFits
<1>1. PICK n \in 0..MaxDistance :
         /\ a + n <= Top(s) /\ out = [i \in 1..n |-> PacketAt(s, a + i)]
         /\ \A i \in 1..n : PacketAt(s, a + i) \in held
         /\ PacketAt(s, a + n + 1) \notin held
  BY ZenonT(30), <1>0, ContiguousFacts
<1> DEFINE m == IF a + n <= sent[s] THEN n ELSE n - 1
           gone == {out[i] : i \in DOMAIN out}
<1>2. d \in Seq(HeldPacket) /\ m \in Nat /\ Len(d) = m /\ \A i \in 1..m : d[i].pos = a + i
  <2>1. n \in Nat /\ a <= sent[s] /\ a + n <= Top(s)
    BY <1>0, <1>1
  <2>2. d = DataOf([i \in 1..n |-> PacketAt(s, a + i)])
    BY <1>1
  <2> HIDE DEF d
  <2> QED BY ZenonT(30), <2>1, <2>2, DataFacts
<1>3. DOMAIN out = 1..n /\ Len(out) = n /\ n \in Nat
  <2>1. n \in Nat
    BY <1>1
  <2> QED BY <1>1, <2>1
<1>4. gone = PacketsAt(s, a + 1, a + n)
  <2>1. gone = {PacketAt(s, a + i) : i \in 1..n}
    <3>1. \A i \in 1..n : out[i] = PacketAt(s, a + i)
      BY <1>1
    <3> HIDE DEF out
    <3> QED BY <1>3, <3>1
  <2>2. \A j \in a + 1..a + n : j - a \in 1..n /\ a + (j - a) = j
    BY <1>0, <1>3
  <2>3. \A i \in 1..n : a + i \in a + 1..a + n
    BY <1>0, <1>3
  <2> HIDE DEF gone, out
  <2> QED BY <2>1, <2>2, <2>3 DEF PacketsAt
<1>5. /\ q.ack = Add(r.ack, n) /\ q.buf = held \ gone /\ q.unread = r.unread + m
      /\ q.fin = (IF kind = "FIN" THEN Num(s, k) ELSE r.fin)
      /\ q.eof = (r.eof \/ \E p \in gone : p.kind = "FIN")
      /\ q = [ack |-> q.ack, buf |-> q.buf, unread |-> q.unread, fin |-> q.fin, eof |-> q.eof]
  BY <1>2, <1>3 DEF Receive, PacketAt
<1>6. g = [i \in DOMAIN d |-> d[i].pos]
  BY DEF Given
<1>7. /\ kind \in {"DATA", "FIN"} /\ x.kind = kind /\ x \in HeldPacket /\ Num(s, k) \in Number
      /\ k \in Number /\ x.seq = Num(s, k)
  <2>1. k \in Number
    BY <1>0 DEF Number
  <2>2. kind \in {"DATA", "FIN"}
    BY <1>0 DEF KindAt
  <2> QED BY <2>1, <2>2, PacketTypes, Places
<1>8. \A j \in a + 1..a + n : j \in Number /\ j \in Nat /\ PacketAt(s, j).kind = KindAt(s, j)
                            /\ PacketAt(s, j) \in held
  <2> SUFFICES ASSUME NEW j \in a + 1..a + n
               PROVE  j \in Number /\ j \in Nat /\ PacketAt(s, j).kind = KindAt(s, j)
                      /\ PacketAt(s, j) \in held
    OBVIOUS
  <2>1. j \in Number /\ j \in Nat /\ j - a \in 1..n /\ a + (j - a) = j
    BY <1>0, <1>1 DEF Number
  <2>2. PacketAt(s, j) \in held
    BY <1>1, <2>1
  <2> QED BY <2>1, <2>2, PacketTypes
<1> HIDE DEF kind, x, held, out, d, q, g, gone
<1>9. q.ack = Num(s, a + n)
  <2>1. a \in Number /\ n \in Number /\ a + n < Modulus
    BY <1>0, <1>1 DEF Number
  <2> QED BY <1>5, <2>1, Places
<1>10. q.eof <=> a + n = sent[s] + 1
  <2>1. (\E p \in gone : p.kind = "FIN") <=> \E j \in a + 1..a + n : KindAt(s, j) = "FIN"
    BY <1>4, <1>8 DEF PacketsAt
  <2>2. \A j \in a + 1..a + n : KindAt(s, j) = "FIN" <=> j > sent[s]
    BY <1>0, <1>3 DEF KindAt
  <2>3. (\E j \in a + 1..a + n : j > sent[s]) <=> a + n = sent[s] + 1
    <3>1. a + n = sent[s] + 1 => a + n \in a + 1..a + n /\ a + n > sent[s]
      BY <1>0, <1>3
    <3>2. \A j \in a + 1..a + n : j > sent[s] => a + n = sent[s] + 1
      <4>1. a + n <= Top(s)
        BY <1>1
      <4> QED BY <1>0, <1>3, <4>1
    <3> QED BY <3>1, <3>2
  <2> QED BY <1>5, <2>1, <2>2, <2>3
<1>11. m = (IF q.eof THEN n - 1 ELSE n)
  BY <1>0, <1>1, <1>3, <1>10
<1>12. g \in Seq(Nat) /\ Len(g) = m /\ \A i \in 1..m : g[i] = a + i
  <2>1. DOMAIN d = 1..m
    BY <1>2
  <2>2. \A i \in 1..m : d[i].pos = a + i /\ a + i \in Nat
    BY <1>2
  <2>3. g = [i \in 1..m |-> a + i]
    BY <1>6, <2>1, <2>2
  <2> HIDE DEF m
  <2> QED BY <1>2, <2>3
<1>13. HeldFrom(s, a + n, q.buf)
  <2> SUFFICES ASSUME NEW p \in q.buf
               PROVE  \E j \in a + n + 2..Top(s) : j <= a + n + MaxDistance /\ p = PacketAt(s, j)
    BY DEF HeldFrom
  <2>1. p \in held /\ p \notin gone
    BY <1>5
  <2>2. PICK j \in a + 1..Top(s) : j <= a + MaxDistance /\ p = PacketAt(s, j)
    <3>1. CASE p \in r.buf
      BY <1>0, <3>1 DEF HeldFrom
    <3>2. CASE p = x
      BY <3>2 DEF x
    <3> QED BY <2>1, <3>1, <3>2 DEF held
  <2>3. j \notin a + 1..a + n
    BY <1>4, <2>1, <2>2 DEF PacketsAt
  <2>4. j # a + n + 1
    BY <1>1, <2>1, <2>2
  <2>5. j \in a + n + 2..Top(s) /\ j <= a + n + MaxDistance
    BY <1>0, <1>3, <2>2, <2>3, <2>4
  <2> QED BY <2>2, <2>5
<1>14. \A p \in held : p \in q.buf \/ \E j \in a + 1..a + n : p = PacketAt(s, j)
  BY <1>4, <1>5 DEF PacketsAt
<1>15. held \subseteq HeldPacket
  BY <1>7 DEF held, RecvLedger
<1>16. q \in RecvLedger
  <2>1. q.ack \in Number
    <3>1. a + n \in Number
      BY <1>0, <1>1, <1>3 DEF Number
    <3> QED BY <1>9, <3>1, Places
  <2>2. r.unread \in Nat /\ r.fin \in {None} \cup Number /\ r.eof \in BOOLEAN
    BY DEF RecvLedger
  <2>3. q.unread \in Nat
    BY <1>2, <1>5, <2>2
  <2>4. q.buf \in SUBSET HeldPacket
    BY <1>5, <1>15
  <2>5. q.fin \in {None} \cup Number
    BY <1>5, <1>7, <2>2
  <2>6. q.eof \in BOOLEAN
    BY <1>5, <2>2
  <2> QED BY <1>5, <2>1, <2>3, <2>4, <2>5, <2>6 DEF RecvLedger
<1>17. Buffered(q) <= MaxReceive
  <2>1. IsFiniteSet(r.buf) /\ r.unread \in Nat
    BY <1>0, HeldFinite DEF RecvLedger
  <2>2. a + m <= sent[s]
    BY SMTT(30), <1>0, <1>1, <1>3
  <2>3. PacketsAt(s, a + 1, a + m) \subseteq gone
    <3>1. a + 1..a + m \subseteq a + 1..a + n
      BY <1>2, <1>3
    <3> HIDE DEF m
    <3> QED BY <1>4, <3>1 DEF PacketsAt
  <2>4. \A p \in gone : p \in r.buf \cup {x}
    BY <1>4, <1>8 DEF PacketsAt, held
  <2>5. Cardinality(DataIn(r.buf)) + r.unread + Payload(x.kind) <= MaxReceive
    BY <1>7 DEF Buffered, kind, DataIn
  <2> HIDE DEF m
  <2>6. Cardinality(DataIn((r.buf \cup {x}) \ gone)) + r.unread + m <= MaxReceive
    <3>1. m \in Nat /\ x.kind \in {"DATA", "FIN"}
      BY <1>2, <1>7
    <3>2. Leave(s, a, m, r.buf, x, gone, r.unread)
      BY <2>1, <2>2, <2>3, <2>4, <2>5, <3>1 DEF Leave
    <3> QED BY <3>2, WindowKept
  <2>7. Buffered(q) = Cardinality(DataIn((r.buf \cup {x}) \ gone)) + (r.unread + m)
    BY <1>5 DEF Buffered, held, DataIn
  <2>8. Cardinality(DataIn((r.buf \cup {x}) \ gone)) \in Nat
    <3> DEFINE L == DataIn((r.buf \cup {x}) \ gone)
    <3>1. IsFiniteSet(r.buf \cup {x})
      BY <2>1, FS_AddElement
    <3>2. L \in SUBSET (r.buf \cup {x})
      BY DEF DataIn
    <3>3. IsFiniteSet(L)
      BY <3>1, <3>2, FS_Subset
    <3> QED BY <3>3, FS_CardinalityType
  <2> QED BY <1>0, <1>2, <2>1, <2>6, <2>7, <2>8
<1>18. Len(g) = (IF q.eof THEN n - 1 ELSE n) /\ \A i \in 1..Len(g) : g[i] = a + i
  BY <1>11, <1>12
<1> QED
  <2>1. q = Receive(r, KindAt(s, k), Num(s, k), PosAt(s, k))
    BY DEF q, kind
  <2>2. g = Given(r, KindAt(s, k), Num(s, k), PosAt(s, k))
    BY DEF g, kind
  <2>3. held = r.buf \cup {PacketAt(s, k)}
    BY DEF held, x
  <2> HIDE DEF m
  <2> QED BY <1>1, <1>3, <1>9, <1>10, <1>12, <1>13, <1>14, <1>16, <1>17, <1>18, <2>1, <2>2, <2>3

-----------------------------------------------------------------------------
(* The send ledger and the retransmission queue. *)

Work == [seq : Number, fast : BOOLEAN]
Queued(q) == {q[i].seq : i \in DOMAIN q}

\* u holds packets of t only, as far as the stream goes
Within(u, t) ==
  \A i \in DOMAIN u.out : \E j \in DOMAIN t.out :
    /\ u.out[i].seq = t.out[j].seq /\ u.out[i].kind = t.out[j].kind
    /\ u.out[i].pos = t.out[j].pos

\* SendState::acknowledge removes packets that are acknowledged, and only those.
LEMMA AcknowledgeFacts ==
  ASSUME NEW t \in SendLedger, Distinct(t.out), NEW ack \in Number, NEW sack, NEW kind, NEW old
  PROVE  LET u == Acknowledge(t, ack, sack, kind, old)
         IN /\ u \in SendLedger /\ u.next = t.next /\ u.cum = ack /\ u.fin = t.fin
            /\ Distinct(u.out) /\ Within(u, t) /\ Outstanding(u) \subseteq Outstanding(t)
            /\ \A j \in DOMAIN t.out :
                 t.out[j].seq \notin Outstanding(u) => Released(t, ack, sack, t.out[j])
<1> DEFINE freed == {t.out[i].seq : i \in {k \in DOMAIN t.out : Released(t, ack, sack, t.out[k])}}
           S == Outstanding(t) \ freed
           kept == Picked(t.out, S)
           progress == ack # t.cum \/ Len(kept) # Len(t.out)
           dup == CASE progress -> 0
                    [] ~progress /\ kind = "STATE" /\ Reported(t, ack, sack) = {} ->
                         IF t.dup < LossThreshold THEN t.dup + 1 ELSE t.dup
                    [] OTHER -> t.dup
           new == [i \in DOMAIN kept |->
                     [kept[i] EXCEPT !.lost = @ \/ Missing(t, dup, ack, sack, old, kept[i])]]
           u == Acknowledge(t, ack, sack, kind, old)
<1>1. u = [t EXCEPT !.cum = ack, !.dup = dup, !.out = new]
  BY Zenon DEF Acknowledge
<1>2. t.out \in Seq(SentPacket) /\ t.dup \in 0..LossThreshold /\ LossThreshold \in Nat
  BY Constants DEF SendLedger
<1>3. dup \in 0..LossThreshold
  <2> HIDE DEF progress
  <2>1. CASE progress
    BY <1>2, <2>1
  <2>2. CASE ~progress /\ kind = "STATE" /\ Reported(t, ack, sack) = {}
    BY <1>2, <2>2
  <2>3. CASE ~progress /\ ~(kind = "STATE" /\ Reported(t, ack, sack) = {})
    BY <1>2, <2>3
  <2> QED BY <2>1, <2>2, <2>3
<1>4. \A j \in DOMAIN t.out : t.out[j].seq \in S \/ Released(t, ack, sack, t.out[j])
  <2> SUFFICES ASSUME NEW j \in DOMAIN t.out, t.out[j].seq \notin S
               PROVE  Released(t, ack, sack, t.out[j])
    OBVIOUS
  <2>1. t.out[j].seq \in freed
    BY DEF Outstanding
  <2>2. PICK i \in DOMAIN t.out : Released(t, ack, sack, t.out[i]) /\ t.out[i].seq = t.out[j].seq
    BY <2>1
  <2>3. i = j
    BY <2>2 DEF Distinct
  <2> QED BY <2>2, <2>3
<1> HIDE DEF S, dup
<1>5. kept \in Seq(SentPacket) /\ PickedFrom(kept, t.out, S, Len(t.out))
  BY <1>2, PickedFacts
<1> HIDE DEF kept
<1>6. DOMAIN t.out = 1..Len(t.out) /\ DOMAIN kept = 1..Len(kept)
  BY <1>2, <1>5
<1>7. /\ new \in Seq(SentPacket) /\ DOMAIN new = DOMAIN kept
      /\ \A i \in DOMAIN kept : /\ new[i].seq = kept[i].seq /\ new[i].kind = kept[i].kind
                                /\ new[i].pos = kept[i].pos
  <2>1. \A i \in DOMAIN kept : kept[i] \in SentPacket
    BY <1>5
  <2> DEFINE Mark(i) == kept[i].lost \/ Missing(t, dup, ack, sack, old, kept[i])
  <2>2. \A i \in DOMAIN kept : Mark(i) \in BOOLEAN
    BY <2>1 DEF SentPacket
  <2>3. new = [i \in DOMAIN kept |-> [kept[i] EXCEPT !.lost = Mark(i)]]
    OBVIOUS
  <2> HIDE DEF Mark, new
  <2>4. \A i \in DOMAIN kept : /\ new[i] \in SentPacket /\ new[i].seq = kept[i].seq
                               /\ new[i].kind = kept[i].kind /\ new[i].pos = kept[i].pos
    BY <2>1, <2>2, <2>3 DEF SentPacket
  <2>5. DOMAIN new = DOMAIN kept /\ Len(kept) \in Nat /\ new = [i \in 1..Len(kept) |-> new[i]]
    BY <1>5, <1>6, <2>3
  <2>6. new \in Seq(SentPacket)
    BY <1>6, <2>4, <2>5
  <2> QED BY <2>4, <2>5, <2>6
<1> HIDE DEF new
<1>8. /\ u \in SendLedger /\ u.next = t.next /\ u.cum = ack /\ u.fin = t.fin /\ u.high = t.high /\ u.out = new
  BY <1>1, <1>3, <1>7 DEF SendLedger
<1> HIDE DEF u
<1>9. Distinct(u.out)
  <2>1. Distinct(kept)
    BY <1>5 DEF PickedFrom
  <2> QED BY <1>7, <1>8, <2>1 DEF Distinct
<1>10. Within(u, t)
  <2>1. \A i \in DOMAIN kept : \E j \in DOMAIN t.out : kept[i] = t.out[j]
    BY <1>5, <1>6 DEF PickedFrom
  <2> SUFFICES ASSUME NEW i \in DOMAIN kept
               PROVE  \E j \in DOMAIN t.out : /\ new[i].seq = t.out[j].seq
                        /\ new[i].kind = t.out[j].kind /\ new[i].pos = t.out[j].pos
    BY <1>7, <1>8 DEF Within
  <2>2. PICK j \in DOMAIN t.out : kept[i] = t.out[j]
    BY <2>1
  <2> QED BY <1>7, <2>2
<1>11. Outstanding(u) \subseteq Outstanding(t)
  BY <1>10 DEF Within, Outstanding
<1>12. ASSUME NEW j \in DOMAIN t.out, t.out[j].seq \notin Outstanding(u)
       PROVE  Released(t, ack, sack, t.out[j])
  <2> SUFFICES ASSUME t.out[j].seq \in S PROVE FALSE
    BY <1>4
  <2>1. PICK i \in DOMAIN kept : kept[i] = t.out[j]
    BY <1>5, <1>6 DEF PickedFrom
  <2>2. i \in DOMAIN u.out /\ u.out[i].seq = t.out[j].seq
    BY <1>7, <1>8, <2>1
  <2> QED BY <1>12, <2>2 DEF Outstanding
<1> QED BY <1>8, <1>9, <1>10, <1>11, <1>12 DEF u

\* RetransmissionQueue::schedule queues outstanding packets only.
LEMMA ScheduleFacts ==
  ASSUME NEW q \in Seq(Work), NEW t \in SendLedger, NEW seqs, NEW fast \in BOOLEAN,
         Queued(q) \subseteq Outstanding(t)
  PROVE  Schedule(q, t, seqs, fast) \in Seq(Work)
         /\ Queued(Schedule(q, t, seqs, fast)) \subseteq Outstanding(t)
<1> DEFINE queued == {q[i].seq : i \in DOMAIN q}
           new == Picked(t.out, seqs \ queued)
           A == [i \in DOMAIN q |-> [q[i] EXCEPT !.fast = @ \/ (fast /\ q[i].seq \in seqs)]]
           B == [i \in DOMAIN new |-> [seq |-> new[i].seq, fast |-> fast]]
<1>1. Schedule(q, t, seqs, fast) = A \o B
  BY DEF Schedule
<1>2. t.out \in Seq(SentPacket)
  BY DEF SendLedger
<1>3. new \in Seq(SentPacket) /\ PickedFrom(new, t.out, seqs \ queued, Len(t.out))
  <2> HIDE DEF queued
  <2> QED BY <1>2, PickedFacts
<1> HIDE DEF new
<1>4. A \in Seq(Work) /\ DOMAIN A = DOMAIN q /\ \A i \in DOMAIN q : A[i].seq = q[i].seq
  <2>1. \A i \in DOMAIN q : q[i] \in Work
    OBVIOUS
  <2>2. \A i \in DOMAIN q : A[i] \in Work /\ A[i].seq = q[i].seq
    BY <2>1 DEF Work
  <2>3. DOMAIN q = 1..Len(q) /\ Len(q) \in Nat /\ DOMAIN A = DOMAIN q
    OBVIOUS
  <2>4. A = [i \in 1..Len(q) |-> A[i]]
    BY <2>3
  <2> HIDE DEF A
  <2> QED BY <2>2, <2>3, <2>4
<1>5. B \in Seq(Work) /\ DOMAIN B = DOMAIN new /\ \A i \in DOMAIN new : B[i].seq = new[i].seq
  <2>1. \A i \in DOMAIN new : new[i] \in SentPacket
    BY <1>3
  <2>2. \A i \in DOMAIN new : B[i] \in Work /\ B[i].seq = new[i].seq
    BY <2>1 DEF Work, SentPacket
  <2>3. DOMAIN new = 1..Len(new) /\ Len(new) \in Nat /\ DOMAIN B = DOMAIN new
    BY <1>3
  <2>4. B = [i \in 1..Len(new) |-> B[i]]
    BY <2>3
  <2> HIDE DEF B
  <2> QED BY <2>2, <2>3, <2>4
<1> HIDE DEF A, B
<1>6. \A i \in DOMAIN A : A[i].seq \in Outstanding(t)
  BY <1>4 DEF Queued
<1>7. \A i \in DOMAIN B : B[i].seq \in Outstanding(t)
  <2>1. \A i \in DOMAIN new : new[i].seq \in Outstanding(t)
    <3>1. DOMAIN t.out = 1..Len(t.out)
      BY <1>2
    <3> QED BY <1>3, <3>1 DEF PickedFrom, Outstanding
  <2> QED BY <1>5, <2>1
<1>8. A \o B \in Seq(Work)
  BY <1>4, <1>5
<1>9. \A i \in DOMAIN (A \o B) :
        (A \o B)[i] \in {A[j] : j \in DOMAIN A} \cup {B[j] : j \in DOMAIN B}
  BY <1>4, <1>5, ConcatProperties
<1> QED BY <1>1, <1>6, <1>7, <1>8, <1>9 DEF Queued

\* After RetransmissionQueue::remove what is queued is outstanding.
LEMMA UnscheduleFacts ==
  ASSUME NEW q \in Seq(Work), NEW t
  PROVE  Unschedule(q, t) \in Seq(Work) /\ Queued(Unschedule(q, t)) \subseteq Outstanding(t)
<1>1. Picked(q, Outstanding(t)) \in Seq(Work)
      /\ PickedFrom(Picked(q, Outstanding(t)), q, Outstanding(t), Len(q))
  BY PickedFacts
<1> QED BY <1>1 DEF Unschedule, Queued, PickedFrom

\* on_timeout_classified keeps every outstanding packet.
LEMMA TimedOutFacts ==
  ASSUME NEW t \in SendLedger
  PROVE  LET u == TimedOut(t)
         IN /\ u \in SendLedger /\ u.next = t.next /\ u.cum = t.cum /\ u.fin = t.fin /\ u.high = t.high
            /\ Within(u, t) /\ Outstanding(u) = Outstanding(t)
            /\ Distinct(t.out) => Distinct(u.out)
<1> DEFINE new == [i \in DOMAIN t.out |-> [t.out[i] EXCEPT !.lost = TRUE]]
           u == TimedOut(t)
<1>1. u = [t EXCEPT !.dup = 0, !.out = new]
  BY DEF TimedOut
<1>2. t.out \in Seq(SentPacket) /\ DOMAIN t.out = 1..Len(t.out) /\ Len(t.out) \in Nat
  BY DEF SendLedger
<1>3. \A i \in DOMAIN t.out : t.out[i] \in SentPacket
  BY <1>2
<1>4. \A i \in DOMAIN t.out : /\ new[i] \in SentPacket /\ new[i].seq = t.out[i].seq
                              /\ new[i].kind = t.out[i].kind /\ new[i].pos = t.out[i].pos
  BY <1>3 DEF SentPacket
<1>5. DOMAIN new = DOMAIN t.out
  OBVIOUS
<1>6. new \in Seq(SentPacket)
  <2>1. new = [i \in 1..Len(t.out) |-> new[i]]
    BY <1>2
  <2> HIDE DEF new
  <2> QED BY <1>2, <1>4, <2>1
<1> HIDE DEF new
<1>7. u \in SendLedger /\ u.next = t.next /\ u.cum = t.cum /\ u.fin = t.fin /\ u.high = t.high /\ u.out = new
  <2>1. 0 \in 0..LossThreshold
    BY Constants
  <2> QED BY <1>1, <1>6, <2>1 DEF SendLedger
<1> HIDE DEF u
<1>8. Within(u, t) /\ Outstanding(u) = Outstanding(t)
  BY <1>4, <1>5, <1>7 DEF Within, Outstanding
<1>9. Distinct(t.out) => Distinct(u.out)
  BY <1>4, <1>5, <1>7 DEF Distinct
<1> QED BY <1>7, <1>8, <1>9 DEF u

\* mark_retransmitted keeps every outstanding packet.
LEMMA ResentFacts ==
  ASSUME NEW t \in SendLedger, NEW i \in DOMAIN t.out, t.out[i].tx < MaxTx
  PROVE  LET u == Resent(t, i)
         IN /\ u \in SendLedger /\ u.next = t.next /\ u.cum = t.cum /\ u.fin = t.fin /\ u.high = t.high
            /\ Within(u, t) /\ Outstanding(u) = Outstanding(t)
            /\ Distinct(t.out) => Distinct(u.out)
<1> DEFINE p == t.out[i]
           x == [p EXCEPT !.tx = @ + 1, !.lost = FALSE]
           new == [t.out EXCEPT ![i] = x]
           u == Resent(t, i)
<1>1. t.out \in Seq(SentPacket) /\ DOMAIN t.out = 1..Len(t.out) /\ Len(t.out) \in Nat
  BY DEF SendLedger
<1>2. \A j \in DOMAIN t.out : t.out[j] \in SentPacket
  BY <1>1
<1>3. x \in SentPacket /\ x.seq = p.seq /\ x.kind = p.kind /\ x.pos = p.pos
  <2>1. p \in SentPacket /\ p.tx \in 1..MaxTx /\ MaxTx \in Nat /\ p.tx < MaxTx
    BY <1>2, Constants DEF SentPacket
  <2>2. p.tx + 1 \in 1..MaxTx
    BY <2>1
  <2> HIDE DEF p
  <2> QED BY <2>1, <2>2 DEF SentPacket
<1>4. u = [t EXCEPT !.out = new, !.dup = 0]
  BY <1>2, <1>3 DEF Resent, SendLedger, SentPacket
<1> HIDE DEF x
<1>5. new \in Seq(SentPacket) /\ DOMAIN new = DOMAIN t.out
  BY <1>1, <1>3, ExceptSeq
<1>6. \A j \in DOMAIN t.out : /\ new[j].seq = t.out[j].seq
                              /\ new[j].kind = t.out[j].kind /\ new[j].pos = t.out[j].pos
  BY <1>3
<1> HIDE DEF new
<1>7. u \in SendLedger /\ u.next = t.next /\ u.cum = t.cum /\ u.fin = t.fin /\ u.high = t.high /\ u.out = new
  <2>1. 0 \in 0..LossThreshold
    BY Constants
  <2> QED BY <1>4, <1>5, <2>1 DEF SendLedger
<1> HIDE DEF u
<1>8. Within(u, t) /\ Outstanding(u) = Outstanding(t)
  BY <1>5, <1>6, <1>7 DEF Within, Outstanding
<1>9. Distinct(t.out) => Distinct(u.out)
  BY <1>5, <1>6, <1>7 DEF Distinct
<1> QED BY <1>7, <1>8, <1>9 DEF u

-----------------------------------------------------------------------------
(* What a step keeps. *)

\* e's stream only grows; what e has acknowledged it has not forgotten
Grown(e) ==
  sent[e] <= sent'[e] /\ (send[e].fin => send'[e].fin /\ sent'[e] = sent[e])
Keeps(e) == \A k \in 1..Top(Peer(e)) : Acked(e, k) => Acked(e, k)'

\* The types of one side's state, as the provers use them.
LEMMA SideTypes ==
  ASSUME Types, NEW e \in Side
  PROVE  /\ sent[e] \in Nat /\ written[e] \in Nat /\ closing[e] \in BOOLEAN
         /\ send[e] \in SendLedger /\ send[e].fin \in BOOLEAN /\ send[e].out \in Seq(SentPacket)
         /\ recv[e] \in RecvLedger /\ recv[e].eof \in BOOLEAN /\ recv[e].buf \subseteq HeldPacket
         /\ got[e] \in Seq(Nat) /\ Len(got[e]) \in Nat
         /\ At(e) \in Nat /\ Top(e) \in Nat /\ sent[e] <= Top(e) /\ Top(e) <= sent[e] + 1
<1>1. send[e] \in SendLedger /\ recv[e] \in RecvLedger /\ got[e] \in Seq(Nat)
      /\ sent[e] \in Nat /\ written[e] \in Nat /\ closing[e] \in BOOLEAN
  BY DEF Types
<1>2. send[e].fin \in BOOLEAN /\ send[e].out \in Seq(SentPacket)
      /\ recv[e].eof \in BOOLEAN /\ recv[e].buf \subseteq HeldPacket
  BY <1>1 DEF SendLedger, RecvLedger
<1>3. Len(got[e]) \in Nat
  BY <1>1, LenProperties
<1>4. At(e) \in Nat
  BY <1>3 DEF At
<1>5. Top(e) \in Nat /\ sent[e] <= Top(e) /\ Top(e) <= sent[e] + 1
  BY <1>1 DEF Top
<1> QED BY <1>1, <1>2, <1>3, <1>4, <1>5

\* The same of the state after a step.
LEMMA SideTypesNext ==
  ASSUME Types', NEW e \in Side
  PROVE  /\ sent'[e] \in Nat /\ written'[e] \in Nat /\ closing'[e] \in BOOLEAN
         /\ send'[e] \in SendLedger /\ send'[e].fin \in BOOLEAN /\ send'[e].out \in Seq(SentPacket)
         /\ recv'[e] \in RecvLedger /\ recv'[e].eof \in BOOLEAN /\ recv'[e].buf \subseteq HeldPacket
         /\ got'[e] \in Seq(Nat) /\ Len(got'[e]) \in Nat
         /\ At(e)' \in Nat /\ Top(e)' \in Nat /\ sent'[e] <= Top(e)' /\ Top(e)' <= sent'[e] + 1
<1>1. send'[e] \in SendLedger /\ recv'[e] \in RecvLedger /\ got'[e] \in Seq(Nat)
      /\ sent'[e] \in Nat /\ written'[e] \in Nat /\ closing'[e] \in BOOLEAN
  BY DEF Types, SendLedger, RecvLedger, SentPacket, HeldPacket, Number
<1>2. send'[e].fin \in BOOLEAN /\ send'[e].out \in Seq(SentPacket)
      /\ recv'[e].eof \in BOOLEAN /\ recv'[e].buf \subseteq HeldPacket
  BY <1>1 DEF SendLedger, RecvLedger
<1>3. Len(got'[e]) \in Nat
  BY <1>1, LenProperties
<1>4. At(e)' \in Nat
  BY <1>3 DEF At
<1>5. Top(e)' \in Nat /\ sent'[e] <= Top(e)' /\ Top(e)' <= sent'[e] + 1
  BY <1>1 DEF Top
<1> QED BY <1>1, <1>2, <1>3, <1>4, <1>5

\* What was sent stays what it was when more is sent.
LEMMA StreamKept ==
  ASSUME Types, Types', NEW e \in Side, Grown(e)
  PROVE  /\ Top(e) <= Top(e)'
         /\ \A k \in 0..Top(e) : k \in 0..Top(e)' /\ PacketAt(e, k)' = PacketAt(e, k)
                                 /\ KindAt(e, k)' = KindAt(e, k) /\ PosAt(e, k)' = PosAt(e, k)
<1>1. /\ sent[e] \in Nat /\ send[e].fin \in BOOLEAN /\ sent'[e] \in Nat /\ send'[e].fin \in BOOLEAN
  BY DEF Types, SendLedger
<1>2. Top(e) <= Top(e)' /\ Top(e)' \in Nat /\ Top(e) \in Nat
  BY <1>1 DEF Grown, Top
<1>3. ASSUME NEW k \in 0..Top(e)
      PROVE  k \in 0..Top(e)' /\ KindAt(e, k)' = KindAt(e, k) /\ PosAt(e, k)' = PosAt(e, k)
  BY <1>1, <1>2 DEF Grown, Top, KindAt, PosAt
<1>4. \A k \in 0..Top(e) : PacketAt(e, k)' = PacketAt(e, k)
  BY <1>3 DEF PacketAt
<1> QED BY <1>2, <1>3, <1>4

\* A receiver that is left alone keeps what it has.
LEMMA SameReceiverKeeps ==
  ASSUME Types, Types', NEW e \in Side, Receiving(e), Grown(Peer(e)),
         recv'[e] = recv[e], got'[e] = got[e], Terminal(e)' => Terminal(e),
         Terminal(e) => Terminal(e)'
  PROVE  Keeps(e)
<1> DEFINE s == Peer(e)
<1>0. s \in Side
  BY SidesFacts
<1>1. /\ sent[s] \in Nat /\ send[s].fin \in BOOLEAN /\ sent'[s] \in Nat /\ send'[s].fin \in BOOLEAN
      /\ Len(got[e]) \in Nat
  BY <1>0, SideTypes, SideTypesNext
<1>2. ASSUME NEW k \in 1..Top(s), k <= sent[s] => k # Len(got[e]) + 1
      PROVE  k <= sent'[s] => k # Len(got'[e]) + 1
  BY <1>1, <1>2 DEF Grown, Top
<1>3. ASSUME NEW k \in 1..Top(s), Has(e, k) PROVE Has(e, k)'
  <2>1. recv[e].eof => send[s].fin
    BY DEF Receiving
  <2>2. k = sent[s] + 1 /\ recv[e].eof => k = sent'[s] + 1 /\ recv'[e].eof
    BY <2>1 DEF Grown
  <2> QED BY <1>3, <2>2 DEF Has
<1> QED BY <1>2, <1>3 DEF Keeps, Acked

\* The receive ledger stays one of the stream when only the sender moves.
LEMMA ReceivingKept ==
  ASSUME Types, Types', NEW e \in Side, Receiving(e), Grown(Peer(e)),
         recv'[e] = recv[e], got'[e] = got[e], Established(e)' => Established(e)
  PROVE  Receiving(e)'
<1> DEFINE s == Peer(e)
<1>0. s \in Side
  BY SidesFacts
<1>1. /\ sent[s] \in Nat /\ send[s].fin \in BOOLEAN /\ sent'[s] \in Nat /\ send'[s].fin \in BOOLEAN
      /\ Len(got[e]) \in Nat /\ At(e) \in Nat /\ Top(s) \in Nat /\ Top(s)' \in Nat
  BY <1>0, SideTypes, SideTypesNext
<1>2. At(e)' = At(e)
  BY DEF At
<1>3. Len(got'[e]) <= sent'[s] /\ got'[e] = [i \in 1..Len(got'[e]) |-> i]
  BY <1>1 DEF Receiving, Grown
<1>4. recv'[e].eof => send'[s].fin /\ Len(got'[e]) = sent'[s]
  BY <1>1 DEF Receiving, Grown
<1>5. Established(e)' => recv'[e].ack = Num(s, At(e)')
  BY <1>2 DEF Receiving
<1>6. ASSUME NEW p \in recv'[e].buf
      PROVE  \E k \in At(e)' + 2..Top(s)' : k <= At(e)' + MaxDistance /\ p = PacketAt(s, k)'
  <2>1. PICK k \in At(e) + 2..Top(s) : k <= At(e) + MaxDistance /\ p = PacketAt(s, k)
    BY <1>6 DEF Receiving
  <2>2. k \in 0..Top(s) /\ Top(s) <= Top(s)'
    BY <1>0, <1>1, StreamKept
  <2>3. PacketAt(s, k)' = PacketAt(s, k)
    BY <1>0, <2>2, StreamKept
  <2>4. k \in At(e)' + 2..Top(s)' /\ k <= At(e)' + MaxDistance
    BY <1>1, <1>2, <2>1, <2>2
  <2> QED BY <2>1, <2>3, <2>4
<1>7. Buffered(recv[e])' = Buffered(recv[e])
  BY DEF Buffered
<1>8. Buffered(recv'[e]) <= MaxReceive
  BY <1>7 DEF Receiving, Buffered
<1> QED BY <1>3, <1>4, <1>5, <1>6, <1>8 DEF Receiving

\* A datagram under way stays true while streams grow and receivers keep what they have.
LEMMA DatagramKept ==
  ASSUME Types, Types', \A e \in Side : Grown(e) /\ Keeps(e), NEW p \in Datagram
  PROVE  /\ Carries(p) => Carries(p)'
         /\ Claims(p) => Claims(p)'
<1> DEFINE e == p.from
           s == Peer(p.from)
<1>0. e \in Side /\ s \in Side /\ Peer(s) = e
  BY SidesFacts DEF Datagram
<1>1. \A x \in Side : /\ sent[x] \in Nat /\ sent'[x] \in Nat
                      /\ Top(x) \in Nat /\ Top(x)' \in Nat /\ Top(x) <= Top(x)'
                      /\ send[x].fin => sent'[x] = sent[x] /\ send'[x].fin
                      /\ send'[x].fin \in BOOLEAN /\ send[x].fin \in BOOLEAN
                      /\ sent[x] <= sent'[x]
  <2> TAKE x \in Side
  <2>1. Grown(x)
    OBVIOUS
  <2>2. sent[x] \in Nat /\ sent'[x] \in Nat /\ Top(x) \in Nat /\ Top(x)' \in Nat
        /\ send'[x].fin \in BOOLEAN /\ send[x].fin \in BOOLEAN
    BY SideTypes, SideTypesNext
  <2>3. Top(x) <= Top(x)'
    BY <2>1, StreamKept
  <2> QED BY <2>1, <2>2, <2>3 DEF Grown
<1>2. ASSUME Carries(p) PROVE Carries(p)'
  <2>1. p.kind = "SYN" => p = SynPacket(Initiator)'
    BY <1>2 DEF Carries, SynPacket
  <2>2. p.kind = "DATA" => p.pos \in 1..sent'[e] /\ p.seq = Num(e, p.pos)
    BY <1>0, <1>1, <1>2 DEF Carries
  <2>3. p.kind = "FIN" => send'[e].fin /\ p.pos = 0 /\ p.seq = Num(e, sent'[e] + 1)
    BY <1>0, <1>1, <1>2 DEF Carries
  <2>4. p.kind = "STATE" => \E n \in 1..sent'[e] + 1 : p.seq = Num(e, n)
    <3>1. \A n \in 1..sent[e] + 1 : n \in 1..sent'[e] + 1
      BY <1>0, <1>1
    <3> QED BY <1>2, <3>1 DEF Carries
  <2> QED BY <2>1, <2>2, <2>3, <2>4 DEF Carries
<1>3. ASSUME Claims(p) PROVE Claims(p)'
  <2> SUFFICES ASSUME p.kind # "SYN"
               PROVE  \E x \in 0..Top(s)' :
                        /\ p.ack = Num(s, x)
                        /\ \A o \in p.sack : x + o <= Top(s)'
                        /\ \A k \in 1..Top(s)' : Covers(p, x, k) => Acked(e, k)'
    BY <1>0 DEF Claims
  <2>0. p.sack \subseteq Int
    BY DEF Datagram
  <2>1. PICK x \in 0..Top(s) :
                 /\ p.ack = Num(s, x)
                 /\ \A o \in p.sack : x + o <= Top(s)
                 /\ \A k \in 1..Top(s) : Covers(p, x, k) => Acked(e, k)
    BY <1>3 DEF Claims
  <2>2. x \in 0..Top(s)' /\ x \in Int /\ Top(s) \in Int /\ Top(s)' \in Int /\ Top(s) <= Top(s)'
    BY <1>0, <1>1
  <2>3. ASSUME NEW o \in p.sack PROVE x + o <= Top(s)'
    <3> HIDE DEF s
    <3> QED BY <2>0, <2>1, <2>2
  <2>4. ASSUME NEW k \in 1..Top(s)', Covers(p, x, k)
        PROVE  Acked(e, k)'
    <3>1. k \in 1..Top(s)
      <4> HIDE DEF s
      <4>1. CASE k <= x
        BY <2>2, <4>1
      <4>2. CASE k - x \in p.sack
        <5>1. x + (k - x) <= Top(s)
          BY <2>1, <4>2
        <5> QED BY <2>2, <5>1
      <4> QED BY <2>4, <4>1, <4>2 DEF Covers
    <3>2. Acked(e, k)
      BY <2>1, <2>4, <3>1
    <3>3. Keeps(e)
      BY <1>0
    <3> QED BY <3>1, <3>2, <3>3 DEF Keeps
  <2> QED BY <2>1, <2>2, <2>3, <2>4
<1> QED BY <1>2, <1>3

-----------------------------------------------------------------------------
(* Datagrams that join or leave the network. *)

\* A datagram is sent, or lost at once.
LEMMA EmitFacts ==
  ASSUME Types, NEW p \in Datagram, Emit(p)
  PROVE  /\ net' \subseteq Datagram /\ IsFiniteSet(net') /\ Cardinality(net') <= NetMax
         /\ \A q \in net' : q \in net \/ q = p
<1>1. net \subseteq Datagram /\ IsFiniteSet(net) /\ Cardinality(net) <= NetMax
  BY DEF Types
<1>2. CASE net' = net
  BY <1>1, <1>2
<1>3. CASE Cardinality(net \cup {p}) <= NetMax /\ net' = net \cup {p}
  <2>1. IsFiniteSet(net \cup {p})
    BY <1>1, FS_AddElement
  <2> QED BY <1>1, <1>3, <2>1
<1> QED BY <1>2, <1>3 DEF Emit

\* A datagram arrives, or a copy of it.
LEMMA ArrivesFacts ==
  ASSUME Types, NEW p \in net, net' = net \/ net' = net \ {p}
  PROVE  net' \subseteq Datagram /\ IsFiniteSet(net') /\ Cardinality(net') <= NetMax
         /\ net' \subseteq net
<1>1. net \subseteq Datagram /\ IsFiniteSet(net) /\ Cardinality(net) <= NetMax
  BY DEF Types
<1>2. IsFiniteSet(net \ {p}) /\ Cardinality(net \ {p}) = Cardinality(net) - 1
      /\ Cardinality(net) \in Nat
  BY <1>1, FS_RemoveElement, FS_CardinalityType
<1>3. Cardinality(net \ {p}) <= NetMax
  BY <1>1, <1>2, Constants
<1> QED BY <1>1, <1>2, <1>3

\* what e holds out of order, and the offsets it reports of it
LEMMA SackFacts ==
  ASSUME UtpInv, NEW e \in Side, Established(e)
  PROVE  /\ Sack(recv[e]) \subseteq Int
         /\ At(e) \in 0..Top(Peer(e)) /\ recv[e].ack = Num(Peer(e), At(e))
         /\ \A o \in Sack(recv[e]) :
              /\ At(e) + o <= Top(Peer(e)) /\ o >= 2
              /\ \E q \in recv[e].buf : q = PacketAt(Peer(e), At(e) + o)
<1> DEFINE s == Peer(e)
<1>0. s \in Side
  BY SidesFacts
<1>1. Types /\ Receiving(e)
  BY DEF UtpInv
<1>2. At(e) \in Nat /\ Top(s) \in Nat /\ sent[s] \in Nat /\ Len(got[e]) \in Nat
      /\ send[s].fin \in BOOLEAN
  BY <1>0, <1>1, SideTypes
<1>3. At(e) \in 0..Top(s)
  BY <1>1, <1>2 DEF Receiving, At, Top
<1>4. recv[e].ack = Num(s, At(e))
  BY <1>1 DEF Receiving
<1>5. ASSUME NEW o \in Sack(recv[e])
      PROVE  o \in Int /\ At(e) + o <= Top(s) /\ o >= 2
             /\ \E q \in recv[e].buf : q = PacketAt(s, At(e) + o)
  <2>1. PICK q \in recv[e].buf : o = Distance(q.seq, recv[e].ack)
    BY DEF Sack
  <2>2. PICK k \in At(e) + 2..Top(s) : q = PacketAt(s, k)
    BY <1>1 DEF Receiving
  <2>3. k \in Number /\ At(e) \in Number /\ k >= At(e) + 2
    BY <1>0, <1>1, <1>2, <1>3, StreamFits DEF Number
  <2>4. q.seq = Num(s, k)
    BY <2>2 DEF PacketAt
  <2>5. o = k - At(e)
    BY <1>0, <1>4, <2>1, <2>3, <2>4, Places DEF Number
  <2>6. At(e) + o = k
    BY <2>3, <2>5, <1>2 DEF Number
  <2> QED BY <1>2, <2>2, <2>3, <2>5, <2>6 DEF Number
<1> QED BY <1>3, <1>4, <1>5

\* The acknowledgement a side gives now names only what it has.
LEMMA NewClaims ==
  ASSUME UtpInv, NEW e \in Side, Established(e), NEW p, p.from = e, p.ack = recv[e].ack,
         p.sack \subseteq Sack(recv[e])
  PROVE  Claims(p)
<1> DEFINE s == Peer(e)
           x == At(e)
<1>0. s \in Side /\ Peer(s) = e
  BY SidesFacts
<1>1. Types /\ Receiving(e)
  BY DEF UtpInv
<1>2. At(e) \in Nat /\ Top(s) \in Nat /\ sent[s] \in Nat /\ Len(got[e]) \in Nat
      /\ send[s].fin \in BOOLEAN /\ recv[e].eof \in BOOLEAN
  BY <1>0, <1>1, SideTypes
<1>3. x \in 0..Top(s) /\ p.ack = Num(s, x)
  BY SackFacts
<1>4. \A o \in p.sack : x + o <= Top(s)
  BY SackFacts
<1>5. ASSUME NEW k \in 1..Top(s), Covers(p, x, k)
      PROVE  Acked(e, k)
  <2>1. CASE k <= x
    <3>1. recv[e].eof => Len(got[e]) = sent[s]
      BY <1>1 DEF Receiving
    <3>2. k <= sent[s] => k # Len(got[e]) + 1
      BY <1>2, <2>1, <3>1 DEF At
    <3>3. k <= Len(got[e]) \/ (k = sent[s] + 1 /\ recv[e].eof)
      BY <1>2, <2>1, <3>1 DEF At
    <3> QED BY <3>2, <3>3 DEF Acked, Has
  <2>2. CASE k - x \in p.sack
    <3>1. k - x \in Sack(recv[e])
      BY <2>2
    <3>2. k - x >= 2 /\ x + (k - x) <= Top(s)
          /\ \E q \in recv[e].buf : q = PacketAt(s, x + (k - x))
      BY <3>1, SackFacts
    <3>3. x + (k - x) = k /\ k >= x + 2
      BY <1>2, <3>2
    <3>4. PICK q \in recv[e].buf : q = PacketAt(s, k)
      BY <3>2, <3>3
    <3>5. q.seq = Num(s, k)
      BY <3>4 DEF PacketAt
    <3>6. k # Len(got[e]) + 1
      BY <1>2, <3>3 DEF At
    <3> QED BY <3>5, <3>6 DEF Acked, Has
  <2> QED BY <1>5, <2>1, <2>2 DEF Covers
<1>6. \E y \in 0..Top(s) : /\ p.ack = Num(s, y)
                           /\ \A o \in p.sack : y + o <= Top(s)
                           /\ \A k \in 1..Top(s) : Covers(p, y, k) => Acked(e, k)
  BY <1>3, <1>4, <1>5
<1> QED BY <1>6 DEF Claims

\* What a receiver holds are places of its peer's stream beyond the first it lacks.
LEMMA HeldOf ==
  ASSUME Types, NEW e \in Side, Receiving(e)
  PROVE  /\ HeldFrom(Peer(e), At(e), recv[e].buf) /\ At(e) <= Top(Peer(e))
         /\ IsFiniteSet(recv[e].buf) /\ Cardinality(recv[e].buf) <= MaxReorder
         /\ Buffered(recv[e]) \in Nat
<1> DEFINE s == Peer(e)
<1>0. s \in Side
  BY SidesFacts
<1>1. At(e) \in Nat /\ Top(s) \in Nat /\ sent[s] \in Nat /\ Len(got[e]) \in Nat
      /\ send[s].fin \in BOOLEAN /\ recv[e] \in RecvLedger
  BY <1>0, SideTypes
<1>2. HeldFrom(s, At(e), recv[e].buf)
  BY DEF Receiving, HeldFrom
<1>3. At(e) <= Top(s)
  BY <1>1 DEF Receiving, At, Top
<1>4. IsFiniteSet(recv[e].buf) /\ Cardinality(recv[e].buf) <= MaxReorder
  BY <1>0, <1>1, <1>2, <1>3, HeldFinite
<1>5. IsFiniteSet({p \in recv[e].buf : p.kind = "DATA"})
  BY <1>4, FS_Subset
<1>6. Cardinality({p \in recv[e].buf : p.kind = "DATA"}) \in Nat
  BY <1>5, FS_CardinalityType
<1>7. recv[e].unread \in Nat
  BY <1>1 DEF RecvLedger
<1>8. Buffered(recv[e]) \in Nat
  BY <1>6, <1>7 DEF Buffered
<1> QED BY <1>2, <1>3, <1>4, <1>8

\* A packet that outbound_sequence_intent makes.
LEMMA PacketFacts ==
  ASSUME UtpInv, NEW e \in Side, Established(e), NEW kind \in Kind, NEW n \in Number,
         NEW pos \in Nat, NEW sack \in {Sack(recv[e]), {}}
  PROVE  /\ Packet(e, kind, n, pos, sack) \in Datagram
         /\ Packet(e, kind, n, pos, sack).from = e /\ Packet(e, kind, n, pos, sack).kind = kind
         /\ Packet(e, kind, n, pos, sack).seq = n /\ Packet(e, kind, n, pos, sack).pos = pos
         /\ Claims(Packet(e, kind, n, pos, sack))
<1> DEFINE p == Packet(e, kind, n, pos, sack)
<1>1. Types /\ Receiving(e)
  BY DEF UtpInv
<1>2. sack \subseteq Int /\ sack \subseteq Sack(recv[e])
  BY SackFacts
<1>3. AdvertisedWindow(recv[e]) \in Int
  BY <1>1, HeldOf, Constants DEF AdvertisedWindow
<1>4. recv[e].ack \in Number
  BY <1>1, SideTypes DEF RecvLedger
<1>5. p.from = e /\ p.ack = recv[e].ack /\ p.sack = sack /\ p.kind = kind /\ p.seq = n /\ p.pos = pos
  BY DEF Packet
<1>6. p \in Datagram
  BY <1>2, <1>3, <1>4 DEF Packet, Datagram
<1>7. Claims(p)
  <2> HIDE DEF p
  <2> QED BY <1>2, <1>5, NewClaims
<1> QED BY <1>5, <1>6, <1>7

\* The packet that syn_intent makes.
LEMMA SynFacts ==
  /\ SynPacket(Initiator) \in Datagram /\ Carries(SynPacket(Initiator))
  /\ Claims(SynPacket(Initiator))
<1>1. SynPacket(Initiator) \in Datagram
  BY Constants, SidesFacts DEF SynPacket, Datagram, Kind, Number
<1>2. SynPacket(Initiator).kind = "SYN"
  BY DEF SynPacket
<1> QED BY <1>1, <1>2 DEF Carries, Claims

-----------------------------------------------------------------------------
(* What a step has to show. *)

\* LetGo is kept when a sender releases only what its peer has.
LEMMA LetGoKept ==
  ASSUME Types, Types', NEW e \in Side, LetGo(e), Keeps(Peer(e)), Terminal(e) => Terminal(e)',
         \A k \in 1..Top(e)' : Num(e, k) \notin Outstanding(send'[e]) =>
            \/ k <= Top(e) /\ Num(e, k) \notin Outstanding(send[e])
            \/ k <= Top(e) /\ Acked(Peer(e), k)
  PROVE  LetGo(e)'
<1>0. Top(e) \in Nat /\ Top(e)' \in Nat /\ Peer(Peer(e)) = e
  BY SideTypes, SideTypesNext, SidesFacts
<1> SUFFICES ASSUME ~Terminal(e), NEW k \in 1..Top(e)', Num(e, k) \notin Outstanding(send'[e])
             PROVE  Acked(Peer(e), k)'
  BY DEF LetGo, Outstanding
<1>1. k \in 1..Top(e) /\ Acked(Peer(e), k)
  BY <1>0 DEF LetGo
<1> QED BY <1>0, <1>1 DEF Keeps

\* The parts of the invariant after a step give the whole.
LEMMA StepKeeps ==
  ASSUME UtpInv, Types', \A e \in Side : Grown(e) /\ Keeps(e),
         \A e \in Side : Course(e)' /\ Sending(e)' /\ Receiving(e)' /\ LetGo(e)',
         \A p \in net' : p \in net \/ (Carries(p)' /\ Claims(p)'),
         WorkIsOutstanding'
  PROVE  UtpInv'
<1>1. Types /\ net \subseteq Datagram
  BY DEF UtpInv, Types
<1>2. ASSUME NEW p \in net' PROVE Carries(p)' /\ Claims(p)'
  <2>1. CASE p \in net
    <3>1. Carries(p) /\ Claims(p) /\ p \in Datagram
      BY <1>1, <2>1 DEF UtpInv
    <3> QED BY <1>1, <3>1, DatagramKept
  <2> QED BY <2>1
<1> QED BY <1>2 DEF UtpInv

\* sides whose ledgers a step leaves alone
SameSide(e) ==
  /\ phase'[e] = phase[e] /\ send'[e] = send[e] /\ recv'[e] = recv[e] /\ retx'[e] = retx[e]
  /\ flight'[e] = flight[e] /\ (ackDue'[e] => ackDue[e]) /\ closing'[e] = closing[e]
  /\ written'[e] = written[e] /\ sent'[e] = sent[e] /\ got'[e] = got[e]

\* A side that is left alone is where it was.
LEMMA SameCourse ==
  ASSUME NEW e \in Side, SameSide(e), Course(e), Sending(e), ackDue'[e] \in BOOLEAN
  PROVE  Course(e)' /\ Sending(e)'
<1>1. Course(e)'
  BY DEF SameSide, Course, Terminal, Established
<1>2. Sending(e)'
  BY DEF SameSide, Sending, Terminal, Top, KindAt, PosAt
<1> QED BY <1>1, <1>2

WorkOf(e) == Queued(retx[e]) \subseteq Outstanding(send[e]) /\ flight[e] \subseteq Outstanding(send[e])

\* WorkIsOutstanding, side by side.
LEMMA WorkKept ==
  /\ UtpInv => \A e \in Side : WorkOf(e)
  /\ (\A e \in Side : WorkOf(e)') => WorkIsOutstanding'
  /\ \A e \in Side : SameSide(e) /\ WorkOf(e) => WorkOf(e)'
<1>1. UtpInv => \A e \in Side : WorkOf(e)
  BY DEF UtpInv, WorkIsOutstanding, WorkOf, Queued
<1>2. (\A e \in Side : WorkOf(e)') => WorkIsOutstanding'
  BY DEF WorkIsOutstanding, WorkOf, Queued
<1>3. ASSUME NEW e \in Side, SameSide(e), WorkOf(e) PROVE WorkOf(e)'
  BY <1>3 DEF SameSide, WorkOf, Queued, Outstanding
<1> QED BY <1>1, <1>2, <1>3

\* The stream of a side that is left alone has not changed.
LEMMA SameGrown ==
  ASSUME Types, NEW e \in Side, SameSide(e)
  PROVE  Grown(e)
BY SideTypes DEF SameSide, Grown

\* A step of e that sends, or queues, and leaves what it has received alone.
LEMMA SendStep ==
  ASSUME UtpInv, Types', NEW e \in Side, SameSide(Peer(e)),
         recv'[e] = recv[e], got'[e] = got[e],
         Terminal(e)' <=> Terminal(e), Established(e)' => Established(e),
         Grown(e), Course(e)', Sending(e)', WorkOf(e)',
         \A k \in 1..Top(e)' : Num(e, k) \notin Outstanding(send'[e]) =>
            k <= Top(e) /\ Num(e, k) \notin Outstanding(send[e]),
         \A p \in net' : p \in net \/ (p \in Datagram /\ Carries(p)' /\ Claims(p))
  PROVE  UtpInv'
<1> DEFINE s == Peer(e)
<1>0. s \in Side /\ Peer(s) = e /\ \A f \in Side : f = e \/ f = s
  BY SidesFacts
<1>1. Types /\ Course(s) /\ Sending(s) /\ Receiving(s) /\ LetGo(s) /\ Receiving(e) /\ LetGo(e)
  BY <1>0 DEF UtpInv
<1>2. Grown(s)
  BY <1>0, <1>1, SameGrown
<1>3. Keeps(e)
  BY <1>0, <1>1, <1>2, SameReceiverKeeps
<1>4. Keeps(s)
  <2>1. recv'[s] = recv[s] /\ got'[s] = got[s] /\ (Terminal(s)' <=> Terminal(s))
    BY DEF SameSide, Terminal
  <2> QED BY <1>0, <1>1, <2>1, SameReceiverKeeps
<1>5. Course(s)' /\ Sending(s)'
  <2>1. ackDue'[s] \in BOOLEAN
    BY <1>0 DEF Types
  <2> QED BY <1>0, <1>1, <2>1, SameCourse
<1>6. Receiving(e)'
  BY <1>0, <1>1, <1>2, ReceivingKept
<1>7. Receiving(s)'
  <2>1. recv'[s] = recv[s] /\ got'[s] = got[s] /\ (Established(s)' => Established(s))
    BY DEF SameSide, Established
  <2> QED BY <1>0, <1>1, <2>1, ReceivingKept
<1>8. LetGo(e)'
  BY <1>0, <1>1, <1>4, LetGoKept
<1>9. LetGo(s)'
  <2>1. send'[s] = send[s] /\ sent'[s] = sent[s] /\ (Terminal(s) => Terminal(s)')
    BY DEF SameSide, Terminal
  <2>2. Top(s)' = Top(s) /\ Top(s) \in Nat
    BY <1>0, <1>1, <2>1, SideTypes DEF Top
  <2>3. \A k \in 1..Top(s)' : Num(s, k) \notin Outstanding(send'[s]) =>
            k <= Top(s) /\ Num(s, k) \notin Outstanding(send[s])
    BY <2>1, <2>2
  <2> QED BY <1>0, <1>1, <1>3, <2>1, <2>3, LetGoKept
<1>10. WorkIsOutstanding'
  BY <1>0, WorkKept
<1>11. ASSUME NEW p \in net' PROVE p \in net \/ (Carries(p)' /\ Claims(p)')
  <2>1. ASSUME p \in Datagram, Claims(p) PROVE Claims(p)'
    BY <1>0, <1>1, <1>2, <1>3, <1>4, <2>1, DatagramKept
  <2> QED BY <2>1
<1>12. /\ \A f \in Side : Grown(f) /\ Keeps(f)
       /\ \A f \in Side : Course(f)' /\ Sending(f)' /\ Receiving(f)' /\ LetGo(f)'
  <2> HIDE DEF s
  <2> QED BY <1>0, <1>2, <1>3, <1>4, <1>5, <1>6, <1>7, <1>8, <1>9
<1> QED BY <1>10, <1>11, <1>12, StepKeeps

\* The empty ledgers of release_terminal_ownership.
LEMMA ReleasedLedgers ==
  ASSUME NEW t \in SendLedger, NEW r \in RecvLedger
  PROVE  /\ [t EXCEPT !.out = <<>>, !.dup = 0] \in SendLedger
         /\ [r EXCEPT !.buf = {}, !.unread = 0, !.fin = None, !.eof = FALSE] \in RecvLedger
<1>1. <<>> \in Seq(SentPacket) /\ 0 \in 0..LossThreshold
  BY EmptySeq, Constants
<1>2. [t EXCEPT !.out = <<>>, !.dup = 0] \in SendLedger
  BY <1>1 DEF SendLedger
<1>3. {} \in SUBSET HeldPacket /\ None \in {None} \cup Number /\ FALSE \in BOOLEAN /\ 0 \in Nat
  OBVIOUS
<1>4. [r EXCEPT !.buf = {}, !.unread = 0, !.fin = None, !.eof = FALSE] \in RecvLedger
  BY <1>3, Zenon DEF RecvLedger
<1> QED BY <1>2, <1>4

\* e's connection ends.
LEMMA ReleaseStep ==
  ASSUME UtpInv, NEW e \in Side, phase[e] # "None", NEW last \in {"Closed", "Reset"},
         Release(e, last), UNCHANGED <<written, sent, got>>,
         net' \subseteq Datagram /\ IsFiniteSet(net') /\ Cardinality(net') <= NetMax,
         \A p \in net' : p \in net \/ (Carries(p) /\ Claims(p))
  PROVE  UtpInv'
<1> DEFINE s == Peer(e)
<1>0. s \in Side /\ Peer(s) = e /\ s # e /\ \A f \in Side : f = e \/ f = s
  BY SidesFacts
<1>1. Types /\ Course(s) /\ Sending(s) /\ Receiving(s) /\ LetGo(s) /\ Receiving(e) /\ LetGo(e)
      /\ Course(e) /\ Sending(e)
  BY <1>0 DEF UtpInv
<1>2. SameSide(s) /\ phase'[e] = last
  BY <1>0, <1>1 DEF Release, SameSide, Types
<1>3. /\ send'[e] = [send[e] EXCEPT !.out = <<>>, !.dup = 0]
      /\ recv'[e] = [recv[e] EXCEPT !.buf = {}, !.unread = 0, !.fin = None, !.eof = FALSE]
      /\ retx'[e] = <<>> /\ flight'[e] = {} /\ ackDue'[e] = FALSE /\ closing'[e] = TRUE
  BY <1>1 DEF Release, Types
<1>4. send'[e] \in SendLedger /\ recv'[e] \in RecvLedger
  <2>1. send[e] \in SendLedger /\ recv[e] \in RecvLedger
    BY <1>1, SideTypes
  <2> QED BY <1>3, <2>1, ReleasedLedgers
<1>5. /\ send'[e].next = send[e].next /\ send'[e].fin = send[e].fin /\ send'[e].out = <<>>
      /\ recv'[e].buf = {} /\ recv'[e].unread = 0 /\ ~recv'[e].eof
  <2>1. send[e] \in SendLedger /\ recv[e] \in RecvLedger
    BY <1>1, SideTypes
  <2> QED BY <1>3, <2>1 DEF SendLedger, RecvLedger
<1>6. Types'
  <2>1. \A f \in Side : send'[f] \in SendLedger /\ recv'[f] \in RecvLedger
    <3>1. send'[s] \in SendLedger /\ recv'[s] \in RecvLedger
      BY <1>0, <1>1, <1>2, SideTypes DEF SameSide
    <3> HIDE DEF s
    <3> QED BY <1>0, <1>4, <3>1
  <2>2. send' \in [Side -> SendLedger]
    <3>1. DOMAIN send' = Side /\ send' = [x \in Side |-> send'[x]]
      BY <1>1 DEF Types, Release
    <3> QED BY <2>1, <3>1
  <2>3. recv' \in [Side -> RecvLedger]
    <3>1. DOMAIN recv' = Side /\ recv' = [x \in Side |-> recv'[x]]
      BY <1>1 DEF Types, Release
    <3> QED BY <2>1, <3>1
  <2>4. phase' \in [Side -> {"None", "SynSent", "Connected", "LocalFinSent",
                             "RemoteFinReceived", "Closing", "Reset", "Closed"}]
    BY <1>1 DEF Types, Release
  <2>5. retx' \in [Side -> Seq([seq : Number, fast : BOOLEAN])]
    <3>1. <<>> \in Seq([seq : Number, fast : BOOLEAN])
      BY EmptySeq
    <3> QED BY <1>1, <3>1 DEF Types, Release
  <2>6. flight' \in [Side -> SUBSET Number]
    BY <1>1 DEF Types, Release
  <2>7. ackDue' \in [Side -> BOOLEAN] /\ synDue' \in BOOLEAN /\ closing' \in [Side -> BOOLEAN]
    BY <1>1 DEF Types, Release
  <2> QED BY <1>1, <2>2, <2>3, <2>4, <2>5, <2>6, <2>7 DEF Types
<1>7. Terminal(e)' /\ ~Established(e)'
  BY <1>2 DEF Terminal, Established
<1>8. Course(e)'
  <2>1. written'[e] = written[e] /\ sent'[e] = sent[e] /\ got'[e] = got[e]
    OBVIOUS
  <2>2. phase'[e] \notin {"None", "SynSent"}
    BY <1>2
  <2>3. send[e].fin => sent[e] = written[e]
    BY <1>1 DEF Course
  <2>4. e = Acceptor /\ got[e] = <<>> => written[e] = 0 /\ ~send[e].fin
    BY <1>1 DEF Course
  <2> QED BY <1>3, <1>5, <1>7, <2>1, <2>2, <2>3, <2>4 DEF Course
<1>9. Sending(e)'
  <2>1. send'[e].next = Num(e, sent'[e] + 1)
    BY <1>1, <1>5 DEF Sending
  <2>2. DOMAIN send'[e].out = {}
    BY <1>5
  <2> QED BY <1>7, <2>1, <2>2 DEF Sending
<1>10. Receiving(e)'
  <2>1. Buffered(recv'[e]) <= MaxReceive
    <3>1. {p \in recv'[e].buf : p.kind = "DATA"} = {}
      BY <1>5
    <3> QED BY <1>5, <3>1, FS_EmptySet, Constants DEF Buffered
  <2>2. sent'[s] = sent[s] /\ got'[e] = got[e]
    OBVIOUS
  <2>3. got[e] = [i \in 1..Len(got[e]) |-> i] /\ Len(got[e]) <= sent[s]
    BY <1>1 DEF Receiving
  <2> QED BY <1>5, <1>7, <2>1, <2>2, <2>3 DEF Receiving
<1>11. Grown(e) /\ Grown(s)
  <2>1. Grown(s)
    BY <1>0, <1>1, <1>2, SameGrown
  <2>2. sent'[e] = sent[e] /\ sent[e] \in Nat
    BY <1>1, SideTypes
  <2> QED BY <1>5, <2>1, <2>2 DEF Grown
<1>12. Keeps(e)
  <2>1. got'[e] = got[e] /\ sent'[s] = sent[s]
    OBVIOUS
  <2> QED BY <1>7, <2>1 DEF Keeps, Acked
<1>13. Keeps(s)
  <2>1. recv'[s] = recv[s] /\ got'[s] = got[s] /\ (Terminal(s)' <=> Terminal(s))
    BY <1>2 DEF SameSide, Terminal
  <2> QED BY <1>0, <1>1, <1>6, <1>11, <2>1, SameReceiverKeeps
<1>14. Course(s)' /\ Sending(s)'
  <2>1. ackDue'[s] \in BOOLEAN
    BY <1>0, <1>6 DEF Types
  <2> QED BY <1>0, <1>1, <1>2, <2>1, SameCourse
<1>15. Receiving(s)'
  <2>1. recv'[s] = recv[s] /\ got'[s] = got[s] /\ (Established(s)' => Established(s))
    BY <1>2 DEF SameSide, Established
  <2> QED BY <1>0, <1>1, <1>6, <1>11, <2>1, ReceivingKept
<1>16. LetGo(e)'
  BY <1>7 DEF LetGo
<1>17. LetGo(s)'
  <2>1. send'[s] = send[s] /\ sent'[s] = sent[s] /\ (Terminal(s) => Terminal(s)')
    BY <1>2 DEF SameSide, Terminal
  <2>2. Top(s)' = Top(s) /\ Top(s) \in Nat
    BY <1>0, <1>1, <2>1, SideTypes DEF Top
  <2>3. \A k \in 1..Top(s)' : Num(s, k) \notin Outstanding(send'[s]) =>
            k <= Top(s) /\ Num(s, k) \notin Outstanding(send[s])
    BY <2>1, <2>2
  <2> QED BY <1>0, <1>1, <1>6, <1>12, <2>1, <2>3, LetGoKept
<1>18. WorkIsOutstanding'
  <2>1. WorkOf(e)'
    BY <1>3 DEF WorkOf, Queued
  <2> QED BY <1>0, <1>2, <2>1, WorkKept
<1>19. ASSUME NEW p \in net' PROVE p \in net \/ (Carries(p)' /\ Claims(p)')
  <2>1. ASSUME Carries(p), Claims(p) PROVE Carries(p)' /\ Claims(p)'
    BY <1>0, <1>1, <1>6, <1>11, <1>12, <1>13, <2>1, DatagramKept
  <2> QED BY <2>1
<1>20. /\ \A f \in Side : Grown(f) /\ Keeps(f)
       /\ \A f \in Side : Course(f)' /\ Sending(f)' /\ Receiving(f)' /\ LetGo(f)'
  <2> HIDE DEF s
  <2> QED BY <1>0, <1>8, <1>9, <1>10, <1>11, <1>12, <1>13, <1>14, <1>15, <1>16, <1>17
<1> QED BY <1>6, <1>18, <1>19, <1>20, StepKeeps

-----------------------------------------------------------------------------
(* The steps of a sender. *)

\* The send ledger stays one of the stream when packets only leave it.
LEMMA SendingKept ==
  ASSUME NEW e \in Side, Sending(e), send'[e].next = send[e].next, send'[e].fin = send[e].fin,
         sent'[e] = sent[e], Within(send'[e], send[e]), Distinct(send'[e].out),
         ~Terminal(e)' =>
            IF phase'[e] = "SynSent" THEN send'[e].cum = Add(Iss[e], Modulus - 1)
            ELSE \E c \in 0..Top(e) : send'[e].cum = Num(e, c)
  PROVE  Sending(e)'
<1>1. Top(e)' = Top(e)
  BY DEF Top
<1>2. \A k : KindAt(e, k)' = KindAt(e, k) /\ PosAt(e, k)' = PosAt(e, k)
  BY DEF KindAt, PosAt
<1>3. ASSUME NEW i \in DOMAIN send'[e].out
      PROVE  \E k \in First(e)..Top(e)' :
                /\ send'[e].out[i].seq = Num(e, k)
                /\ send'[e].out[i].kind = KindAt(e, k)' /\ send'[e].out[i].pos = PosAt(e, k)'
  <2>1. PICK j \in DOMAIN send[e].out :
          /\ send'[e].out[i].seq = send[e].out[j].seq /\ send'[e].out[i].kind = send[e].out[j].kind
          /\ send'[e].out[i].pos = send[e].out[j].pos
    BY DEF Within
  <2>2. PICK k \in First(e)..Top(e) :
          /\ send[e].out[j].seq = Num(e, k)
          /\ send[e].out[j].kind = KindAt(e, k) /\ send[e].out[j].pos = PosAt(e, k)
    BY DEF Sending
  <2> QED BY <1>1, <1>2, <2>1, <2>2
<1>4. \A i, j \in DOMAIN send'[e].out : send'[e].out[i].seq = send'[e].out[j].seq => i = j
  BY DEF Distinct
<1>5. send'[e].next = Num(e, sent'[e] + 1)
  BY DEF Sending
<1> QED BY <1>1, <1>3, <1>4, <1>5 DEF Sending

\* Outstanding packets have sequence numbers; an empty ledger has no part that is not.
LEMMA LedgerNumbers ==
  ASSUME NEW t \in SendLedger
  PROVE  /\ Outstanding(t) \subseteq Number
         /\ \A u \in SendLedger : Within(u, t) /\ t.out = <<>> => u.out = <<>>
<1>1. t.out \in Seq(SentPacket)
  BY DEF SendLedger
<1>2. \A i \in DOMAIN t.out : t.out[i].seq \in Number
  <2>1. \A i \in DOMAIN t.out : t.out[i] \in SentPacket
    BY <1>1
  <2> QED BY <2>1 DEF SentPacket
<1>3. ASSUME NEW u \in SendLedger, Within(u, t), t.out = <<>> PROVE u.out = <<>>
  <2>1. u.out \in Seq(SentPacket)
    BY DEF SendLedger
  <2>2. DOMAIN u.out = {}
    BY <1>3 DEF Within
  <2>3. Len(u.out) \in Nat /\ DOMAIN u.out = 1..Len(u.out)
    BY <2>1, LenProperties
  <2>4. Len(u.out) = 0
    <3>1. 1 \notin 1..Len(u.out)
      BY <2>2, <2>3
    <3> QED BY <2>3, <3>1
  <2> QED BY <2>1, <2>4, EmptySeq
<1> QED BY <1>2, <1>3 DEF Outstanding

\* The cumulative acknowledgement is still a place of the stream when it is left alone.
LEMMA CumKept ==
  ASSUME NEW e \in Side, Sending(e), phase'[e] = phase[e], send'[e].cum = send[e].cum
  PROVE  ~Terminal(e)' =>
            IF phase'[e] = "SynSent" THEN send'[e].cum = Add(Iss[e], Modulus - 1)
            ELSE \E c \in 0..Top(e) : send'[e].cum = Num(e, c)
BY DEF Sending, Terminal

\* e's ledger keeps its packets; what e has received is left alone.
LEMMA QuietStep ==
  ASSUME UtpInv, NEW e \in Side,
         NEW u \in SendLedger, send' = [send EXCEPT ![e] = u], u.next = send[e].next,
         u.cum = send[e].cum, u.fin = send[e].fin, u.high = send[e].high, Within(u, send[e]), Distinct(u.out),
         Outstanding(u) = Outstanding(send[e]),
         NEW q \in Seq(Work), retx' = [retx EXCEPT ![e] = q], Queued(q) \subseteq Outstanding(u),
         NEW fl, flight' = [flight EXCEPT ![e] = fl], fl \subseteq Outstanding(u),
         ackDue' \in [Side -> BOOLEAN], \A f \in Side : ackDue'[f] => ackDue[f],
         synDue' \in BOOLEAN, UNCHANGED <<phase, recv, appVars, got>>,
         net' \subseteq Datagram, IsFiniteSet(net'), Cardinality(net') <= NetMax,
         \A p \in net' : p \in net \/ (Carries(p) /\ Claims(p))
  PROVE  UtpInv'
<1> DEFINE s == Peer(e)
<1>0. s \in Side /\ Peer(s) = e /\ s # e
  BY SidesFacts
<1>1. Types /\ Course(e) /\ Sending(e)
  BY DEF UtpInv
<1>2. fl \subseteq Number
  BY LedgerNumbers
<1>3. send'[e] = u /\ retx'[e] = q /\ flight'[e] = fl
  BY <1>1 DEF Types
<1>4. Types'
  <2>1. send' \in [Side -> SendLedger]
    BY <1>1 DEF Types
  <2>2. retx' \in [Side -> Seq([seq : Number, fast : BOOLEAN])]
    BY <1>1 DEF Types, Work
  <2>3. flight' \in [Side -> SUBSET Number]
    BY <1>1, <1>2 DEF Types
  <2> QED BY <1>1, <2>1, <2>2, <2>3 DEF Types, appVars
<1>5. SameSide(s)
  BY <1>0, <1>1 DEF SameSide, Types, appVars
<1>6. sent'[e] = sent[e] /\ sent[e] \in Nat /\ written'[e] = written[e] /\ closing'[e] = closing[e]
      /\ recv'[e] = recv[e] /\ got'[e] = got[e] /\ phase'[e] = phase[e]
  BY <1>1, SideTypes DEF appVars
<1>7. Grown(e) /\ Top(e)' = Top(e) /\ Top(e) \in Nat
  BY <1>1, <1>3, <1>6, SideTypes DEF Grown, Top
<1>8. Course(e)'
  <2>1. send[e].out = <<>> => send'[e].out = <<>>
    BY <1>1, <1>3, LedgerNumbers, SideTypes
  <2>2. ackDue'[e] => ackDue[e]
    OBVIOUS
  <2> QED BY <1>1, <1>3, <1>6, <2>1, <2>2 DEF Course, Terminal, Established
<1>9. Sending(e)'
  BY <1>1, <1>3, <1>6, CumKept, SendingKept
<1>10. WorkOf(e)'
  <2>1. Queued(retx'[e]) \subseteq Outstanding(send'[e]) /\ flight'[e] \subseteq Outstanding(send'[e])
    BY <1>3
  <2> QED BY <2>1 DEF WorkOf
<1>11. \A p \in net' : p \in net \/ (p \in Datagram /\ Carries(p)' /\ Claims(p))
  <2>1. \A f \in Side : sent'[f] = sent[f] /\ send'[f].fin = send[f].fin
    BY <1>1, <1>3 DEF Types, appVars
  <2>2. ASSUME NEW p \in net', p \notin net PROVE p \in Datagram /\ Carries(p)' /\ Claims(p)
    <3>1. Carries(p) /\ Claims(p) /\ p \in Datagram
      BY <2>2
    <3>2. p.from \in Side
      BY <3>1 DEF Datagram
    <3>3. Carries(p)'
      BY <2>1, <3>1, <3>2 DEF Carries, SynPacket
    <3> QED BY <3>1, <3>3
  <2> QED BY <2>2
<1>12. \A k \in 1..Top(e)' : Num(e, k) \notin Outstanding(send'[e]) =>
            k <= Top(e) /\ Num(e, k) \notin Outstanding(send[e])
  BY <1>3, <1>7
<1>13. (Terminal(e)' <=> Terminal(e)) /\ (Established(e)' => Established(e))
  BY <1>6 DEF Terminal, Established
<1> QED BY <1>4, <1>5, <1>6, <1>7, <1>8, <1>9, <1>10, <1>11, <1>12, <1>13, SendStep

\* process_timeout keeps the invariant.
LEMMA StepTimeout ==
  ASSUME UtpInv, NEW e \in Side, Timeout(e)
  PROVE  UtpInv'
<1> DEFINE u == TimedOut(send[e])
           q == Schedule(retx[e], u, Outstanding(u), FALSE)
           fl == flight[e] \ Outstanding(u)
<1>1. Types /\ Sending(e) /\ send[e] \in SendLedger
  BY SideTypes DEF UtpInv
<1>2. Distinct(send[e].out)
  BY <1>1 DEF Sending, Distinct
<1>3. /\ u \in SendLedger /\ u.next = send[e].next /\ u.cum = send[e].cum /\ u.fin = send[e].fin /\ u.high = send[e].high
      /\ Within(u, send[e]) /\ Outstanding(u) = Outstanding(send[e]) /\ Distinct(u.out)
  BY <1>1, <1>2, TimedOutFacts
<1>4. retx[e] \in Seq(Work) /\ Queued(retx[e]) \subseteq Outstanding(send[e])
      /\ flight[e] \subseteq Outstanding(send[e])
  BY <1>1, WorkKept DEF WorkOf, Types, Work
<1>5. q \in Seq(Work) /\ Queued(q) \subseteq Outstanding(u)
  BY <1>3, <1>4, ScheduleFacts
<1>6. fl \subseteq Outstanding(u)
  BY <1>3, <1>4
<1>7. /\ send' = [send EXCEPT ![e] = u] /\ retx' = [retx EXCEPT ![e] = q]
      /\ flight' = [flight EXCEPT ![e] = fl]
      /\ UNCHANGED <<phase, recv, ackDue, synDue, appVars, got, net>>
  BY DEF Timeout
<1>8. /\ ackDue' \in [Side -> BOOLEAN] /\ (\A f \in Side : ackDue'[f] => ackDue[f])
      /\ synDue' \in BOOLEAN /\ net' \subseteq Datagram /\ IsFiniteSet(net')
      /\ Cardinality(net') <= NetMax /\ net' = net
  BY <1>1, <1>7 DEF Types
<1> HIDE DEF u, q, fl
<1> QED BY <1>3, <1>5, <1>6, <1>7, <1>8, QuietStep

\* Sending a true datagram keeps the invariant.
LEMMA StepEmitOnly ==
  ASSUME UtpInv, NEW e \in Side, UNCHANGED <<phase, sendVars, recv, appVars, got>>,
         ackDue' \in [Side -> BOOLEAN], \A f \in Side : ackDue'[f] => ackDue[f],
         synDue' \in BOOLEAN, NEW p \in Datagram, Emit(p), Carries(p), Claims(p)
  PROVE  UtpInv'
<1>1. Types /\ Sending(e) /\ send[e] \in SendLedger
  BY SideTypes DEF UtpInv
<1>2. Distinct(send[e].out) /\ Within(send[e], send[e])
  BY <1>1 DEF Sending, Distinct, Within
<1>3. retx[e] \in Seq(Work) /\ Queued(retx[e]) \subseteq Outstanding(send[e])
      /\ flight[e] \subseteq Outstanding(send[e])
  BY <1>1, WorkKept DEF WorkOf, Types, Work
<1>4. /\ send' = [send EXCEPT ![e] = send[e]] /\ retx' = [retx EXCEPT ![e] = retx[e]]
      /\ flight' = [flight EXCEPT ![e] = flight[e]]
  BY <1>1 DEF sendVars, Types
<1>5. net' \subseteq Datagram /\ IsFiniteSet(net') /\ Cardinality(net') <= NetMax
      /\ \A q \in net' : q \in net \/ q = p
  BY <1>1, EmitFacts
<1>6. \A q \in net' : q \in net \/ (Carries(q) /\ Claims(q))
  BY <1>5
<1> QED BY <1>1, <1>2, <1>3, <1>4, <1>5, <1>6, QuietStep

\* Sending the SYN keeps the invariant.
LEMMA StepEmitSyn ==
  ASSUME UtpInv, EmitSyn
  PROVE  UtpInv'
<1>1. Types /\ Initiator \in Side
  BY SidesFacts DEF UtpInv
<1>2. ackDue' \in [Side -> BOOLEAN] /\ (\A f \in Side : ackDue'[f] => ackDue[f]) /\ synDue' \in BOOLEAN
  BY <1>1 DEF EmitSyn, Types
<1>3. UNCHANGED <<phase, sendVars, recv, appVars, got>> /\ Emit(SynPacket(Initiator))
  BY DEF EmitSyn
<1> QED BY <1>1, <1>2, <1>3, SynFacts, StepEmitOnly

\* The acknowledgement e owes is one it can give.
LEMMA StateFacts ==
  ASSUME UtpInv, NEW e \in Side, ackDue[e], ~Terminal(e)
  PROVE  /\ Established(e) /\ StatePacket(e) \in Datagram
         /\ Carries(StatePacket(e)) /\ Claims(StatePacket(e))
<1>1. Types /\ Course(e) /\ Sending(e) /\ send[e] \in SendLedger /\ sent[e] \in Nat
  BY SideTypes DEF UtpInv
<1>2. Established(e)
  BY <1>1 DEF Course, Established, Terminal
<1>3. send[e].next \in Number /\ send[e].next = Num(e, sent[e] + 1)
  BY <1>1 DEF SendLedger, Sending
<1>4. "STATE" \in Kind /\ 0 \in Nat /\ Sack(recv[e]) \in {Sack(recv[e]), {}}
  BY DEF Kind
<1>5. /\ StatePacket(e) \in Datagram /\ Claims(StatePacket(e)) /\ StatePacket(e).from = e
      /\ StatePacket(e).kind = "STATE" /\ StatePacket(e).seq = send[e].next
  BY <1>2, <1>3, <1>4, PacketFacts DEF StatePacket
<1>6. Carries(StatePacket(e))
  <2>1. \E n \in 1..sent[e] + 1 : StatePacket(e).seq = Num(e, n)
    BY <1>1, <1>3, <1>5
  <2> QED BY <1>5, <2>1 DEF Carries
<1> QED BY <1>2, <1>5, <1>6

\* Sending an acknowledgement keeps the invariant.
LEMMA StepEmitState ==
  ASSUME UtpInv, NEW e \in Side, EmitState(e)
  PROVE  UtpInv'
<1>1. Types
  BY DEF UtpInv
<1>2. ackDue' \in [Side -> BOOLEAN] /\ (\A f \in Side : ackDue'[f] => ackDue[f]) /\ synDue' \in BOOLEAN
  BY <1>1 DEF EmitState, Types
<1>3. UNCHANGED <<phase, sendVars, recv, appVars, got>> /\ Emit(StatePacket(e))
      /\ ackDue[e] /\ ~Terminal(e)
  BY DEF EmitState
<1> QED BY <1>2, <1>3, StateFacts, StepEmitOnly

\* poll_retransmission keeps the invariant: what it sends again is in the ledger.
LEMMA StepRetransmit ==
  ASSUME UtpInv, NEW e \in Side, Retransmit(e)
  PROVE  UtpInv'
<1> DEFINE t == send[e]
           n == Head(retx[e]).seq
           at == {i \in DOMAIN t.out : t.out[i].seq = n}
           i == CHOOSE k \in at : TRUE
           p == t.out[i]
           u == Resent(t, i)
<1>1. Types /\ Sending(e) /\ Course(e) /\ t \in SendLedger /\ sent[e] \in Nat /\ Top(e) \in Nat
      /\ written[e] \in Nat
  BY SideTypes DEF UtpInv
<1>2. Distinct(t.out)
  BY <1>1 DEF Sending, Distinct
<1>3. retx[e] \in Seq(Work) /\ Queued(retx[e]) \subseteq Outstanding(t)
      /\ flight[e] \subseteq Outstanding(t)
  BY <1>1, WorkKept DEF WorkOf, Types, Work
<1>4. retx[e] # <<>> /\ ~Terminal(e)
  BY DEF Retransmit
<1>5. Tail(retx[e]) \in Seq(Work) /\ Queued(Tail(retx[e])) \subseteq Outstanding(t)
      /\ n \in Outstanding(t)
  <2>1. /\ Tail(retx[e]) \in Seq(Work) /\ DOMAIN Tail(retx[e]) = 1..Len(Tail(retx[e]))
        /\ Len(Tail(retx[e])) = Len(retx[e]) - 1 /\ Len(retx[e]) \in Nat \ {0}
        /\ Head(retx[e]) = retx[e][1] /\ DOMAIN retx[e] = 1..Len(retx[e])
    BY <1>3, <1>4
  <2>2. \A k \in DOMAIN Tail(retx[e]) : k + 1 \in DOMAIN retx[e] /\ Tail(retx[e])[k] = retx[e][k + 1]
    BY <1>3, <1>4, <2>1
  <2>3. Queued(Tail(retx[e])) \subseteq Queued(retx[e])
    BY <2>2 DEF Queued
  <2>4. n \in Queued(retx[e])
    BY <2>1 DEF Queued
  <2> QED BY <1>3, <2>1, <2>3, <2>4
<1>6. at # {}
  BY <1>5 DEF Outstanding
<1>7. i \in at /\ at \subseteq {i}
  BY <1>2, <1>6 DEF Distinct
<1>8. phase[e] # "None"
  BY <1>1, <1>6 DEF Course
<1>9. CASE \A k \in at : t.out[k].tx >= MaxTx
  <2>1. Release(e, "Closed") /\ UNCHANGED <<window, written, sent, got, net, faults>>
    BY <1>9 DEF Retransmit
  <2>2. net' \subseteq Datagram /\ IsFiniteSet(net') /\ Cardinality(net') <= NetMax /\ net' = net
    BY <1>1, <2>1 DEF Types
  <2> QED BY <1>8, <2>1, <2>2, ReleaseStep
<1>10. CASE ~(\A k \in at : t.out[k].tx >= MaxTx)
  <2>1. /\ send' = [send EXCEPT ![e] = u]
        /\ retx' = [retx EXCEPT ![e] = Tail(retx[e])]
        /\ flight' = [flight EXCEPT ![e] = flight[e] \cup {n}]
        /\ ackDue' = [ackDue EXCEPT ![e] = FALSE]
        /\ IF p.kind = "SYN" THEN Emit(SynPacket(e))
           ELSE \E sack \in {Sack(recv[e]), {}} : Emit(Packet(e, p.kind, n, p.pos, sack))
        /\ UNCHANGED <<phase, recv, synDue, appVars, got>>
    BY <1>10 DEF Retransmit
  <2> HIDE DEF i
  <2>2. i \in DOMAIN t.out /\ t.out[i].seq = n /\ p \in SentPacket
    BY <1>1, <1>7 DEF SendLedger
  <2>3. t.out[i].tx < MaxTx
    <3>1. p.tx \in 1..MaxTx
      BY <2>2 DEF SentPacket
    <3> QED BY <1>7, <1>10, <3>1, Constants
  <2>4. /\ u \in SendLedger /\ u.next = t.next /\ u.cum = t.cum /\ u.fin = t.fin /\ u.high = t.high
        /\ Within(u, t) /\ Outstanding(u) = Outstanding(t) /\ Distinct(u.out)
    BY <1>1, <1>2, <2>2, <2>3, ResentFacts
  <2>5. ackDue' \in [Side -> BOOLEAN] /\ (\A f \in Side : ackDue'[f] => ackDue[f]) /\ synDue' \in BOOLEAN
    BY <1>1, <2>1 DEF Types
  <2>6. PICK k \in First(e)..Top(e) : n = Num(e, k) /\ p.kind = KindAt(e, k) /\ p.pos = PosAt(e, k)
    BY <1>1, <2>2 DEF Sending
  <2>7. k \in Nat
    BY <2>6 DEF First
  <2>8. \E d \in Datagram : Emit(d) /\ Carries(d) /\ Claims(d)
    <3>1. CASE p.kind = "SYN"
      <4>1. k = 0 /\ e = Initiator
        BY <2>6, <2>7, <3>1, SidesFacts DEF KindAt, First
      <4>2. Emit(SynPacket(Initiator))
        BY <2>1, <3>1, <4>1
      <4> QED BY <4>2, SynFacts
    <3>2. CASE p.kind # "SYN"
      <4>1. PICK sack \in {Sack(recv[e]), {}} : Emit(Packet(e, p.kind, n, p.pos, sack))
        BY <2>1, <3>2
      <4>2. k # 0 /\ p.kind \in {"DATA", "FIN"}
        BY <2>6, <3>2 DEF KindAt
      <4>3. phase[e] # "SynSent"
        <5>1. phase[e] = "SynSent" => Top(e) = 0
          BY <1>1 DEF Course, Top, Types
        <5> QED BY <2>6, <2>7, <4>2, <5>1
      <4>4. Established(e)
        BY <1>4, <1>8, <4>3 DEF Established, Terminal
      <4>5. p.kind \in Kind /\ n \in Number /\ p.pos \in Nat
        BY <2>2 DEF SentPacket
      <4> DEFINE d == Packet(e, p.kind, n, p.pos, sack)
      <4>6. d \in Datagram /\ Claims(d) /\ d.from = e /\ d.kind = p.kind /\ d.seq = n /\ d.pos = p.pos
        <5>1. \A kd \in Kind, m \in Number, ps \in Nat :
                /\ Packet(e, kd, m, ps, sack) \in Datagram /\ Claims(Packet(e, kd, m, ps, sack))
                /\ Packet(e, kd, m, ps, sack).from = e /\ Packet(e, kd, m, ps, sack).kind = kd
                /\ Packet(e, kd, m, ps, sack).seq = m /\ Packet(e, kd, m, ps, sack).pos = ps
          BY <4>4, PacketFacts
        <5> HIDE DEF p, n
        <5> QED BY <4>5, <5>1
      <4>7. Carries(d)
        <5> HIDE DEF d
        <5>1. p.kind = "DATA" => k \in 1..sent[e] /\ p.pos = k
          BY <1>1, <2>6, <2>7, <4>2 DEF KindAt, PosAt
        <5>2. p.kind = "FIN" => k = sent[e] + 1 /\ send[e].fin /\ p.pos = 0
          BY <1>1, <2>6, <2>7, <4>2 DEF KindAt, PosAt, Top
        <5> QED BY <2>6, <4>2, <4>6, <5>1, <5>2 DEF Carries
      <4> QED BY <4>1, <4>6, <4>7
    <3> QED BY <3>1, <3>2
  <2>9. PICK d \in Datagram : Emit(d) /\ Carries(d) /\ Claims(d)
    BY <2>8
  <2>10. net' \subseteq Datagram /\ IsFiniteSet(net') /\ Cardinality(net') <= NetMax
         /\ \A q \in net' : q \in net \/ q = d
    BY <1>1, <2>9, EmitFacts
  <2>11. \A q \in net' : q \in net \/ (Carries(q) /\ Claims(q))
    BY <2>9, <2>10
  <2> DEFINE fl == flight[e] \cup {n}
             w == Tail(retx[e])
  <2>12. fl \subseteq Outstanding(u) /\ Queued(w) \subseteq Outstanding(u) /\ w \in Seq(Work)
    BY <1>3, <1>5, <2>4
  <2>13. /\ send' = [send EXCEPT ![e] = u] /\ retx' = [retx EXCEPT ![e] = w]
         /\ flight' = [flight EXCEPT ![e] = fl] /\ UNCHANGED <<phase, recv, appVars, got>>
    BY <2>1
  <2> HIDE DEF u, p, at, n, fl, w
  <2> QED BY <2>4, <2>5, <2>10, <2>11, <2>12, <2>13, QuietStep
<1> QED BY <1>9, <1>10

\* Ending a connection without a word.
LEMMA StepEnd ==
  ASSUME UtpInv, NEW e \in Side, phase[e] # "None", Release(e, "Closed"),
         UNCHANGED <<written, sent, got, net>>
  PROVE  UtpInv'
<1>1. net' \subseteq Datagram /\ IsFiniteSet(net') /\ Cardinality(net') <= NetMax /\ net' = net
  BY DEF UtpInv, Types
<1> QED BY <1>1, ReleaseStep

\* TransportState::finish keeps the invariant.
LEMMA StepFinish ==
  ASSUME UtpInv, NEW e \in Side, Finish(e)
  PROVE  UtpInv'
<1>1. Course(e) /\ send[e].fin
  BY DEF UtpInv, Finish, ReadyToClose
<1>2. phase[e] # "None"
  BY <1>1 DEF Course
<1> QED BY <1>2, StepEnd DEF Finish

\* The end of a connection without a FIN keeps the invariant.
LEMMA StepAbort ==
  ASSUME UtpInv, NEW e \in Side, Abort(e)
  PROVE  UtpInv'
<1>1. PICK last \in {"Closed", "Reset"} : Release(e, last)
  BY DEF Abort
<1>2. phase[e] # "None" /\ ~Terminal(e) /\ UNCHANGED <<written, sent, got>>
  BY DEF Abort
<1>3. Types
  BY DEF UtpInv
<1>4. /\ net' \subseteq Datagram /\ IsFiniteSet(net') /\ Cardinality(net') <= NetMax
      /\ \A p \in net' : p \in net \/ (Carries(p) /\ Claims(p))
  <2>1. CASE ackDue[e]
    <3>1. Emit(StatePacket(e))
      BY <2>1 DEF Abort
    <3>2. StatePacket(e) \in Datagram /\ Carries(StatePacket(e)) /\ Claims(StatePacket(e))
      BY <1>2, <2>1, StateFacts
    <3> QED BY <1>3, <3>1, <3>2, EmitFacts
  <2>2. CASE ~ackDue[e]
    BY <1>3, <2>2 DEF Abort, Types
  <2> QED BY <2>1, <2>2
<1> QED BY <1>1, <1>2, <1>4, ReleaseStep

\* SendState::record_sent adds the packet with the next number.
LEMMA RecordSentFacts ==
  ASSUME NEW t \in SendLedger, Distinct(t.out), t.next \notin Outstanding(t),
         NEW kind \in {"DATA", "FIN"}, NEW pos \in Nat, Add(t.next, 1) \in Number
  PROVE  LET u == RecordSent(t, kind, pos)
         IN /\ u \in SendLedger /\ u.cum = t.cum /\ Distinct(u.out)
            /\ u.next = (IF kind = "FIN" THEN t.next ELSE Add(t.next, 1))
            /\ u.fin = (t.fin \/ kind = "FIN")
            /\ Outstanding(u) = Outstanding(t) \cup {t.next}
            /\ \A i \in DOMAIN u.out :
                 \/ i \in DOMAIN t.out /\ u.out[i] = t.out[i]
                 \/ u.out[i].seq = t.next /\ u.out[i].kind = kind /\ u.out[i].pos = pos
<1> DEFINE x == [seq |-> t.next, kind |-> kind, pos |-> pos, tx |-> 1, lost |-> FALSE]
           o == Append(t.out, x)
           u == RecordSent(t, kind, pos)
           n == IF kind = "FIN" THEN t.next ELSE Add(t.next, 1)
           f == (t.fin \/ kind = "FIN")
<1>1. t.out \in Seq(SentPacket) /\ t.next \in Number /\ t.fin \in BOOLEAN
  BY DEF SendLedger
<1>2. x \in SentPacket /\ x.seq = t.next /\ x.kind = kind /\ x.pos = pos
  BY <1>1, Constants DEF SentPacket, Kind
<1>3. u = [t EXCEPT !.out = o, !.high = t.next, !.next = n, !.fin = f]
  BY DEF RecordSent
<1> HIDE DEF x
<1>4. /\ o \in Seq(SentPacket) /\ DOMAIN t.out = 1..Len(t.out) /\ DOMAIN o = 1..Len(t.out) + 1
      /\ \A i \in 1..Len(t.out) : o[i] = t.out[i]
      /\ o[Len(t.out) + 1] = x /\ Len(t.out) \in Nat
  BY <1>1, <1>2, AppendPlaces
<1>5. n \in Number /\ f \in BOOLEAN
  BY <1>1
<1> HIDE DEF o, n, f
<1>6. /\ u \in SendLedger
  BY <1>1, <1>3, <1>4, <1>5, Zenon DEF SendLedger
<1>7. u.cum = t.cum /\ u.next = n /\ u.fin = f /\ u.out = o
  <2>1. t = [next |-> t.next, cum |-> t.cum, high |-> t.high, out |-> t.out, dup |-> t.dup, fin |-> t.fin]
    BY DEF SendLedger
  <2> QED BY <1>3, <2>1
<1>8. \A i \in DOMAIN o : (i \in DOMAIN t.out /\ o[i] = t.out[i]) \/ (i = Len(t.out) + 1 /\ o[i] = x)
  BY <1>4
<1>9. Outstanding(u) = Outstanding(t) \cup {t.next}
  <2>1. \A i \in DOMAIN o : o[i].seq \in Outstanding(t) \cup {t.next}
    BY <1>2, <1>8 DEF Outstanding
  <2>2. \A i \in DOMAIN t.out : i \in DOMAIN o /\ o[i].seq = t.out[i].seq
    BY <1>4
  <2>3. Len(t.out) + 1 \in DOMAIN o /\ o[Len(t.out) + 1].seq = t.next
    BY <1>2, <1>4
  <2> QED BY <1>7, <2>1, <2>2, <2>3 DEF Outstanding
<1>10. Distinct(o)
  <2>1. \A i \in DOMAIN t.out : o[i].seq = t.out[i].seq /\ o[i].seq # t.next
    BY <1>4 DEF Outstanding
  <2>2. \A i, j \in DOMAIN t.out : o[i].seq = o[j].seq => i = j
    BY <2>1 DEF Distinct
  <2>3. \A i \in DOMAIN o : i \in DOMAIN t.out \/ (i = Len(t.out) + 1 /\ o[i].seq = t.next)
    BY <1>2, <1>8
  <2> QED BY <2>1, <2>2, <2>3 DEF Distinct
<1>11. \A i \in DOMAIN u.out :
          \/ i \in DOMAIN t.out /\ u.out[i] = t.out[i]
          \/ u.out[i].seq = t.next /\ u.out[i].kind = kind /\ u.out[i].pos = pos
  BY <1>2, <1>7, <1>8
<1> QED BY <1>6, <1>7, <1>9, <1>10, <1>11 DEF n, f

\* A packet of data, or the FIN, joins e's ledger and goes out.
LEMMA RecordStep ==
  ASSUME UtpInv, NEW e \in Side, Open(e), NEW kind \in {"DATA", "FIN"}, NEW pos \in Nat,
         kind = "DATA" => sent[e] < written[e] /\ pos = sent[e] + 1
                          /\ sent' = [sent EXCEPT ![e] = pos] /\ phase' = phase,
         kind = "FIN" => CanFin(e) /\ pos = 0 /\ sent' = sent
                         /\ phase' = [phase EXCEPT ![e] = PhaseOf(TRUE, recv[e].eof)],
         send' = [send EXCEPT ![e] = RecordSent(send[e], kind, pos)],
         flight' = [flight EXCEPT ![e] = flight[e] \cup {send[e].next}],
         ackDue' = [ackDue EXCEPT ![e] = FALSE],
         Emit(Packet(e, kind, send[e].next, pos, Sack(recv[e]))),
         UNCHANGED <<recv, retx, synDue, written, closing, got>>
  PROVE  UtpInv'
<1> DEFINE t == send[e]
           u == RecordSent(t, kind, pos)
           s == Peer(e)
<1>0. s \in Side /\ Peer(s) = e /\ s # e
  BY SidesFacts
<1>1. Types /\ Course(e) /\ Sending(e) /\ t \in SendLedger /\ sent[e] \in Nat /\ Top(e) \in Nat
      /\ written[e] \in Nat /\ recv[e].eof \in BOOLEAN /\ t.fin \in BOOLEAN
  BY SideTypes DEF UtpInv
<1>2. Established(e) /\ ~Terminal(e) /\ ~t.fin /\ Top(e) = sent[e] /\ phase[e] # "SynSent"
  <2>1. Established(e) /\ ~Terminal(e) /\ phase[e] # "SynSent"
    BY DEF Open, Established, Terminal
  <2>2. phase[e] = PhaseOf(t.fin, recv[e].eof)
    BY <1>1, <2>1 DEF Course
  <2>3. ~t.fin
    BY <1>1, <2>2 DEF PhaseOf, Open
  <2> QED BY <2>1, <2>3 DEF Top
<1>3. /\ sent[e] \in Number /\ sent[e] + 1 \in Number /\ sent[e] + 2 < Modulus /\ 1 \in Number
      /\ \A k \in 0..sent[e] : k \in Number
  <2>1. sent[e] <= written[e] /\ written[e] <= Script[e] /\ Script[e] \in Nat /\ Script[e] + 2 <= Half
    BY <1>1, Constants DEF Types
  <2>2. Half \in Nat /\ 2 * Half = Modulus /\ Half >= 2 /\ Modulus \in Nat
    BY Constants
  <2> QED BY <1>1, <2>1, <2>2 DEF Number
<1>4. t.next = Num(e, sent[e] + 1) /\ t.next \in Number
  BY <1>1 DEF Sending, SendLedger
<1>5. Add(t.next, 1) = Num(e, sent[e] + 2) /\ Add(t.next, 1) \in Number
  <2>1. Add(Num(e, sent[e] + 1), 1) = Num(e, sent[e] + 1 + 1)
    BY <1>1, <1>3, Places
  <2>2. sent[e] + 1 + 1 = sent[e] + 2 /\ sent[e] + 2 \in Number
    BY <1>1, <1>3, Constants DEF Number
  <2> QED BY <1>4, <2>1, <2>2, Places
<1>6. t.next \notin Outstanding(t)
  <2>1. ASSUME NEW i \in DOMAIN t.out PROVE t.out[i].seq # t.next
    <3>1. PICK k \in First(e)..Top(e) : t.out[i].seq = Num(e, k)
      BY <1>1 DEF Sending
    <3>2. k \in 0..sent[e] /\ k \in Number /\ k # sent[e] + 1
      BY <1>1, <1>2, <1>3, <3>1 DEF First
    <3> QED BY <1>3, <1>4, <3>1, <3>2, Places
  <2> QED BY <2>1 DEF Outstanding
<1>7. Distinct(t.out)
  BY <1>1 DEF Sending, Distinct
<1>8. /\ u \in SendLedger /\ u.cum = t.cum /\ Distinct(u.out)
      /\ u.next = (IF kind = "FIN" THEN t.next ELSE Add(t.next, 1))
      /\ u.fin = (t.fin \/ kind = "FIN")
      /\ Outstanding(u) = Outstanding(t) \cup {t.next}
      /\ \A i \in DOMAIN u.out :
           \/ i \in DOMAIN t.out /\ u.out[i] = t.out[i]
           \/ u.out[i].seq = t.next /\ u.out[i].kind = kind /\ u.out[i].pos = pos
  BY <1>1, <1>5, <1>6, <1>7, RecordSentFacts
<1> HIDE DEF u
<1>9. send' = [send EXCEPT ![e] = u] /\ send'[e] = u
  BY <1>1 DEF Types, u
<1>10. /\ sent'[e] = (IF kind = "DATA" THEN sent[e] + 1 ELSE sent[e])
       /\ send'[e].fin = (kind = "FIN")
       /\ Top(e)' = sent[e] + 1
  <2>1. sent'[e] = (IF kind = "DATA" THEN sent[e] + 1 ELSE sent[e])
    BY <1>1 DEF Types
  <2>2. send'[e].fin = (kind = "FIN")
    BY <1>2, <1>8, <1>9
  <2> QED BY <2>1, <2>2 DEF Top
<1>11. Grown(e)
  BY <1>1, <1>2, <1>10 DEF Grown
<1>12. phase'[e] = (IF kind = "FIN" THEN PhaseOf(TRUE, recv[e].eof) ELSE phase[e])
  BY <1>1 DEF Types
<1>13. /\ Established(e)' /\ ~Terminal(e)' /\ phase'[e] # "SynSent" /\ phase'[e] # "None"
       /\ phase'[e] = PhaseOf(send'[e].fin, recv'[e].eof)
  <2>1. phase[e] = PhaseOf(FALSE, recv[e].eof) /\ phase[e] # "None"
    BY <1>1, <1>2 DEF Course, Established
  <2>2. phase'[e] = PhaseOf(send'[e].fin, recv'[e].eof)
    BY <1>10, <1>12, <2>1
  <2>3. PhaseOf(TRUE, recv[e].eof) \in {"LocalFinSent", "Closing"}
    BY <1>1 DEF PhaseOf
  <2> QED BY <1>2, <1>12, <2>1, <2>2, <2>3 DEF Established, Terminal
<1>14. Types'
  <2>1. send' \in [Side -> SendLedger]
    BY <1>1, <1>8, <1>9 DEF Types
  <2>2. flight' \in [Side -> SUBSET Number]
    BY <1>1, <1>4 DEF Types
  <2>3. ackDue' \in [Side -> BOOLEAN]
    BY <1>1 DEF Types
  <2>4. phase' \in [Side -> {"None", "SynSent", "Connected", "LocalFinSent",
                             "RemoteFinReceived", "Closing", "Reset", "Closed"}]
    <3>1. PhaseOf(TRUE, recv[e].eof) \in {"LocalFinSent", "Closing"}
      BY <1>1 DEF PhaseOf
    <3> QED BY <1>1, <3>1 DEF Types
  <2>5. sent' \in [Side -> Nat] /\ \A f \in Side : sent'[f] <= written[f]
    <3>1. sent \in [Side -> Nat] /\ \A f \in Side : sent[f] <= written[f]
      BY <1>1 DEF Types
    <3>2. CASE kind = "FIN"
      BY <3>1, <3>2
    <3>3. CASE kind = "DATA"
      <4>1. sent' = [sent EXCEPT ![e] = pos] /\ pos <= written[e]
        BY <1>1, <3>3
      <4> QED BY <3>1, <4>1
    <3> QED BY <3>2, <3>3
  <2>6. Packet(e, kind, t.next, pos, Sack(recv[e])) \in Datagram
    BY <1>2, <1>4, PacketFacts DEF Kind
  <2>7. net' \subseteq Datagram /\ IsFiniteSet(net') /\ Cardinality(net') <= NetMax
    BY <1>1, <2>6, EmitFacts
  <2> QED BY <1>1, <2>1, <2>2, <2>3, <2>4, <2>5, <2>7 DEF Types
<1>15. SameSide(s)
  BY <1>0, <1>1 DEF SameSide, Types
<1>16. Course(e)'
  <2>1. got'[e] = got[e] /\ written'[e] = written[e] /\ closing'[e] = closing[e]
    OBVIOUS
  <2>2. kind = "FIN" => closing[e] /\ sent[e] = written[e]
    BY DEF CanFin
  <2>3. send'[e].fin => closing'[e] /\ sent'[e] = written'[e]
    BY <1>10, <2>1, <2>2
  <2>4. e = Acceptor /\ got[e] = <<>> => written[e] = 0 /\ ~closing[e]
    BY <1>1, <1>2 DEF Course
  <2>5. e = Acceptor /\ got[e] = <<>> => kind # "FIN"
    BY <2>2, <2>4
  <2> QED BY <1>10, <1>13, <2>1, <2>3, <2>4, <2>5 DEF Course
<1>17. Sending(e)'
  <2>1. send'[e].next = Num(e, sent'[e] + 1)
    <3>1. sent[e] + 1 + 1 = sent[e] + 2
      BY <1>1
    <3> QED BY <1>4, <1>5, <1>8, <1>9, <1>10, <3>1
  <2>2. \E c \in 0..Top(e)' : send'[e].cum = Num(e, c)
    <3>1. PICK c \in 0..Top(e) : t.cum = Num(e, c)
      BY <1>1, <1>2 DEF Sending
    <3>2. c \in 0..Top(e)'
      BY <1>1, <1>2, <1>10, <3>1
    <3> QED BY <1>8, <1>9, <3>1, <3>2
  <2>3. ASSUME NEW i \in DOMAIN send'[e].out
        PROVE  \E k \in First(e)..Top(e)' :
                 /\ send'[e].out[i].seq = Num(e, k)
                 /\ send'[e].out[i].kind = KindAt(e, k)' /\ send'[e].out[i].pos = PosAt(e, k)'
    <3>1. CASE i \in DOMAIN t.out /\ u.out[i] = t.out[i]
      <4>1. PICK k \in First(e)..Top(e) : /\ t.out[i].seq = Num(e, k)
                                          /\ t.out[i].kind = KindAt(e, k) /\ t.out[i].pos = PosAt(e, k)
        BY <1>1, <3>1 DEF Sending
      <4>2. k \in 0..Top(e) /\ k \in First(e)..Top(e)'
        BY <1>1, <1>2, <1>10, <4>1 DEF First
      <4>3. KindAt(e, k)' = KindAt(e, k) /\ PosAt(e, k)' = PosAt(e, k)
        BY <1>1, <1>11, <1>14, <4>2, StreamKept
      <4> QED BY <1>9, <3>1, <4>1, <4>2, <4>3
    <3>2. CASE u.out[i].seq = t.next /\ u.out[i].kind = kind /\ u.out[i].pos = pos
      <4>0. PICK k \in Nat : k = sent[e] + 1
        BY <1>1
      <4>1. k \in First(e)..Top(e)'
        BY <1>1, <1>10, <4>0 DEF First
      <4>2. KindAt(e, k)' = kind /\ PosAt(e, k)' = pos
        <5>1. CASE kind = "DATA"
          <6>1. sent'[e] = k /\ pos = k /\ k # 0
            BY <1>1, <1>10, <4>0, <5>1
          <6> QED BY <5>1, <6>1 DEF KindAt, PosAt
        <5>2. CASE kind = "FIN"
          <6>1. ~(k <= sent'[e]) /\ pos = 0 /\ k # 0
            BY <1>1, <1>10, <4>0, <5>2
          <6> QED BY <5>2, <6>1 DEF KindAt, PosAt
        <5> QED BY <5>1, <5>2
      <4> QED BY <1>4, <1>9, <3>2, <4>0, <4>1, <4>2
    <3> QED BY <1>8, <1>9, <3>1, <3>2
  <2>4. \A i, j \in DOMAIN send'[e].out : send'[e].out[i].seq = send'[e].out[j].seq => i = j
    BY <1>8, <1>9 DEF Distinct
  <2> QED BY <1>13, <2>1, <2>2, <2>3, <2>4 DEF Sending
<1>18. WorkOf(e)'
  <2>1. WorkOf(e) /\ retx'[e] = retx[e] /\ flight'[e] = flight[e] \cup {t.next}
    BY <1>1, WorkKept DEF Types
  <2>2. Outstanding(send'[e]) = Outstanding(t) \cup {t.next}
    BY <1>8, <1>9
  <2> QED BY <2>1, <2>2 DEF WorkOf
<1>19. ASSUME NEW k \in 1..Top(e)', Num(e, k) \notin Outstanding(send'[e])
       PROVE  k <= Top(e) /\ Num(e, k) \notin Outstanding(send[e])
  <2>1. Num(e, k) \notin Outstanding(t) /\ Num(e, k) # Num(e, sent[e] + 1)
    BY <1>4, <1>8, <1>9, <1>19
  <2>2. k # sent[e] + 1
    BY <2>1
  <2> QED BY <1>1, <1>2, <1>10, <2>1, <2>2
<1>20. ASSUME NEW p \in net', p \notin net
       PROVE  p \in Datagram /\ Carries(p)' /\ Claims(p)
  <2> DEFINE d == Packet(e, kind, t.next, pos, Sack(recv[e]))
  <2>1. /\ d \in Datagram /\ Claims(d) /\ d.from = e /\ d.kind = kind /\ d.seq = t.next
        /\ d.pos = pos
    BY <1>2, <1>4, PacketFacts DEF Kind
  <2>2. p = d
    BY <1>1, <1>20, <2>1, EmitFacts
  <2> HIDE DEF d
  <2>3. /\ p \in Datagram /\ Claims(p) /\ p.from = e /\ p.kind = kind /\ p.seq = t.next
        /\ p.pos = pos
    BY <2>1, <2>2
  <2>4. Carries(p)'
    <3>1. kind = "DATA" => p.pos \in 1..sent'[e] /\ p.seq = Num(e, p.pos)
      BY <1>1, <1>4, <1>10, <2>3
    <3>2. kind = "FIN" => send'[e].fin /\ p.pos = 0 /\ p.seq = Num(e, sent'[e] + 1)
      BY <1>4, <1>10, <2>3
    <3> QED BY <2>3, <3>1, <3>2 DEF Carries
  <2> QED BY <2>3, <2>4
<1>21. recv'[e] = recv[e] /\ got'[e] = got[e]
  OBVIOUS
<1> QED BY <1>2, <1>11, <1>13, <1>14, <1>15, <1>16, <1>17, <1>18, <1>19, <1>20, <1>21, SendStep

\* poll_new_data keeps the invariant.
LEMMA StepNewData ==
  ASSUME UtpInv, NEW e \in Side, NewData(e)
  PROVE  UtpInv'
<1>1. Types /\ sent[e] \in Nat
  BY SideTypes DEF UtpInv
<1>2. CASE Distance(send[e].next, send[e].cum) > MaxSent
  <2>1. Release(e, "Closed") /\ UNCHANGED <<written, sent, got, net>> /\ phase[e] # "None"
    BY <1>2 DEF NewData, Open
  <2> QED BY <2>1, StepEnd
<1>3. CASE ~(Distance(send[e].next, send[e].cum) > MaxSent)
  <2>1. PICK pos \in Nat : pos = sent[e] + 1
    BY <1>1
  <2>2. sent' = [sent EXCEPT ![e] = pos] /\ sent'[e] = pos
    BY <1>1, <1>3, <2>1 DEF NewData, Types
  <2>3. /\ send' = [send EXCEPT ![e] = RecordSent(send[e], "DATA", pos)]
        /\ flight' = [flight EXCEPT ![e] = flight[e] \cup {send[e].next}]
        /\ ackDue' = [ackDue EXCEPT ![e] = FALSE]
        /\ Emit(Packet(e, "DATA", send[e].next, pos, Sack(recv[e])))
        /\ UNCHANGED <<phase, recv, retx, synDue, written, closing, got>>
    BY <1>3, <2>2 DEF NewData
  <2>4. Open(e) /\ sent[e] < written[e]
    BY DEF NewData
  <2> QED BY <2>1, <2>2, <2>3, <2>4, RecordStep
<1> QED BY <1>2, <1>3

\* poll_fin keeps the invariant.
LEMMA StepEmitFin ==
  ASSUME UtpInv, NEW e \in Side, EmitFin(e)
  PROVE  UtpInv'
<1>1. CASE Distance(send[e].next, send[e].cum) > MaxSent
  <2>1. Release(e, "Closed") /\ UNCHANGED <<written, sent, got, net>> /\ phase[e] # "None"
    BY <1>1 DEF EmitFin, CanFin, Open
  <2> QED BY <2>1, StepEnd
<1>2. CASE ~(Distance(send[e].next, send[e].cum) > MaxSent)
  <2>1. /\ send' = [send EXCEPT ![e] = RecordSent(send[e], "FIN", 0)]
        /\ phase' = [phase EXCEPT ![e] = PhaseOf(TRUE, recv[e].eof)]
        /\ flight' = [flight EXCEPT ![e] = flight[e] \cup {send[e].next}]
        /\ ackDue' = [ackDue EXCEPT ![e] = FALSE]
        /\ Emit(Packet(e, "FIN", send[e].next, 0, Sack(recv[e])))
        /\ UNCHANGED <<recv, retx, synDue, written, sent, closing, got>>
    BY <1>2 DEF EmitFin, appVars
  <2>2. Open(e) /\ CanFin(e) /\ sent' = sent
    BY <2>1 DEF EmitFin, CanFin
  <2> QED BY <2>1, <2>2, RecordStep
<1> QED BY <1>1, <1>2

\* The application writes, or asks for the close.
LEMMA StepApplication ==
  ASSUME UtpInv, NEW e \in Side, Write(e) \/ RequestClose(e)
  PROVE  UtpInv'
<1> DEFINE s == Peer(e)
<1>0. s \in Side /\ Peer(s) = e /\ s # e
  BY SidesFacts
<1>1. Types /\ Course(e) /\ Sending(e)
  BY DEF UtpInv
<1>2. /\ UNCHANGED <<phase, send, recv, retx, flight, window, ackDue, synDue, sent, got, net>>
      /\ phase[e] # "None" /\ ~Terminal(e) /\ ~closing[e] /\ (e = Acceptor => got[e] # <<>>)
      /\ Published(e)
  BY DEF Write, RequestClose
<1>3. /\ written' \in [Side -> Nat] /\ closing' \in [Side -> BOOLEAN]
      /\ (\A f \in Side : sent[f] <= written'[f] /\ written'[f] <= Script[f])
      /\ written'[s] = written[s] /\ closing'[s] = closing[s]
  <2>1. /\ written \in [Side -> Nat] /\ closing \in [Side -> BOOLEAN] /\ sent \in [Side -> Nat]
        /\ (\A f \in Side : sent[f] <= written[f] /\ written[f] <= Script[f])
        /\ \A f \in Side : Script[f] \in Nat
    BY <1>1, Constants DEF Types
  <2>2. CASE Write(e)
    <3>1. written' = [written EXCEPT ![e] = Script[e]] /\ closing' = closing
      BY <2>2 DEF Write
    <3>2. written'[e] = Script[e] /\ \A f \in Side : f # e => written'[f] = written[f]
      BY <2>1, <3>1
    <3>3. \A f \in Side : sent[f] <= written'[f] /\ written'[f] <= Script[f]
      <4> TAKE f \in Side
      <4>1. sent[f] \in Nat /\ written[f] \in Nat /\ Script[f] \in Nat
        BY <2>1
      <4> QED BY <2>1, <3>2, <4>1
    <3> QED BY <1>0, <2>1, <3>1, <3>2, <3>3
  <2>3. CASE RequestClose(e)
    <3>1. written' = written /\ closing' = [closing EXCEPT ![e] = TRUE]
      BY <2>3 DEF RequestClose
    <3> QED BY <1>0, <2>1, <3>1
  <2> QED BY <2>2, <2>3
<1>4. Types'
  BY <1>1, <1>2, <1>3 DEF Types
<1>5. SameSide(s)
  BY <1>2, <1>3 DEF SameSide
<1>6. phase[e] # "SynSent"
  <2>1. e = Initiator => phase[e] # "SynSent"
    BY <1>2 DEF Published
  <2> QED BY <1>1, <2>1 DEF Course
<1>7. ~send[e].fin
  BY <1>1, <1>2 DEF Course
<1>8. Course(e)'
  BY <1>1, <1>2, <1>6, <1>7 DEF Course, Terminal, Established
<1>9. Sending(e)'
  BY <1>1, <1>2 DEF Sending, Terminal, Top, KindAt, PosAt
<1>10. WorkOf(e)'
  <2>1. WorkOf(e)
    BY WorkKept
  <2> QED BY <1>2, <2>1 DEF WorkOf, Queued, Outstanding
<1>11. Grown(e) /\ Top(e)' = Top(e) /\ Top(e) \in Nat
  BY <1>1, <1>2, SideTypes DEF Grown, Top
<1>12. \A k \in 1..Top(e)' : Num(e, k) \notin Outstanding(send'[e]) =>
            k <= Top(e) /\ Num(e, k) \notin Outstanding(send[e])
  BY <1>2, <1>11
<1>13. (Terminal(e)' <=> Terminal(e)) /\ (Established(e)' => Established(e))
       /\ recv'[e] = recv[e] /\ got'[e] = got[e] /\ net' = net
  BY <1>2 DEF Terminal, Established
<1> QED BY <1>4, <1>5, <1>8, <1>9, <1>10, <1>11, <1>12, <1>13, SendStep

\* The application has read a unit.
LEMMA StepRead ==
  ASSUME UtpInv, NEW e \in Side, Read(e)
  PROVE  UtpInv'
<1> DEFINE s == Peer(e)
           r == recv[e]
<1>0. s \in Side /\ Peer(s) = e /\ s # e /\ \A f \in Side : f = e \/ f = s
  BY SidesFacts
<1>1. Types /\ (\A f \in Side : Course(f) /\ Sending(f) /\ Receiving(f) /\ LetGo(f))
  BY DEF UtpInv
<1>2. /\ UNCHANGED <<phase, send, retx, flight, synDue, written, sent, closing, got, net>>
      /\ r.unread > 0 /\ ~Terminal(e)
  BY DEF Read, sendVars, appVars
<1>3. /\ recv' = [recv EXCEPT ![e] = [r EXCEPT !.unread = r.unread - 1]]
      /\ ackDue' = [ackDue EXCEPT ![e] = @ \/ AdvertisedWindow(recv[e]) = 0]
  BY DEF Read
<1>4. r \in RecvLedger /\ r.unread \in Nat
  BY <1>1, SideTypes DEF RecvLedger
<1>5. /\ recv'[e] \in RecvLedger /\ recv'[e].unread = r.unread - 1 /\ recv'[e].ack = r.ack
      /\ recv'[e].buf = r.buf /\ recv'[e].eof = r.eof /\ recv'[s] = recv[s]
  <2>1. recv'[e] = [r EXCEPT !.unread = r.unread - 1] /\ recv'[s] = recv[s]
    BY <1>0, <1>1, <1>3 DEF Types
  <2>2. r.unread - 1 \in Nat
    BY <1>2, <1>4
  <2> QED BY <1>4, <2>1, <2>2 DEF RecvLedger
<1>6. Types'
  <2>1. recv' \in [Side -> RecvLedger]
    <3>1. recv'[e] = [r EXCEPT !.unread = r.unread - 1]
      BY <1>1, <1>3 DEF Types
    <3> QED BY <1>1, <1>3, <1>5, <3>1 DEF Types
  <2>2. ackDue' \in [Side -> BOOLEAN]
    <3>1. (ackDue[e] \/ AdvertisedWindow(recv[e]) = 0) \in BOOLEAN
      OBVIOUS
    <3> QED BY <1>1, <1>3, <3>1 DEF Types
  <2> QED BY <1>1, <1>2, <2>1, <2>2 DEF Types
<1>7. phase[e] \notin {"None", "SynSent"}
  <2>1. NewReceive(0).unread = 0
    BY DEF NewReceive
  <2> QED BY <1>1, <1>2, <2>1 DEF Course
<1>8. Course(e)'
  <2>1. Course(e)
    BY <1>1
  <2> QED BY <1>2, <1>5, <1>7, <2>1 DEF Course, Terminal, Established
<1>9. SameSide(s)
  <2>1. ackDue'[s] = ackDue[s]
    BY <1>0, <1>1, <1>3 DEF Types
  <2> QED BY <1>0, <1>2, <1>5, <2>1 DEF SameSide
<1>10. Course(s)' /\ Sending(s)' /\ Sending(e)'
  <2>1. ackDue'[s] \in BOOLEAN
    BY <1>0, <1>6 DEF Types
  <2>2. Sending(e)
    BY <1>1
  <2>3. Sending(e)'
    BY <1>2, <2>2 DEF Sending, Terminal, Top, KindAt, PosAt
  <2> QED BY <1>0, <1>1, <1>9, <2>1, <2>3, SameCourse
<1>11. \A f \in Side : Grown(f) /\ Top(f)' = Top(f) /\ Top(f) \in Nat
  BY <1>1, <1>2, SideTypes DEF Grown, Top
<1>12. Receiving(e)'
  <2>1. Buffered(recv'[e]) <= MaxReceive
    <3>1. Buffered(r) \in Nat /\ Buffered(r) <= MaxReceive
      BY <1>1, HeldOf DEF Receiving
    <3>2. PICK c : c = Cardinality({p \in r.buf : p.kind = "DATA"})
      OBVIOUS
    <3>3. c \in Nat
      <4>1. IsFiniteSet(r.buf)
        BY <1>1, HeldOf
      <4> QED BY <3>2, <4>1, FS_Subset, FS_CardinalityType
    <3>4. Buffered(r) = c + r.unread /\ Buffered(recv'[e]) = c + (r.unread - 1)
      BY <1>5, <3>2 DEF Buffered
    <3> QED BY <1>4, <3>1, <3>3, <3>4, Constants
  <2>2. At(e)' = At(e)
    BY <1>2, <1>5 DEF At
  <2>3. \A k : PacketAt(s, k)' = PacketAt(s, k)
    BY <1>2 DEF PacketAt, KindAt, PosAt
  <2>4. Receiving(e) /\ Top(s)' = Top(s) /\ (Established(e)' <=> Established(e))
    BY <1>0, <1>1, <1>2, <1>11 DEF Established
  <2>5. \A p \in recv'[e].buf : \E k \in At(e)' + 2..Top(s)' :
           k <= At(e)' + MaxDistance /\ p = PacketAt(s, k)'
    BY <1>5, <2>2, <2>3, <2>4 DEF Receiving
  <2>6. Established(e)' => recv'[e].ack = Num(s, At(e)')
    BY <1>5, <2>2, <2>4 DEF Receiving
  <2> QED BY <1>2, <1>5, <2>1, <2>4, <2>5, <2>6 DEF Receiving
<1>13. Receiving(s)'
  <2>1. recv'[s] = recv[s] /\ got'[s] = got[s] /\ (Established(s)' => Established(s))
    BY <1>9 DEF SameSide, Established
  <2> QED BY <1>0, <1>1, <1>6, <1>11, <2>1, ReceivingKept
<1>14. Keeps(e)
  BY <1>0, <1>2, <1>5 DEF Keeps, Acked, Has, Terminal
<1>15. Keeps(s)
  BY <1>0, <1>2, <1>5 DEF Keeps, Acked, Has, Terminal
<1>16. ASSUME NEW f \in Side PROVE LetGo(f)'
  <2>1. Keeps(Peer(f))
    BY <1>0, <1>14, <1>15
  <2>2. \A k \in 1..Top(f)' : Num(f, k) \notin Outstanding(send'[f]) =>
            k <= Top(f) /\ Num(f, k) \notin Outstanding(send[f])
    BY <1>2, <1>11
  <2>3. Terminal(f) => Terminal(f)'
    BY <1>2 DEF Terminal
  <2> QED BY <1>1, <1>6, <2>1, <2>2, <2>3, LetGoKept
<1>17. WorkIsOutstanding'
  <2>1. \A f \in Side : WorkOf(f)
    BY WorkKept
  <2>2. \A f \in Side : WorkOf(f)'
    BY <1>2, <2>1 DEF WorkOf
  <2> QED BY <2>2, WorkKept
<1>18. /\ \A f \in Side : Grown(f) /\ Keeps(f)
       /\ \A f \in Side : Course(f)' /\ Sending(f)' /\ Receiving(f)' /\ LetGo(f)'
  <2> HIDE DEF s
  <2> QED BY <1>0, <1>8, <1>10, <1>11, <1>12, <1>13, <1>14, <1>15, <1>16
<1>19. net' = net
  BY <1>2
<1> QED BY <1>6, <1>17, <1>18, <1>19, StepKeeps

-----------------------------------------------------------------------------
(* Arrivals. *)

\* A step of e that takes a datagram and sends nothing.
LEMMA ArrivalStep ==
  ASSUME UtpInv, Types', NEW e \in Side, SameSide(Peer(e)),
         sent'[e] = sent[e], send'[e].fin = send[e].fin, ~Terminal(e),
         Course(e)', Sending(e)', Receiving(e)', Keeps(e), WorkOf(e)',
         \A k \in 1..Top(e) : Num(e, k) \notin Outstanding(send'[e]) =>
            Num(e, k) \notin Outstanding(send[e]) \/ Acked(Peer(e), k),
         net' \subseteq net
  PROVE  UtpInv'
<1> DEFINE s == Peer(e)
<1>0. s \in Side /\ Peer(s) = e /\ \A f \in Side : f = e \/ f = s
  BY SidesFacts
<1>1. Types /\ Course(s) /\ Sending(s) /\ Receiving(s) /\ LetGo(s) /\ LetGo(e)
  BY <1>0 DEF UtpInv
<1>2. Grown(s)
  BY <1>0, <1>1, SameGrown
<1>3. Grown(e) /\ Top(e)' = Top(e) /\ Top(e) \in Nat
  BY <1>1, SideTypes DEF Grown, Top
<1>4. Keeps(s)
  <2>1. recv'[s] = recv[s] /\ got'[s] = got[s] /\ (Terminal(s)' <=> Terminal(s))
    BY DEF SameSide, Terminal
  <2> QED BY <1>0, <1>1, <1>3, <2>1, SameReceiverKeeps
<1>5. Course(s)' /\ Sending(s)'
  <2>1. ackDue'[s] \in BOOLEAN
    BY <1>0 DEF Types
  <2> QED BY <1>0, <1>1, <2>1, SameCourse
<1>6. Receiving(s)'
  <2>1. recv'[s] = recv[s] /\ got'[s] = got[s] /\ (Established(s)' => Established(s))
    BY DEF SameSide, Established
  <2> QED BY <1>0, <1>1, <1>3, <2>1, ReceivingKept
<1>7. LetGo(e)'
  <2>1. \A k \in 1..Top(e)' : Num(e, k) \notin Outstanding(send'[e]) =>
            \/ k <= Top(e) /\ Num(e, k) \notin Outstanding(send[e])
            \/ k <= Top(e) /\ Acked(Peer(e), k)
    BY <1>3
  <2> QED BY <1>1, <1>4, <2>1, LetGoKept
<1>8. LetGo(s)'
  <2>1. send'[s] = send[s] /\ sent'[s] = sent[s] /\ (Terminal(s) => Terminal(s)')
    BY DEF SameSide, Terminal
  <2>2. Top(s)' = Top(s) /\ Top(s) \in Nat
    BY <1>0, <1>1, <2>1, SideTypes DEF Top
  <2>3. \A k \in 1..Top(s)' : Num(s, k) \notin Outstanding(send'[s]) =>
            k <= Top(s) /\ Num(s, k) \notin Outstanding(send[s])
    BY <2>1, <2>2
  <2> QED BY <1>0, <1>1, <2>1, <2>3, LetGoKept
<1>9. WorkIsOutstanding'
  BY <1>0, WorkKept
<1>10. \A p \in net' : p \in net
  OBVIOUS
<1>11. /\ \A f \in Side : Grown(f) /\ Keeps(f)
       /\ \A f \in Side : Course(f)' /\ Sending(f)' /\ Receiving(f)' /\ LetGo(f)'
  <2> HIDE DEF s
  <2> QED BY <1>0, <1>2, <1>3, <1>4, <1>5, <1>6, <1>7, <1>8
<1> QED BY <1>9, <1>10, <1>11, StepKeeps

\* A datagram that is dropped keeps the invariant.
LEMMA StepIgnore ==
  ASSUME UtpInv, NEW p \in net, Ignore(p)
  PROVE  UtpInv'
<1>1. Types /\ UNCHANGED <<phase, send, retx, flight, recv, ackDue, synDue, written, sent, closing, got>>
      /\ net' = net \ {p}
  BY DEF UtpInv, Ignore, sendVars, appVars
<1>2. net' \subseteq Datagram /\ IsFiniteSet(net') /\ Cardinality(net') <= NetMax /\ net' \subseteq net
  BY <1>1, ArrivesFacts
<1>3. Types'
  BY <1>1, <1>2 DEF Types
<1>4. \A e \in Side : SameSide(e)
  BY <1>1 DEF SameSide
<1>5. \A e \in Side : Course(e)' /\ Sending(e)'
  <2> TAKE e \in Side
  <2>1. Course(e) /\ Sending(e) /\ ackDue'[e] \in BOOLEAN
    BY <1>3 DEF UtpInv, Types
  <2> QED BY <1>4, <2>1, SameCourse
<1>6. \A e \in Side : Grown(e)
  BY <1>1, <1>4, SameGrown
<1>7. \A e \in Side : recv'[e] = recv[e] /\ got'[e] = got[e] /\ (Terminal(e)' <=> Terminal(e))
                      /\ (Established(e)' => Established(e))
  BY <1>1 DEF Terminal, Established
<1>8. \A e \in Side : Keeps(e) /\ Receiving(e)'
  <2> TAKE e \in Side
  <2>1. Peer(e) \in Side /\ Receiving(e)
    BY SidesFacts DEF UtpInv
  <2>2. Keeps(e)
    BY <1>1, <1>3, <1>6, <1>7, <2>1, SameReceiverKeeps
  <2>3. Receiving(e)'
    BY <1>1, <1>3, <1>6, <1>7, <2>1, ReceivingKept
  <2> QED BY <2>2, <2>3
<1>9. \A e \in Side : LetGo(e)'
  <2> TAKE e \in Side
  <2>1. Peer(e) \in Side /\ LetGo(e)
    BY SidesFacts DEF UtpInv
  <2>2. Top(e)' = Top(e) /\ Top(e) \in Nat /\ send'[e] = send[e]
    BY <1>1, SideTypes DEF Top
  <2>3. \A k \in 1..Top(e)' : Num(e, k) \notin Outstanding(send'[e]) =>
            k <= Top(e) /\ Num(e, k) \notin Outstanding(send[e])
    BY <2>2
  <2> QED BY <1>1, <1>3, <1>7, <1>8, <2>1, <2>3, LetGoKept
<1>10. WorkIsOutstanding'
  BY <1>4, WorkKept
<1> QED BY <1>2, <1>3, <1>5, <1>6, <1>8, <1>9, <1>10, StepKeeps

\* A receive ledger begins empty.
LEMMA NewReceiveFacts ==
  ASSUME NEW a \in Number
  PROVE  /\ NewReceive(a) \in RecvLedger /\ NewReceive(a).ack = a /\ NewReceive(a).buf = {}
         /\ NewReceive(a).unread = 0 /\ ~NewReceive(a).eof /\ Buffered(NewReceive(a)) = 0
<1>1. /\ NewReceive(a) \in RecvLedger /\ NewReceive(a).ack = a /\ NewReceive(a).buf = {}
      /\ NewReceive(a).unread = 0 /\ ~NewReceive(a).eof
  BY DEF NewReceive, RecvLedger
<1>2. {p \in NewReceive(a).buf : p.kind = "DATA"} = {}
  BY <1>1
<1> QED BY <1>1, <1>2, FS_EmptySet DEF Buffered

\* e founds its receive ledger at the number before the first of its peer.
LEMMA FoundedFacts ==
  ASSUME UtpInv, Types', NEW e \in Side, phase[e] \in {"None", "SynSent"},
         recv'[e] = NewReceive(Num(Peer(e), 0)), got'[e] = got[e], sent'[Peer(e)] = sent[Peer(e)],
         ~Terminal(e)'
  PROVE  Receiving(e)' /\ Keeps(e)
<1> DEFINE s == Peer(e)
<1>0. s \in Side
  BY SidesFacts
<1>1. Types /\ Course(e)
  BY DEF UtpInv
<1>2. got[e] = <<>> /\ recv[e] = NewReceive(0) /\ ~Terminal(e)
  BY <1>1 DEF Course, Terminal
<1>3. 0 \in Number /\ Num(s, 0) \in Number
  BY <1>0, Constants, Places DEF Number
<1>4. /\ recv[e].buf = {} /\ ~recv[e].eof /\ recv'[e].ack = Num(s, 0) /\ recv'[e].buf = {}
      /\ ~recv'[e].eof /\ Buffered(recv'[e]) = 0
  BY <1>2, <1>3, NewReceiveFacts
<1>5. At(e)' = 0 /\ Len(got'[e]) = 0 /\ got'[e] = <<>>
  BY <1>2, <1>4 DEF At
<1>6. sent'[s] \in Nat /\ 0 <= sent'[s]
  BY <1>0, SideTypesNext
<1>7. got'[e] = [i \in 1..Len(got'[e]) |-> i]
  BY <1>5
<1>8. Receiving(e)'
  BY <1>4, <1>5, <1>6, <1>7, Constants DEF Receiving
<1>9. Keeps(e)
  BY <1>2, <1>4 DEF Keeps, Acked, Has
<1> QED BY <1>8, <1>9

\* accept_syn keeps the invariant.
LEMMA StepAcceptSyn ==
  ASSUME UtpInv, NEW p \in net, AcceptSyn(p)
  PROVE  UtpInv'
<1> DEFINE e == Acceptor
<1>0. e \in Side /\ Initiator \in Side /\ Peer(e) = Initiator /\ e # Initiator
  BY SidesFacts DEF Peer
<1>1. Types /\ Course(e) /\ Sending(e)
  BY <1>0 DEF UtpInv
<1>2. /\ p.kind = "SYN" /\ phase[e] = "None" /\ phase' = [phase EXCEPT ![e] = "Connected"]
      /\ recv' = [recv EXCEPT ![e] = NewReceive(p.seq)]
      /\ ackDue' = [ackDue EXCEPT ![e] = TRUE]
      /\ UNCHANGED <<send, retx, flight, synDue, written, sent, closing, got>>
      /\ (net' = net \/ net' = net \ {p})
  BY DEF AcceptSyn, sendVars, appVars, Arrives
<1>3. p.seq = Num(Peer(e), 0)
  <2>1. p = SynPacket(Initiator)
    BY <1>2 DEF UtpInv, Carries
  <2>2. p.seq = Iss[Initiator]
    BY <2>1 DEF SynPacket
  <2>3. Iss[Initiator] \in Number /\ 0 \in Number /\ Iss[Initiator] + 0 < Modulus
        /\ Iss[Initiator] + 0 = Iss[Initiator]
    BY <1>0, Constants DEF Number
  <2>4. Num(Initiator, 0) = Iss[Initiator]
    BY <2>3, AddNumber DEF Num, Base
  <2> QED BY <1>0, <2>2, <2>4
<1>4. 0 \in Number /\ Num(Peer(e), 0) \in Number
  <2>1. 0 \in Number
    BY Constants DEF Number
  <2> QED BY <1>0, <2>1, Places
<1>5. recv'[e] = NewReceive(Num(Peer(e), 0)) /\ phase'[e] = "Connected" /\ ~Terminal(e)'
      /\ ~Terminal(e)
  BY <1>0, <1>1, <1>2, <1>3 DEF Types, Terminal
<1>6. recv'[e] \in RecvLedger /\ ~recv'[e].eof
  BY <1>4, <1>5, NewReceiveFacts
<1>7. Types'
  <2>1. net' \subseteq Datagram /\ IsFiniteSet(net') /\ Cardinality(net') <= NetMax
    BY <1>1, <1>2, ArrivesFacts
  <2>2. recv' \in [Side -> RecvLedger]
    BY <1>0, <1>1, <1>2, <1>3, <1>5, <1>6 DEF Types
  <2>3. phase' \in [Side -> {"None", "SynSent", "Connected", "LocalFinSent",
                             "RemoteFinReceived", "Closing", "Reset", "Closed"}]
    BY <1>1, <1>2 DEF Types
  <2>4. ackDue' \in [Side -> BOOLEAN]
    BY <1>1, <1>2 DEF Types
  <2> QED BY <1>1, <1>2, <2>1, <2>2, <2>3, <2>4 DEF Types
<1>8. SameSide(Peer(e))
  BY <1>0, <1>1, <1>2 DEF SameSide, Types
<1>9. Receiving(e)' /\ Keeps(e)
  <2>1. got'[e] = got[e] /\ sent'[Peer(e)] = sent[Peer(e)]
    BY <1>2
  <2> QED BY <1>0, <1>2, <1>5, <1>7, <2>1, FoundedFacts
<1>10. Course(e)'
  <2>1. written[e] = 0 /\ ~send[e].fin /\ got[e] = <<>> /\ ~closing[e]
    BY <1>1, <1>2, <1>5 DEF Course
  <2>2. phase'[e] = PhaseOf(send'[e].fin, recv'[e].eof)
    BY <1>2, <1>5, <1>6, <2>1 DEF PhaseOf
  <2> QED BY <1>2, <1>5, <2>1, <2>2 DEF Course
<1>11. Sending(e)'
  <2>1. phase[e] # "SynSent" /\ phase'[e] # "SynSent"
    BY <1>2, <1>5
  <2> QED BY <1>1, <1>2, <1>5, <2>1 DEF Sending, Top, KindAt, PosAt
<1>12. WorkOf(e)'
  <2>1. WorkOf(e)
    BY <1>0, WorkKept
  <2> QED BY <1>2, <2>1 DEF WorkOf
<1>13. sent'[e] = sent[e] /\ send'[e] = send[e] /\ net' \subseteq net
  BY <1>2
<1> HIDE DEF e
<1> QED BY <1>0, <1>5, <1>7, <1>8, <1>9, <1>10, <1>11, <1>12, <1>13, ArrivalStep

\* The place of a datagram that carries one.
LEMMA PlaceOf ==
  ASSUME UtpInv, NEW p \in net, p.kind \in {"DATA", "FIN"}
  PROVE  /\ p.from \in Side
         /\ \E k \in 1..Top(p.from) : /\ p.kind = KindAt(p.from, k) /\ p.seq = Num(p.from, k)
                                      /\ p.pos = PosAt(p.from, k)
<1>0. p \in Datagram /\ Carries(p) /\ Types
  BY DEF UtpInv, Types
<1>1. p.from \in Side
  BY <1>0 DEF Datagram
<1> DEFINE s == p.from
<1>2. sent[s] \in Nat /\ Top(s) \in Nat /\ sent[s] <= Top(s)
  BY <1>0, <1>1, SideTypes
<1>3. CASE p.kind = "DATA"
  <2>1. p.pos \in 1..sent[s] /\ p.seq = Num(s, p.pos)
    BY <1>0, <1>3 DEF Carries
  <2>2. KindAt(s, p.pos) = "DATA" /\ PosAt(s, p.pos) = p.pos /\ p.pos \in 1..Top(s)
    BY <1>2, <2>1 DEF KindAt, PosAt
  <2> QED BY <1>1, <1>3, <2>1, <2>2
<1>4. CASE p.kind = "FIN"
  <2>1. send[s].fin /\ p.pos = 0 /\ p.seq = Num(s, sent[s] + 1)
    BY <1>0, <1>4 DEF Carries
  <2>2. KindAt(s, sent[s] + 1) = "FIN" /\ PosAt(s, sent[s] + 1) = 0 /\ sent[s] + 1 \in 1..Top(s)
    BY <1>2, <2>1 DEF KindAt, PosAt, Top
  <2> QED BY <1>1, <1>4, <2>1, <2>2
<1> QED BY <1>3, <1>4

\* From place a, with the packets B held beyond it, the ledger moves n places on to q and
\* gives g.
Advance(s, a, B, q, g, n) ==
  /\ q \in RecvLedger /\ a + n <= Top(s) /\ q.ack = Num(s, a + n)
  /\ q.eof <=> a + n = sent[s] + 1
  /\ g \in Seq(Nat) /\ Len(g) = (IF q.eof THEN n - 1 ELSE n)
  /\ \A i \in 1..Len(g) : g[i] = a + i
  /\ HeldFrom(s, a + n, q.buf)
  /\ \A x \in B : x \in q.buf \/ \E j \in a + 1..a + n : x = PacketAt(s, j)
  /\ Buffered(q) <= MaxReceive

\* What e then has: the units w, and every place it had.
Still(s, k, q, w) ==
  /\ k <= Len(w) \/ (k = sent[s] + 1 /\ q.eof) \/ \E x \in q.buf : x.seq = Num(s, k)
  /\ k <= sent[s] => k # Len(w) + 1
Advanced(s, a, B, q, n, w) ==
  /\ w \in Seq(Nat) /\ Len(w) \in Nat /\ Len(w) >= a /\ Len(w) <= sent[s]
  /\ w = [i \in 1..Len(w) |-> i]
  /\ q.eof => send[s].fin /\ Len(w) = sent[s]
  /\ (IF q.eof THEN Len(w) + 1 ELSE Len(w)) = a + n
  /\ \A k \in 1..Top(s) : k <= a \/ (\E x \in B : x.seq = Num(s, k)) => Still(s, k, q, w)

\* ReceiveState::receive takes some number n of places from the stream.
LEMMA AdvanceExists ==
  ASSUME Types, NEW s \in Side, NEW r \in RecvLedger, NEW a \in Nat, a <= sent[s], ~r.eof,
         r.ack = Num(s, a), HeldFrom(s, a, r.buf),
         NEW k \in a + 1..Top(s), k <= a + MaxDistance,
         Buffered(r) + Payload(KindAt(s, k)) <= MaxReceive
  PROVE  \E n \in Nat : Advance(s, a, r.buf, Receive(r, KindAt(s, k), Num(s, k), PosAt(s, k)),
                                Given(r, KindAt(s, k), Num(s, k), PosAt(s, k)), n)
<1> DEFINE q == Receive(r, KindAt(s, k), Num(s, k), PosAt(s, k))
           g == Given(r, KindAt(s, k), Num(s, k), PosAt(s, k))
<1>1. PICK n \in Nat :
              /\ q \in RecvLedger /\ a + n <= Top(s) /\ q.ack = Num(s, a + n)
              /\ q.eof <=> a + n = sent[s] + 1
              /\ g \in Seq(Nat) /\ Len(g) = (IF q.eof THEN n - 1 ELSE n)
              /\ \A i \in 1..Len(g) : g[i] = a + i
              /\ HeldFrom(s, a + n, q.buf)
              /\ \A x \in r.buf \cup {PacketAt(s, k)} :
                   x \in q.buf \/ \E j \in a + 1..a + n : x = PacketAt(s, j)
              /\ Buffered(q) <= MaxReceive
  BY ReceiveFacts
<1> HIDE DEF q, g
<1>2. Advance(s, a, r.buf, q, g, n)
  BY <1>1 DEF Advance
<1> QED BY <1>2 DEF q, g

\* What the application has been given after that is again a prefix of the stream.
LEMMA AdvanceFacts ==
  ASSUME Types, NEW s \in Side, NEW a \in Nat, NEW B, NEW q, NEW g, NEW n \in Nat,
         a <= sent[s], Advance(s, a, B, q, g, n),
         NEW h \in Seq(Nat), Len(h) = a, h = [i \in 1..a |-> i], NEW h2, h2 = h \o g
  PROVE  Advanced(s, a, B, q, n, h2)
<1>1. sent[s] \in Nat /\ Top(s) \in Nat /\ Top(s) <= sent[s] + 1 /\ send[s].fin \in BOOLEAN
  BY SideTypes
<1>2. /\ q \in RecvLedger /\ a + n <= Top(s) /\ (q.eof <=> a + n = sent[s] + 1)
      /\ g \in Seq(Nat) /\ Len(g) = (IF q.eof THEN n - 1 ELSE n)
      /\ \A i \in 1..Len(g) : g[i] = a + i
  BY DEF Advance
<1>3. q.eof \in BOOLEAN /\ Len(g) \in Nat
  BY <1>2, LenProperties DEF RecvLedger
<1>4. /\ h2 \in Seq(Nat) /\ Len(h2) = a + Len(g)
      /\ \A i \in 1..Len(h2) : h2[i] = IF i <= a THEN h[i] ELSE g[i - a]
  BY <1>2, ConcatProperties
<1>5. /\ ~q.eof => Len(h2) = a + n /\ Len(h2) <= sent[s]
      /\ q.eof => Len(h2) = sent[s] /\ a + n = sent[s] + 1
      /\ Len(h2) >= a /\ Len(h2) \in Nat
  BY <1>1, <1>2, <1>3, <1>4
<1>6. q.eof => send[s].fin
  BY <1>1, <1>2 DEF Top
<1>7. h2 = [i \in 1..Len(h2) |-> i]
  <2>1. \A i \in 1..Len(h2) : h2[i] = i
    <3> TAKE i \in 1..Len(h2)
    <3>1. CASE i <= a
      <4>1. i \in 1..a /\ h2[i] = h[i]
        BY <1>4, <1>5, <3>1
      <4> QED BY <4>1
    <3>2. CASE ~(i <= a)
      <4>1. i - a \in 1..Len(g) /\ h2[i] = g[i - a]
        BY <1>3, <1>4, <1>5, <3>2
      <4>2. g[i - a] = a + (i - a)
        BY <1>2, <4>1
      <4> QED BY <1>5, <4>1, <4>2
    <3> QED BY <3>1, <3>2
  <2>2. h2 = [i \in 1..Len(h2) |-> h2[i]]
    BY <1>4
  <2>3. DOMAIN h2 = 1..Len(h2)
    BY <1>4, LenProperties
  <2> QED BY <2>1, <2>2, <2>3
<1>8. ASSUME NEW k \in 1..Top(s), k <= a \/ \E x \in B : x.seq = Num(s, k)
      PROVE  Still(s, k, q, h2)
  <2>1. k \in Number /\ \A j \in 0..Top(s) : j \in Number
    BY <1>1, StreamFits
  <2>2. k <= a + n \/ \E x \in q.buf : x.seq = Num(s, k)
    <3>1. CASE k <= a
      BY <1>1, <3>1
    <3>2. ASSUME NEW x \in B, x.seq = Num(s, k), x \notin q.buf PROVE k <= a + n
      <4>1. PICK j \in a + 1..a + n : x = PacketAt(s, j)
        BY <3>2 DEF Advance
      <4>2. j \in 0..Top(s) /\ j <= a + n
        BY <1>1, <1>2, <4>1
      <4>3. x.seq = Num(s, j) /\ j \in Number
        BY <2>1, <4>1, <4>2 DEF PacketAt
      <4>4. j = k
        BY ZenonT(30), <2>1, <3>2, <4>3, Places
      <4> QED BY <4>2, <4>4
    <3> QED BY <1>8, <3>1, <3>2
  <2>3. k <= a + n => k <= Len(h2) \/ (k = sent[s] + 1 /\ q.eof)
    BY <1>1, <1>5
  <2>4. ASSUME k <= sent[s], k = Len(h2) + 1 PROVE FALSE
    <3>1. ~q.eof /\ k = a + n + 1
      BY <1>1, <1>5, <1>3, <2>4
    <3>2. PICK x \in q.buf : x.seq = Num(s, k)
      BY <2>2, <3>1
    <3>3. PICK j \in a + n + 2..Top(s) : x = PacketAt(s, j)
      BY DEF Advance, HeldFrom
    <3>4. j \in 0..Top(s) /\ j # k
      BY <1>1, <3>1, <3>3
    <3>5. x.seq = Num(s, j) /\ j \in Number
      BY <2>1, <3>3, <3>4 DEF PacketAt
    <3> QED BY ZenonT(30), <2>1, <3>2, <3>4, <3>5, Places
  <2> QED BY <2>2, <2>3, <2>4 DEF Still
<1>9. Len(h2) <= sent[s] /\ (IF q.eof THEN Len(h2) + 1 ELSE Len(h2)) = a + n
  BY <1>1, <1>3, <1>5
<1> QED BY <1>4, <1>5, <1>6, <1>7, <1>8, <1>9 DEF Advanced

\* A packet the ledger takes.
LEMMA TakenFacts ==
  ASSUME UtpInv, NEW p \in net, NEW e \in Side, e = Peer(p.from), Established(e),
         Takes(recv[e], p)
  PROVE  /\ ~recv[e].eof /\ Len(got[e]) <= sent[Peer(e)]
         /\ \E n \in Nat :
              Advance(Peer(e), Len(got[e]), recv[e].buf, Receive(recv[e], p.kind, p.seq, p.pos),
                      Given(recv[e], p.kind, p.seq, p.pos), n)
<1>0. p.kind \in {"DATA", "FIN"} /\ Receivable(recv[e], p.kind, p.seq)
  BY DEF Takes
<1>1. Types /\ Receiving(e)
  BY DEF UtpInv
<1>2. PICK s \in Side : s = Peer(e) /\ s = p.from
  BY <1>0, PlaceOf, SidesFacts
<1>3. PICK k \in 1..Top(s) : p.kind = KindAt(s, k) /\ p.seq = Num(s, k) /\ p.pos = PosAt(s, k)
  BY <1>0, <1>2, PlaceOf
<1>4. PICK r \in RecvLedger : r = recv[e]
  BY <1>1, SideTypes
<1>5. PICK a \in Nat : a = Len(got[e])
  BY <1>1, SideTypes
<1>6. PICK c \in Nat : c = At(e)
  BY <1>1, SideTypes
<1>7. sent[s] \in Nat /\ Top(s) \in Nat /\ Top(s) <= sent[s] + 1 /\ r.eof \in BOOLEAN
  BY <1>1, <1>4, SideTypes DEF RecvLedger
<1>8. r.ack = Num(s, c) /\ HeldFrom(s, c, r.buf) /\ c <= Top(s)
      /\ (r.eof => a = sent[s] /\ c = a + 1) /\ (~r.eof => c = a) /\ a <= sent[s]
  BY <1>1, <1>2, <1>4, <1>5, <1>6, HeldOf DEF Receiving, At
<1>9. k \in Number /\ c \in Number
  <2>1. \A j \in 0..Top(s) + 1 : j \in Number
    BY <1>1, StreamFits
  <2> QED BY <1>7, <1>8, <2>1
<1>10. After(p.seq, r.ack) /\ Distance(p.seq, r.ack) <= MaxDistance
       /\ Buffered(r) + Payload(p.kind) <= MaxReceive
  BY <1>0, <1>4 DEF Receivable
<1>11. k > c
  <2>1. c - k < Half
    BY <1>1, <1>7, <1>8, StreamFits, Constants
  <2> QED BY <1>3, <1>8, <1>9, <1>10, <2>1, Order
<1>12. k - c <= MaxDistance
  <2>1. Distance(Num(s, k), Num(s, c)) = k - c
    BY <1>9, <1>11, Places
  <2> QED BY <1>3, <1>8, <1>10, <2>1
<1>13. ~r.eof /\ c = a
  BY <1>7, <1>8, <1>11
<1>14. k \in a + 1..Top(s) /\ k <= a + MaxDistance /\ HeldFrom(s, a, r.buf) /\ r.ack = Num(s, a)
  BY <1>7, <1>8, <1>11, <1>12, <1>13, Constants
<1>15. Buffered(r) + Payload(KindAt(s, k)) <= MaxReceive
  BY <1>3, <1>10
<1>16. \E n \in Nat : Advance(s, a, r.buf, Receive(r, KindAt(s, k), Num(s, k), PosAt(s, k)),
                                Given(r, KindAt(s, k), Num(s, k), PosAt(s, k)), n)
  BY <1>1, <1>8, <1>13, <1>14, <1>15, AdvanceExists
<1> QED BY <1>2, <1>3, <1>4, <1>5, <1>8, <1>13, <1>16

\* What the receiver has after it has taken a packet.
LEMMA TakenKeeps ==
  ASSUME UtpInv, Types', NEW p \in net, NEW e \in Side, e = Peer(p.from), Established(e),
         Takes(recv[e], p), ~Terminal(e), ~Terminal(e)',
         recv'[e] = Receive(recv[e], p.kind, p.seq, p.pos),
         got'[e] = got[e] \o Given(recv[e], p.kind, p.seq, p.pos),
         sent'[Peer(e)] = sent[Peer(e)], send'[Peer(e)] = send[Peer(e)]
  PROVE  Receiving(e)' /\ Keeps(e) /\ Len(got'[e]) >= Len(got[e])
<1>0. Types /\ Receiving(e)
  BY DEF UtpInv
<1>1. PICK s \in Side : s = Peer(e)
  BY SidesFacts
<1>2. PICK a \in Nat : a = Len(got[e])
  BY <1>0, SideTypes
<1>3. PICK g : g = Given(recv[e], p.kind, p.seq, p.pos)
  OBVIOUS
<1>4. PICK q : q = recv'[e]
  OBVIOUS
<1>5. PICK n \in Nat : Advance(s, a, recv[e].buf, q, g, n)
  BY <1>1, <1>2, <1>3, <1>4, TakenFacts
<1>6. ~recv[e].eof /\ a <= sent[s]
  BY <1>1, <1>2, TakenFacts
<1>7. PICK h \in Seq(Nat) : h = got[e]
  BY <1>0, SideTypes
<1>8. Len(h) = a /\ h = [i \in 1..a |-> i]
  BY <1>0, <1>2, <1>7 DEF Receiving
<1>9. PICK w : w = got'[e] /\ w = h \o g
  BY <1>3, <1>7
<1>10. Advanced(s, a, recv[e].buf, q, n, w)
  BY <1>0, <1>5, <1>6, <1>8, <1>9, AdvanceFacts
<1>11. Top(s)' = Top(s) /\ (\A k : PacketAt(s, k)' = PacketAt(s, k)) /\ sent'[s] = sent[s]
       /\ send'[s] = send[s]
  BY <1>1 DEF Top, PacketAt, KindAt, PosAt
<1>12. At(e)' = a + n
  BY <1>4, <1>9, <1>10 DEF At, Advanced
<1>13. \A x \in recv'[e].buf : \E k \in At(e)' + 2..Top(s)' :
          k <= At(e)' + MaxDistance /\ x = PacketAt(s, k)'
  BY <1>4, <1>5, <1>11, <1>12 DEF Advance, HeldFrom
<1>14. Receiving(e)'
  <2>1. recv'[e].ack = Num(s, At(e)') /\ Buffered(recv'[e]) <= MaxReceive
    BY <1>4, <1>5, <1>12 DEF Advance
  <2>2. recv'[e].eof => send'[s].fin /\ Len(got'[e]) = sent'[s]
    BY <1>4, <1>9, <1>10, <1>11 DEF Advanced
  <2>3. got'[e] = [i \in 1..Len(got'[e]) |-> i] /\ Len(got'[e]) <= sent'[s]
    BY <1>9, <1>10, <1>11 DEF Advanced
  <2> QED BY <1>1, <1>13, <2>1, <2>2, <2>3 DEF Receiving
<1>15. ASSUME NEW k \in 1..Top(s), Acked(e, k) PROVE Acked(e, k)'
  <2>1. Has(e, k)
    BY <1>15 DEF Acked
  <2>2. k <= a \/ \E x \in recv[e].buf : x.seq = Num(s, k)
    BY <1>1, <1>2, <1>6, <2>1 DEF Has
  <2>3. Still(s, k, q, w)
    BY <1>10, <2>2 DEF Advanced
  <2> QED BY <1>1, <1>4, <1>9, <1>11, <2>3 DEF Acked, Has, Still
<1>16. Len(got'[e]) >= Len(got[e])
  BY <1>2, <1>9, <1>10 DEF Advanced
<1> QED BY <1>1, <1>14, <1>15, <1>16 DEF Keeps

\* The acknowledgement of p settled in e's send ledger.
Settling(e, p) ==
  LET t == send[e]
  IN IF Usable(t, p.ack)
     THEN \E u \in Acknowledged(t, p) :
            LET lost == LostIn(u) \ LostIn(t)
            IN  /\ send' = [send EXCEPT ![e] = u]
                /\ retx' = [retx EXCEPT ![e] = Schedule(Unschedule(@, u), u, lost, TRUE)]
                /\ flight' = [flight EXCEPT ![e] = (@ \cap Outstanding(u)) \ lost]
     ELSE UNCHANGED sendVars

\* The sender's half of TransportState::incoming.
LEMMA SettlingFacts ==
  ASSUME UtpInv, NEW p \in net, NEW e \in Side, Settling(e, p)
  PROVE  /\ send' \in [Side -> SendLedger] /\ retx' \in [Side -> Seq(Work)]
         /\ flight' \in [Side -> SUBSET Number]
         /\ \A f \in Side : f # e => send'[f] = send[f] /\ retx'[f] = retx[f] /\ flight'[f] = flight[f]
         /\ send'[e].next = send[e].next /\ send'[e].fin = send[e].fin
         /\ Within(send'[e], send[e]) /\ Distinct(send'[e].out) /\ WorkOf(e)'
         /\ send'[e].cum = IF Usable(send[e], p.ack) THEN p.ack ELSE send[e].cum
         /\ \A j \in DOMAIN send[e].out : send[e].out[j].seq \notin Outstanding(send'[e]) =>
              Usable(send[e], p.ack) /\ Released(send[e], p.ack, p.sack, send[e].out[j])
<1> DEFINE t == send[e]
<1>1. Types /\ Sending(e) /\ t \in SendLedger /\ p.ack \in Number
  BY SideTypes DEF UtpInv, Types, Datagram
<1>2. Distinct(t.out)
  BY <1>1 DEF Sending, Distinct
<1>3. retx[e] \in Seq(Work) /\ flight[e] \subseteq Outstanding(t) /\ WorkOf(e)
  BY <1>1, WorkKept DEF Types, Work, WorkOf
<1>4. CASE ~Usable(t, p.ack)
  <2>1. send' = send /\ retx' = retx /\ flight' = flight
    BY <1>4 DEF Settling, sendVars
  <2>2. Within(t, t) /\ \A j \in DOMAIN t.out : t.out[j].seq \in Outstanding(t)
    BY DEF Within, Outstanding
  <2>3. WorkOf(e)'
    BY <1>3, <2>1 DEF WorkOf
  <2>4. send' \in [Side -> SendLedger] /\ retx' \in [Side -> Seq(Work)]
        /\ flight' \in [Side -> SUBSET Number]
    BY <1>1, <2>1 DEF Types, Work
  <2> QED BY <1>2, <1>4, <2>1, <2>2, <2>3, <2>4
<1>5. CASE Usable(t, p.ack)
  <2>1. PICK u \in Acknowledged(t, p) :
            LET lost == LostIn(u) \ LostIn(t)
            IN  /\ send' = [send EXCEPT ![e] = u]
                /\ retx' = [retx EXCEPT ![e] = Schedule(Unschedule(@, u), u, lost, TRUE)]
                /\ flight' = [flight EXCEPT ![e] = (@ \cap Outstanding(u)) \ lost]
    BY <1>5 DEF Settling
  <2> DEFINE lost == LostIn(u) \ LostIn(t)
             q == Schedule(Unschedule(retx[e], u), u, lost, TRUE)
             fl == (flight[e] \cap Outstanding(u)) \ lost
  <2>2. /\ send' = [send EXCEPT ![e] = u] /\ retx' = [retx EXCEPT ![e] = q]
        /\ flight' = [flight EXCEPT ![e] = fl]
    BY <2>1
  <2>3. /\ u \in SendLedger /\ u.next = t.next /\ u.cum = p.ack /\ u.fin = t.fin
        /\ Distinct(u.out) /\ Within(u, t)
        /\ \A j \in DOMAIN t.out :
             t.out[j].seq \notin Outstanding(u) => Released(t, p.ack, p.sack, t.out[j])
    <3>1. PICK old \in SUBSET ResentIn(t) : u = Acknowledge(t, p.ack, p.sack, p.kind, old)
      BY <2>1 DEF Acknowledged
    <3> QED BY <1>1, <1>2, <3>1, AcknowledgeFacts
  <2>4. Unschedule(retx[e], u) \in Seq(Work) /\ Queued(Unschedule(retx[e], u)) \subseteq Outstanding(u)
    BY <1>3, UnscheduleFacts
  <2>5. q \in Seq(Work) /\ Queued(q) \subseteq Outstanding(u)
    BY <2>3, <2>4, ScheduleFacts
  <2>6. fl \subseteq Outstanding(u) /\ Outstanding(u) \subseteq Number
    BY <2>3, LedgerNumbers
  <2> HIDE DEF q, fl
  <2>7. send'[e] = u /\ retx'[e] = q /\ flight'[e] = fl
    BY <1>1, <2>2 DEF Types
  <2>8. WorkOf(e)'
    <3>1. Queued(retx'[e]) \subseteq Outstanding(send'[e]) /\ flight'[e] \subseteq Outstanding(send'[e])
      BY <2>5, <2>6, <2>7
    <3> QED BY <3>1 DEF WorkOf
  <2>9. send' \in [Side -> SendLedger]
    BY <1>1, <2>2, <2>3 DEF Types
  <2>10. retx' \in [Side -> Seq(Work)]
    <3>1. retx \in [Side -> Seq(Work)]
      BY <1>1 DEF Types, Work
    <3> QED BY <2>2, <2>5, <3>1
  <2>11. flight' \in [Side -> SUBSET Number]
    BY <1>1, <2>2, <2>6 DEF Types
  <2>12. \A f \in Side : f # e => send'[f] = send[f] /\ retx'[f] = retx[f] /\ flight'[f] = flight[f]
    BY <1>1, <2>2 DEF Types
  <2> QED BY <1>5, <2>3, <2>7, <2>8, <2>9, <2>10, <2>11, <2>12
<1> QED BY <1>4, <1>5

\* A packet that an acknowledgement releases is one the peer has.
LEMMA ReleasedIsAcked ==
  ASSUME UtpInv, NEW p \in net, p.kind # "SYN", NEW e \in Side, e = Peer(p.from), Established(e),
         Usable(send[e], p.ack), NEW y, Released(send[e], p.ack, p.sack, y),
         NEW k \in 1..Top(e), y.seq = Num(e, k)
  PROVE  Acked(p.from, k)
<1> DEFINE t == send[e]
<1>1. Types /\ Sending(e) /\ Claims(p) /\ Top(e) \in Nat
  BY SideTypes DEF UtpInv
<1>2. PICK x \in 0..Top(e) :
        /\ p.ack = Num(e, x)
        /\ \A o \in p.sack : x + o <= Top(e)
        /\ \A n \in 1..Top(e) : Covers(p, x, n) => Acked(p.from, n)
  BY <1>1 DEF Claims
<1>3. PICK c \in 0..Top(e) : t.cum = Num(e, c)
  BY <1>1 DEF Sending, Established, Terminal
<1>4. x \in Number /\ c \in Number /\ k \in Number /\ Top(e) < Half /\ Half \in Nat
  <2>1. \A j \in 0..Top(e) + 1 : j \in Number
    BY <1>1, StreamFits
  <2>2. Top(e) + 1 <= Half /\ Half \in Nat
    BY <1>1, StreamFits, Constants
  <2> QED BY <1>1, <2>1, <2>2
<1>5. /\ c - k < Half /\ x - k < Half /\ c - x < Half
  BY <1>1, <1>4
<1>6. Covers(p, x, k)
  <2>1. CASE p.ack # t.cum /\ After(y.seq, t.cum) /\ Distance(y.seq, t.cum) <= Distance(p.ack, t.cum)
    <3>1. After(p.ack, t.cum)
      BY <2>1 DEF Usable
    <3>2. x > c /\ k > c
      BY <1>2, <1>3, <1>4, <1>5, <2>1, <3>1, Order
    <3>3. Distance(Num(e, x), Num(e, c)) = x - c /\ Distance(Num(e, k), Num(e, c)) = k - c
      BY <1>4, <3>2, Places
    <3>4. k - c <= x - c
      BY <1>2, <1>3, <2>1, <3>3
    <3>5. k <= x
      BY <1>1, <3>4
    <3> QED BY <3>5 DEF Covers
  <2>2. CASE After(y.seq, p.ack) /\ Distance(y.seq, p.ack) \in Reported(t, p.ack, p.sack)
    <3>1. k > x
      BY <1>2, <1>4, <1>5, <2>2, Order
    <3>2. Distance(Num(e, k), Num(e, x)) = k - x
      BY <1>4, <3>1, Places
    <3>3. k - x \in p.sack
      BY <1>2, <2>2, <3>2 DEF Reported
    <3> QED BY <3>3 DEF Covers
  <2> QED BY <2>1, <2>2 DEF Released
<1> QED BY <1>2, <1>6

\* e is offered p: its receive ledger becomes q and its application has w.
Offered(e, p, q, w) ==
  /\ recv' = [recv EXCEPT ![e] = q] /\ got' = [got EXCEPT ![e] = w]
  /\ Settling(e, p)
  /\ phase' = [phase EXCEPT ![e] = PhaseOf(send'[e].fin, recv'[e].eof)]
  /\ ackDue' = [ackDue EXCEPT ![e] = @ \/ p.kind \in {"DATA", "FIN"}]
  /\ (net' = net \/ net' = net \ {p})
  /\ UNCHANGED <<synDue, written, sent, closing>>

\* The shape of the state after a datagram was taken in.
LEMMA OfferedTypes ==
  ASSUME UtpInv, NEW p \in net, NEW e \in Side, NEW q \in RecvLedger, NEW w \in Seq(Nat),
         Offered(e, p, q, w)
  PROVE  /\ Types' /\ SameSide(Peer(e)) /\ ~Terminal(e)' /\ Established(e)'
         /\ recv'[e] = q /\ got'[e] = w /\ sent'[e] = sent[e] /\ net' \subseteq net
         /\ phase'[e] = PhaseOf(send'[e].fin, recv'[e].eof)
<1>1. Types
  BY DEF UtpInv
<1>2. /\ send' \in [Side -> SendLedger] /\ retx' \in [Side -> Seq(Work)]
      /\ flight' \in [Side -> SUBSET Number]
      /\ \A f \in Side : f # e => send'[f] = send[f] /\ retx'[f] = retx[f] /\ flight'[f] = flight[f]
  BY SettlingFacts DEF Offered
<1>3. recv'[e] = q /\ recv' \in [Side -> RecvLedger] /\ got'[e] = w /\ got' \in [Side -> Seq(Nat)]
      /\ \A f \in Side : f # e => recv'[f] = recv[f] /\ got'[f] = got[f]
  BY <1>1 DEF Offered, Types
<1>4. send'[e].fin \in BOOLEAN /\ recv'[e].eof \in BOOLEAN
  BY <1>2, <1>3 DEF SendLedger, RecvLedger
<1>5. PhaseOf(send'[e].fin, recv'[e].eof) \in
         {"Connected", "LocalFinSent", "RemoteFinReceived", "Closing"}
  BY <1>4 DEF PhaseOf
<1>6. /\ phase'[e] = PhaseOf(send'[e].fin, recv'[e].eof)
      /\ phase' \in [Side -> {"None", "SynSent", "Connected", "LocalFinSent",
                              "RemoteFinReceived", "Closing", "Reset", "Closed"}]
      /\ \A f \in Side : f # e => phase'[f] = phase[f]
  <2>1. phase' = [phase EXCEPT ![e] = PhaseOf(send'[e].fin, recv'[e].eof)]
    BY DEF Offered
  <2>2. PICK ph : ph = PhaseOf(send'[e].fin, recv'[e].eof)
    OBVIOUS
  <2> QED BY <1>1, <1>5, <2>1, <2>2 DEF Types
<1>7. ~Terminal(e)' /\ Established(e)'
  BY <1>5, <1>6 DEF Terminal, Established
<1>8. ackDue' \in [Side -> BOOLEAN] /\ \A f \in Side : f # e => ackDue'[f] = ackDue[f]
  <2>1. ackDue \in [Side -> BOOLEAN] /\ ackDue' = [ackDue EXCEPT ![e] = @ \/ p.kind \in {"DATA", "FIN"}]
    BY <1>1 DEF Offered, Types
  <2> QED BY <2>1
<1>9. net' \subseteq Datagram /\ IsFiniteSet(net') /\ Cardinality(net') <= NetMax /\ net' \subseteq net
  BY <1>1, ArrivesFacts DEF Offered
<1>10. Types'
  BY <1>1, <1>2, <1>3, <1>6, <1>8, <1>9 DEF Types, Offered, Work
<1>11. SameSide(Peer(e))
  <2>1. Peer(e) \in Side /\ Peer(e) # e
    BY SidesFacts
  <2> QED BY <1>2, <1>3, <1>6, <1>8, <2>1 DEF SameSide, Offered
<1>12. sent'[e] = sent[e]
  BY DEF Offered
<1> QED BY <1>3, <1>6, <1>7, <1>9, <1>10, <1>11, <1>12

\* Taking in a datagram keeps the invariant if the receiver keeps what it has.
LEMMA OfferedStep ==
  ASSUME UtpInv, NEW p \in net, p.kind # "SYN", NEW e \in Side, e = Peer(p.from), ~Terminal(e),
         phase[e] # "None",
         phase[e] = "SynSent" => Usable(send[e], p.ack) /\ p.ack = Num(e, 0),
         NEW q \in RecvLedger, NEW w \in Seq(Nat), Offered(e, p, q, w),
         Len(w) >= Len(got[e]), Receiving(e)', Keeps(e)
  PROVE  UtpInv'
<1>1. Types /\ Course(e) /\ Sending(e) /\ Claims(p) /\ Top(e) \in Nat /\ got[e] \in Seq(Nat)
      /\ Len(got[e]) \in Nat
  BY SideTypes DEF UtpInv
<1>2. /\ Types' /\ SameSide(Peer(e)) /\ ~Terminal(e)' /\ Established(e)'
      /\ recv'[e] = q /\ got'[e] = w /\ sent'[e] = sent[e] /\ net' \subseteq net
      /\ phase'[e] = PhaseOf(send'[e].fin, recv'[e].eof)
  BY OfferedTypes
<1>3. /\ send'[e].next = send[e].next /\ send'[e].fin = send[e].fin
      /\ Within(send'[e], send[e]) /\ Distinct(send'[e].out) /\ WorkOf(e)'
      /\ send'[e].cum = IF Usable(send[e], p.ack) THEN p.ack ELSE send[e].cum
      /\ \A j \in DOMAIN send[e].out : send[e].out[j].seq \notin Outstanding(send'[e]) =>
           Usable(send[e], p.ack) /\ Released(send[e], p.ack, p.sack, send[e].out[j])
  BY SettlingFacts DEF Offered
<1>4. Peer(e) = p.from /\ Peer(e) \in Side
  <2>1. p.from \in Side
    BY <1>1 DEF Types, Datagram
  <2> QED BY <2>1, SidesFacts
<1>5. phase'[e] # "SynSent" /\ phase'[e] # "None"
  BY <1>2 DEF Established
<1>6. \E c \in 0..Top(e) : send'[e].cum = Num(e, c)
  <2>1. CASE Usable(send[e], p.ack)
    <3>1. PICK x \in 0..Top(e) : p.ack = Num(e, x)
      BY <1>1 DEF Claims
    <3> QED BY <1>3, <2>1, <3>1
  <2>2. CASE ~Usable(send[e], p.ack)
    <3>1. phase[e] # "SynSent"
      BY <2>2
    <3> QED BY <1>1, <1>3, <2>2, <3>1 DEF Sending
  <2> QED BY <2>1, <2>2
<1>7. Sending(e)'
  BY <1>1, <1>2, <1>3, <1>5, <1>6, SendingKept
<1>8. Course(e)'
  <2>1. written'[e] = written[e] /\ closing'[e] = closing[e]
    BY DEF Offered
  <2>2. send[e].fin => closing[e] /\ sent[e] = written[e]
    BY <1>1 DEF Course
  <2>3. got'[e] = <<>> => got[e] = <<>>
    <3>1. Len(<<>>) = 0
      OBVIOUS
    <3>2. got'[e] = <<>> => Len(got[e]) = 0
      BY <1>1, <1>2, <3>1
    <3> QED BY <1>1, <3>2, EmptySeq
  <2>4. e = Acceptor /\ got[e] = <<>> => written[e] = 0 /\ ~send[e].fin /\ ~closing[e]
    BY <1>1 DEF Course
  <2> QED BY <1>2, <1>3, <1>5, <2>1, <2>2, <2>3, <2>4 DEF Course
<1>9. ASSUME NEW k \in 1..Top(e), Num(e, k) \notin Outstanding(send'[e]), Num(e, k) \in Outstanding(send[e])
      PROVE  Acked(Peer(e), k)
  <2>1. PICK j \in DOMAIN send[e].out : send[e].out[j].seq = Num(e, k)
    BY <1>9 DEF Outstanding
  <2>2. Usable(send[e], p.ack) /\ Released(send[e], p.ack, p.sack, send[e].out[j])
    BY <1>3, <1>9, <2>1
  <2>3. phase[e] # "SynSent"
    <3>1. phase[e] = "SynSent" => Top(e) = 0
      <4>1. sent[e] <= written[e] /\ sent[e] \in Nat /\ written[e] \in Nat
        BY <1>1 DEF Types
      <4> QED BY <1>1, <4>1 DEF Course, Top
    <3> QED BY <1>1, <3>1
  <2>4. Established(e)
    BY <2>3 DEF Established, Terminal
  <2> QED BY <1>4, <2>1, <2>2, <2>4, ReleasedIsAcked
<1> QED BY <1>2, <1>3, <1>7, <1>8, <1>9, ArrivalStep

\* The number before the first of a stream.
LEMMA BeforeFirst ==
  ASSUME NEW s \in Side
  PROVE  Add(Num(s, 1), Modulus - 1) = Num(s, 0)
<1>1. Base(s) \in Number /\ 0 \in Number /\ 1 \in Number /\ Modulus - 1 \in Number /\ Modulus \in Nat
  <2>1. Modulus \in Nat /\ Modulus >= 4
    BY Constants
  <2>2. 0 \in Number /\ 1 \in Number /\ Modulus - 1 \in Number
    BY <2>1 DEF Number
  <2> QED BY <2>1, <2>2, Places
<1>2. Num(s, 0) = Base(s)
  <2>1. Base(s) + 0 = Base(s) /\ Base(s) + 0 < Modulus
    BY <1>1 DEF Number
  <2> QED BY <1>1, <2>1, AddNumber DEF Num
<1>3. Num(s, 1) \in Number /\ (Base(s) + 1 < Modulus => Num(s, 1) = Base(s) + 1)
      /\ (Base(s) + 1 >= Modulus => Num(s, 1) = Base(s) + 1 - Modulus)
  BY <1>1, AddNumber DEF Num
<1>4. PICK b \in Number : b = Base(s)
  BY <1>1
<1>5. PICK m \in Number : m = Num(s, 1)
  BY <1>3
<1>6. /\ m + (Modulus - 1) < Modulus => Add(m, Modulus - 1) = m + (Modulus - 1)
      /\ m + (Modulus - 1) >= Modulus => Add(m, Modulus - 1) = m + (Modulus - 1) - Modulus
  BY <1>1, AddNumber
<1>7. Add(m, Modulus - 1) = b
  BY <1>1, <1>3, <1>4, <1>5, <1>6 DEF Number
<1> QED BY <1>2, <1>4, <1>5, <1>7

\* The first answer to the SYN.
LEMMA HandshakeFacts ==
  ASSUME UtpInv, NEW p \in net, p.kind # "SYN", NEW e \in Side, e = Peer(p.from),
         phase[e] = "SynSent", p.ack = Iss[e]
  PROVE  /\ p.kind = "STATE" /\ Ledger(e, p) = NewReceive(Num(Peer(e), 0))
         /\ Usable(send[e], p.ack) /\ p.ack = Num(e, 0)
<1>1. Types /\ Course(e) /\ Sending(e) /\ Carries(p) /\ p \in Datagram
  BY DEF UtpInv, Types
<1>2. p.from \in Side /\ p.from = Peer(e) /\ p.kind \in Kind
  BY <1>1, SidesFacts DEF Datagram
<1>3. e = Initiator /\ p.from = Acceptor /\ send[e].high = Iss[e] /\ written[e] = 0
  BY <1>1, <1>2, SidesFacts DEF Course
<1>4. PICK s \in Side : s = p.from
  BY <1>2
<1>5. Course(s) /\ Receiving(s) /\ Peer(s) = e
  BY <1>4 DEF UtpInv
<1>6. sent[e] = 0
  <2>1. sent[e] \in Nat /\ sent[e] <= written[e]
    BY <1>1 DEF Types
  <2> QED BY <1>3, <2>1
<1>7. got[s] = <<>>
  <2>1. Len(got[s]) <= 0 /\ Len(got[s]) \in Nat /\ got[s] \in Seq(Nat)
    BY <1>1, <1>5, <1>6, SideTypes DEF Receiving
  <2> QED BY <2>1, EmptySeq
<1>8. sent[s] = 0 /\ ~send[s].fin
  <2>1. sent[s] \in Nat /\ sent[s] <= written[s]
    BY <1>1 DEF Types
  <2>2. written[s] = 0 /\ ~send[s].fin
    BY <1>3, <1>4, <1>5, <1>7 DEF Course
  <2> QED BY <2>1, <2>2
<1>9. p.kind = "STATE"
  <2>1. p.kind # "DATA"
    BY <1>1, <1>4, <1>8 DEF Carries
  <2>2. p.kind # "FIN"
    BY <1>1, <1>4, <1>8 DEF Carries
  <2> QED BY <1>2, <2>1, <2>2 DEF Kind
<1>10. p.seq = Num(s, 1)
  BY <1>1, <1>4, <1>8, <1>9 DEF Carries
<1>11. Ledger(e, p) = NewReceive(Num(Peer(e), 0))
  BY <1>2, <1>4, <1>10, BeforeFirst DEF Ledger
<1>12. PICK i \in Number : i = Iss[e]
  BY Constants
<1>13. 0 \in Number /\ Modulus - 1 \in Number /\ Modulus \in Nat /\ Half \in Nat /\ Half >= 2
  BY Constants DEF Number
<1>14. p.ack = Num(e, 0)
  <2>1. i + 0 = i /\ i + 0 < Modulus
    BY <1>12, <1>13 DEF Number
  <2> QED BY <1>3, <1>12, <1>13, <2>1, AddNumber DEF Num, Base
<1>15. Usable(send[e], p.ack)
  <2>1. PICK c \in Number : c = Add(i, Modulus - 1)
    BY <1>13, AddNumber
  <2>2. (i = 0 => c = Modulus - 1) /\ (i > 0 => c = i - 1)
    <3>1. i + (Modulus - 1) < Modulus => c = i + (Modulus - 1)
      BY <1>13, <2>1, AddNumber
    <3>2. i + (Modulus - 1) >= Modulus => c = i + (Modulus - 1) - Modulus
      BY <1>13, <2>1, AddNumber
    <3> QED BY <1>13, <3>1, <3>2 DEF Number
  <2>3. Distance(i, c) = 1
    <3>1. (i >= c => Distance(i, c) = i - c) /\ (i < c => Distance(i, c) = i - c + Modulus)
      BY DistanceNumber
    <3>2. Modulus >= 2
      BY Constants
    <3> QED BY <1>13, <2>2, <3>1, <3>2 DEF Number
  <2>4. After(i, c)
    BY <1>13, <2>3 DEF After
  <2>5. send[e].cum = c
    BY <1>1, <1>12, <2>1 DEF Sending, Terminal
  <2>6. i # None
    BY <1>12 DEF None, Number
  <2> QED BY <1>3, <1>12, <2>4, <2>5, <2>6 DEF Usable
<1> QED BY <1>9, <1>11, <1>14, <1>15

\* TransportState::incoming keeps the invariant, whatever arrives and however late.
LEMMA StepIncoming ==
  ASSUME UtpInv, NEW p \in net, Incoming(p)
  PROVE  UtpInv'
<1>1. Types /\ p \in Datagram
  BY DEF UtpInv, Types
<1>2. PICK e \in Side : e = Peer(p.from)
  BY <1>1, SidesFacts DEF Datagram
<1>3. PICK r : r = Ledger(e, p)
  OBVIOUS
<1>4. PICK q : q = IF Takes(r, p) THEN Receive(r, p.kind, p.seq, p.pos) ELSE r
  OBVIOUS
<1>5. PICK w : w = IF Takes(r, p) THEN got[e] \o Given(r, p.kind, p.seq, p.pos) ELSE got[e]
  OBVIOUS
<1>6. /\ p.kind # "SYN" /\ phase[e] # "None" /\ ~Terminal(e)
      /\ phase[e] = "SynSent" => p.ack = Iss[e]
  BY <1>2 DEF Incoming, Dropped
<1>7. Offered(e, p, q, w)
  <2>1. recv' = [recv EXCEPT ![e] = q]
    BY <1>2, <1>3, <1>4 DEF Incoming
  <2>2. got' = [got EXCEPT ![e] = w]
    BY <1>2, <1>3, <1>5 DEF Incoming
  <2>3. Settling(e, p)
    BY <1>2 DEF Incoming, Settling
  <2>4. /\ phase' = [phase EXCEPT ![e] = PhaseOf(send'[e].fin, recv'[e].eof)]
        /\ ackDue' = [ackDue EXCEPT ![e] = @ \/ p.kind \in {"DATA", "FIN"}]
        /\ (net' = net \/ net' = net \ {p}) /\ UNCHANGED <<synDue, written, sent, closing>>
    BY <1>2 DEF Incoming, Arrives, appVars
  <2> QED BY <2>1, <2>2, <2>3, <2>4 DEF Offered
<1>8. got[e] \in Seq(Nat) /\ recv[e] \in RecvLedger /\ Len(got[e]) \in Nat
  BY <1>1, SideTypes
<1>9. CASE phase[e] = "SynSent"
  <2>1. p.kind = "STATE" /\ r = NewReceive(Num(Peer(e), 0)) /\ Usable(send[e], p.ack) /\ p.ack = Num(e, 0)
    BY <1>2, <1>3, <1>6, <1>9, HandshakeFacts
  <2>2. q = r /\ w = got[e]
    BY <1>4, <1>5, <2>1 DEF Takes
  <2>3. q \in RecvLedger
    <3>1. 0 \in Number /\ Peer(e) \in Side
      BY Constants, SidesFacts DEF Number
    <3> QED BY <2>1, <2>2, <3>1, Places, NewReceiveFacts
  <2>4. Types' /\ ~Terminal(e)' /\ recv'[e] = q /\ got'[e] = got[e]
    BY <1>7, <1>8, <2>2, <2>3, OfferedTypes
  <2>5. sent'[Peer(e)] = sent[Peer(e)]
    BY <1>7 DEF Offered
  <2>6. Receiving(e)' /\ Keeps(e)
    BY <1>9, <2>1, <2>2, <2>4, <2>5, FoundedFacts
  <2>7. Len(w) >= Len(got[e]) /\ w \in Seq(Nat)
    BY <1>8, <2>2
  <2> QED BY <1>2, <1>6, <1>7, <2>1, <2>3, <2>6, <2>7, OfferedStep
<1>10. CASE phase[e] # "SynSent" /\ Takes(r, p)
  <2>1. Established(e) /\ r = recv[e]
    BY <1>3, <1>6, <1>10 DEF Established, Terminal, Ledger
  <2>2. q = Receive(recv[e], p.kind, p.seq, p.pos) /\ w = got[e] \o Given(recv[e], p.kind, p.seq, p.pos)
    BY <1>4, <1>5, <1>10, <2>1
  <2>3. q \in RecvLedger /\ w \in Seq(Nat)
    <3>1. PICK n \in Nat : Advance(Peer(e), Len(got[e]), recv[e].buf, q,
                                   Given(recv[e], p.kind, p.seq, p.pos), n)
      BY <1>2, <1>10, <2>1, <2>2, TakenFacts
    <3>2. q \in RecvLedger /\ Given(recv[e], p.kind, p.seq, p.pos) \in Seq(Nat)
      BY <3>1 DEF Advance
    <3> QED BY <1>8, <2>2, <3>2, ConcatProperties
  <2>4. Types' /\ ~Terminal(e)' /\ recv'[e] = q /\ got'[e] = w /\ SameSide(Peer(e))
    BY <1>7, <2>3, OfferedTypes
  <2>5. sent'[Peer(e)] = sent[Peer(e)] /\ send'[Peer(e)] = send[Peer(e)]
    BY <2>4 DEF SameSide
  <2>6. Receiving(e)' /\ Keeps(e) /\ Len(w) >= Len(got[e])
    BY <1>2, <1>6, <1>10, <2>1, <2>2, <2>4, <2>5, TakenKeeps
  <2> QED BY <1>2, <1>6, <1>7, <1>10, <2>3, <2>6, OfferedStep
<1>11. CASE phase[e] # "SynSent" /\ ~Takes(r, p)
  <2>1. Established(e) /\ r = recv[e]
    BY <1>3, <1>6, <1>11 DEF Established, Terminal, Ledger
  <2>2. q = recv[e] /\ w = got[e]
    BY <1>4, <1>5, <1>11, <2>1
  <2>3. Types' /\ ~Terminal(e)' /\ recv'[e] = recv[e] /\ got'[e] = got[e] /\ SameSide(Peer(e))
    BY <1>7, <1>8, <2>2, OfferedTypes
  <2>4. Grown(Peer(e)) /\ Receiving(e)
    BY <1>1, <2>3, SameGrown, SidesFacts DEF UtpInv
  <2>5. Receiving(e)' /\ Keeps(e)
    BY <1>1, <1>6, <2>1, <2>3, <2>4, ReceivingKept, SameReceiverKeeps
  <2>6. Len(w) >= Len(got[e]) /\ w \in Seq(Nat) /\ q \in RecvLedger
    BY <1>8, <2>2
  <2> QED BY <1>2, <1>6, <1>7, <1>11, <2>5, <2>6, OfferedStep
<1> QED BY <1>9, <1>10, <1>11

-----------------------------------------------------------------------------
(* The invariant holds. *)

\* The invariant holds when the initiator has been made.
LEMMA UtpInit ==
  ASSUME Init
  PROVE  UtpInv
<1>0. Initiator \in Side /\ Acceptor \in Side /\ Initiator # Acceptor
      /\ (\A e \in Side : e = Initiator \/ e = Acceptor)
      /\ Peer(Initiator) = Acceptor /\ Peer(Acceptor) = Initiator
  BY SidesFacts DEF Peer
<1>1. /\ 0 \in Number /\ 1 \in Number /\ Modulus - 1 \in Number
      /\ \A e \in Side : Iss[e] \in Number /\ Script[e] \in Nat
  <2>1. Modulus \in Nat /\ Modulus >= 4
    BY Constants
  <2> QED BY <2>1, Constants DEF Number
<1>2. \A e \in Side : Add(Iss[e], Modulus - 1) \in Number /\ Add(Iss[e], 1) \in Number
  BY <1>1, AddNumber
<1> DEFINE i == Iss[Initiator]
           x == [seq |-> i, kind |-> "SYN", pos |-> 0, tx |-> 1, lost |-> FALSE]
           t == RecordSent(NewSend(i), "SYN", 0)
           u == NewSend(Iss[Acceptor])
<1>3. t = [next |-> Add(i, 1), cum |-> Add(i, Modulus - 1), high |-> i, out |-> <<x>>, dup |-> 0,
           fin |-> FALSE]
  <2>1. PICK n : n = NewSend(i)
    OBVIOUS
  <2>2. n = [next |-> i, cum |-> Add(i, Modulus - 1), high |-> None, out |-> <<>>, dup |-> 0,
             fin |-> FALSE]
    BY <2>1 DEF NewSend
  <2>3. n.next = i /\ n.out = <<>> /\ n.fin = FALSE
    BY <2>2
  <2>4. Append(n.out, x) = <<x>> /\ (n.fin \/ "SYN" = "FIN") = FALSE
    BY <2>3
  <2>5. t = [n EXCEPT !.out = Append(n.out, x), !.high = i, !.next = Add(i, 1), !.fin = FALSE]
    BY <2>1, <2>3, <2>4 DEF RecordSent
  <2>6. t = [n EXCEPT !.out = <<x>>, !.high = i, !.next = Add(i, 1), !.fin = FALSE]
    BY <2>4, <2>5
  <2> HIDE DEF x, t
  <2> QED BY <2>2, <2>6
<1>4. u = [next |-> Iss[Acceptor], cum |-> Add(Iss[Acceptor], Modulus - 1), high |-> None,
           out |-> <<>>, dup |-> 0, fin |-> FALSE]
  BY DEF NewSend
<1>5. x \in SentPacket
  BY <1>0, <1>1, Constants DEF SentPacket, Kind
<1> HIDE DEF x, t, u
<1>6. t \in SendLedger /\ u \in SendLedger
  <2>1. <<x>> \in Seq(SentPacket) /\ <<>> \in Seq(SentPacket) /\ 0 \in 0..LossThreshold
    BY <1>5, Constants, EmptySeq
  <2> QED BY <1>0, <1>1, <1>2, <1>3, <1>4, <2>1 DEF SendLedger
<1>7. /\ phase = [e \in Side |-> IF e = Initiator THEN "SynSent" ELSE "None"]
      /\ send = [e \in Side |-> IF e = Initiator THEN t ELSE u]
      /\ recv = [e \in Side |-> NewReceive(0)]
      /\ retx = [e \in Side |-> <<>>] /\ flight = [e \in Side |-> {}]
      /\ ackDue = [e \in Side |-> FALSE] /\ synDue = TRUE
      /\ written = [e \in Side |-> 0] /\ sent = [e \in Side |-> 0]
      /\ closing = [e \in Side |-> FALSE] /\ got = [e \in Side |-> <<>>] /\ net = {}
  <2>1. [e \in Side |-> IF e = Initiator THEN RecordSent(NewSend(Iss[e]), "SYN", 0)
                                         ELSE NewSend(Iss[e])]
          = [e \in Side |-> IF e = Initiator THEN t ELSE u]
    BY <1>0 DEF t, u
  <2> QED BY <2>1 DEF Init
<1>8. NewReceive(0) \in RecvLedger /\ NewReceive(0).buf = {} /\ NewReceive(0).unread = 0
      /\ ~NewReceive(0).eof /\ Buffered(NewReceive(0)) = 0
  BY <1>1, NewReceiveFacts
<1>9. Types
  <2>1. send \in [Side -> SendLedger] /\ recv \in [Side -> RecvLedger]
    BY <1>6, <1>7, <1>8
  <2>2. retx \in [Side -> Seq([seq : Number, fast : BOOLEAN])] /\ flight \in [Side -> SUBSET Number]
    BY <1>7, EmptySeq
  <2>3. got \in [Side -> Seq(Nat)]
    BY <1>7, EmptySeq
  <2>4. net \subseteq Datagram /\ IsFiniteSet(net) /\ Cardinality(net) <= NetMax
    BY <1>7, FS_EmptySet, Constants
  <2>5. phase \in [Side -> {"None", "SynSent", "Connected", "LocalFinSent",
                            "RemoteFinReceived", "Closing", "Reset", "Closed"}]
    BY <1>7
  <2>6. \A e \in Side : sent[e] <= written[e] /\ written[e] <= Script[e]
    BY <1>1, <1>7
  <2> QED BY <1>7, <2>1, <2>2, <2>3, <2>4, <2>5, <2>6 DEF Types
<1>10. /\ send[Initiator] = t /\ send[Acceptor] = u
       /\ phase[Initiator] = "SynSent" /\ phase[Acceptor] = "None"
       /\ \A e \in Side : recv[e] = NewReceive(0) /\ retx[e] = <<>> /\ flight[e] = {} /\ ~ackDue[e]
            /\ written[e] = 0 /\ sent[e] = 0 /\ ~closing[e] /\ got[e] = <<>> /\ ~send[e].fin
  BY <1>0, <1>3, <1>4, <1>7
<1>11. \A e \in Side : Top(e) = 0 /\ At(e) = 0 /\ ~Terminal(e) /\ ~Established(e)
  BY <1>0, <1>8, <1>10 DEF Top, At, Terminal, Established
<1>12. ASSUME NEW e \in Side PROVE Course(e)
  <2>1. /\ phase[e] = "SynSent" => e = Initiator /\ send[e].high = Iss[e]
        /\ phase[e] = "None" => e = Acceptor /\ send[e].out = <<>>
    BY <1>0, <1>3, <1>4, <1>10
  <2> QED BY <1>10, <1>11, <2>1 DEF Course
<1>13. Sending(Initiator)
  <2>1. 0 + 1 = 1 /\ i \in Number /\ i + 0 = i /\ i + 0 < Modulus
    BY <1>0, <1>1, Constants DEF Number
  <2>2. Num(Initiator, 0) = i /\ Num(Initiator, 1) = Add(i, 1)
    BY <1>1, <2>1, AddNumber DEF Num, Base
  <2>3. t.next = Num(Initiator, sent[Initiator] + 1) /\ t.cum = Add(i, Modulus - 1)
    BY <1>0, <1>3, <1>10, <2>1, <2>2
  <2>4. t.out = <<x>> /\ DOMAIN t.out = {1} /\ t.out[1] = x
    BY <1>3
  <2>5. x.seq = Num(Initiator, 0) /\ x.kind = KindAt(Initiator, 0) /\ x.pos = PosAt(Initiator, 0)
    BY <1>0, <1>10, <2>2 DEF x, KindAt, PosAt
  <2>6. 0 \in First(Initiator)..Top(Initiator)
    BY <1>0, <1>11 DEF First
  <2> QED BY <1>10, <2>3, <2>4, <2>5, <2>6 DEF Sending
<1>14. Sending(Acceptor)
  <2>1. PICK a \in Number : a = Iss[Acceptor]
    BY <1>0, <1>1
  <2>2. PICK b \in Number : b = Add(a, Modulus - 1)
    BY <1>0, <1>2, <2>1
  <2>3. Base(Acceptor) = b
    BY <1>0, <2>1, <2>2 DEF Base
  <2>4. Num(Acceptor, 1) = a
    <3>1. /\ a + (Modulus - 1) < Modulus => b = a + (Modulus - 1)
          /\ a + (Modulus - 1) >= Modulus => b = a + (Modulus - 1) - Modulus
      BY <1>1, <2>2, AddNumber
    <3>2. /\ b + 1 < Modulus => Add(b, 1) = b + 1
          /\ b + 1 >= Modulus => Add(b, 1) = b + 1 - Modulus
      BY <1>1, AddNumber
    <3>3. Modulus \in Nat
      BY Constants
    <3>4. Add(b, 1) = a
      BY <3>1, <3>2, <3>3 DEF Number
    <3> QED BY <2>3, <3>4 DEF Num
  <2>5. Num(Acceptor, 0) = b
    <3>1. b + 0 = b /\ b + 0 < Modulus
      BY Constants DEF Number
    <3> QED BY <1>1, <2>3, <3>1, AddNumber DEF Num
  <2>6. u.next = Num(Acceptor, sent[Acceptor] + 1) /\ u.cum = Num(Acceptor, 0) /\ u.out = <<>>
    <3>1. sent[Acceptor] + 1 = 1
      BY <1>0, <1>10
    <3> QED BY <1>4, <2>1, <2>2, <2>4, <2>5, <3>1
  <2>7. 0 \in 0..Top(Acceptor)
    BY <1>0, <1>11
  <2>8. DOMAIN u.out = {}
    BY <2>6
  <2> QED BY <1>10, <2>6, <2>7, <2>8 DEF Sending
<1>15. ASSUME NEW e \in Side PROVE Receiving(e) /\ LetGo(e)
  <2>1. Peer(e) \in Side
    BY SidesFacts
  <2>2. got[e] = [j \in 1..Len(got[e]) |-> j] /\ Len(got[e]) <= sent[Peer(e)]
    BY <1>10, <2>1
  <2>3. Receiving(e)
    BY <1>8, <1>10, <1>11, <2>2, Constants DEF Receiving
  <2>4. LetGo(e)
    BY <1>11 DEF LetGo
  <2> QED BY <2>3, <2>4
<1>16. WorkIsOutstanding
  BY <1>10 DEF WorkIsOutstanding
<1>17. \A e \in Side : Course(e) /\ Sending(e) /\ Receiving(e) /\ LetGo(e)
  BY <1>0, <1>12, <1>13, <1>14, <1>15
<1> QED BY <1>7, <1>9, <1>16, <1>17 DEF UtpInv

\* A step that changes nothing keeps the invariant.
LEMMA StutterStep ==
  ASSUME UtpInv, UNCHANGED vars
  PROVE  UtpInv'
<1>1. UNCHANGED <<phase, send, recv, retx, flight, window, ackDue, synDue, written, sent, closing,
                  got, net, faults>>
  BY DEF vars
<1>2. Types'
  BY <1>1 DEF UtpInv, Types
<1>3. \A e \in Side : Course(e)' /\ Sending(e)' /\ Receiving(e)' /\ LetGo(e)'
  <2> TAKE e \in Side
  <2>1. Course(e) /\ Sending(e) /\ Receiving(e) /\ LetGo(e)
    BY DEF UtpInv
  <2>2. Course(e)'
    BY <1>1, <2>1 DEF Course, Terminal, Established
  <2>3. Sending(e)'
    BY <1>1, <2>1 DEF Sending, Terminal, Top, KindAt, PosAt
  <2>4. Receiving(e)'
    BY <1>1, <2>1 DEF Receiving, At, Top, Established, PacketAt, KindAt, PosAt
  <2>5. LetGo(e)'
    BY <1>1, <2>1 DEF LetGo, Terminal, Top, Acked, Has
  <2> QED BY <2>2, <2>3, <2>4, <2>5
<1>4. \A p \in net' : Carries(p)' /\ Claims(p)'
  <2> TAKE p \in net'
  <2>1. Carries(p) /\ Claims(p)
    BY <1>1 DEF UtpInv
  <2>2. Carries(p)'
    BY <1>1, <2>1 DEF Carries, SynPacket
  <2>3. Claims(p)'
    BY <1>1, <2>1 DEF Claims, Top, Acked, Has, Terminal
  <2> QED BY <2>2, <2>3
<1>5. WorkIsOutstanding'
  <2>1. \A e \in Side : WorkOf(e)
    BY WorkKept
  <2>2. \A e \in Side : WorkOf(e)'
    BY <1>1, <2>1 DEF WorkOf
  <2> QED BY <2>2, WorkKept
<1> QED BY <1>2, <1>3, <1>4, <1>5 DEF UtpInv

\* Every step keeps the invariant.
LEMMA UtpStep ==
  ASSUME UtpInv, [Next]_vars
  PROVE  UtpInv'
<1>1. CASE UNCHANGED vars
  BY <1>1, StutterStep
<1>2. CASE EmitSyn
  BY <1>2, StepEmitSyn
<1>3. ASSUME NEW e \in Side, Write(e) \/ RequestClose(e) \/ Read(e) \/ Local(e) \/ Abort(e)
      PROVE  UtpInv'
  BY <1>3, StepApplication, StepRead, StepTimeout, StepRetransmit, StepNewData, StepEmitFin,
     StepEmitState, StepFinish, StepAbort DEF Local
<1>4. ASSUME NEW p \in net, AcceptSyn(p) \/ Ignore(p) \/ Incoming(p)
      PROVE  UtpInv'
  BY <1>4, StepAcceptSyn, StepIgnore, StepIncoming
<1> QED BY <1>1, <1>2, <1>3, <1>4 DEF Next

\* The state of the two endpoints and every datagram under way fit together: sequence
\* numbers name places of the two streams, whatever the network lost, repeated or delayed.
THEOREM UtpAlwaysSound == Spec => []UtpInv
<1>1. Init => UtpInv
  BY UtpInit
<1>2. UtpInv /\ [Next]_vars => UtpInv'
  BY UtpStep
<1> QED BY <1>1, <1>2, PTL DEF Spec

-----------------------------------------------------------------------------
(* What follows from it. *)

\* The invariant says that what a sender let go of is at its peer.
LEMMA AckedFollows ==
  ASSUME UtpInv
  PROVE  AckedIsReceived
<1> SUFFICES ASSUME NEW e \in Side, ~Terminal(e), ~Terminal(Peer(e)), NEW k \in 1..sent[e]
             PROVE  \/ \E i \in DOMAIN send[e].out : send[e].out[i].pos = k
                    \/ Held(Peer(e), k)
                    \/ \E i \in DOMAIN got[Peer(e)] : got[Peer(e)][i] = k
  BY DEF AckedIsReceived
<1>1. PICK s \in Side : s = Peer(e) /\ Peer(s) = e
  BY SidesFacts
<1>2. Types /\ Sending(e) /\ LetGo(e) /\ Receiving(s)
  BY DEF UtpInv
<1>3. sent[e] \in Nat /\ Top(e) \in Nat /\ sent[e] <= Top(e) /\ got[s] \in Seq(Nat) /\ At(s) \in Nat
      /\ Len(got[s]) \in Nat
  BY <1>2, SideTypes
<1>4. k \in 1..Top(e) /\ k \in Number /\ \A j \in 0..Top(e) : j \in Number
  <2>1. \A j \in 0..Top(e) + 1 : j \in Number
    BY <1>2, StreamFits
  <2> QED BY <1>3, <2>1
<1>5. CASE Num(e, k) \in Outstanding(send[e])
  <2>1. PICK i \in DOMAIN send[e].out : send[e].out[i].seq = Num(e, k)
    BY <1>5 DEF Outstanding
  <2>2. PICK j \in First(e)..Top(e) : send[e].out[i].seq = Num(e, j) /\ send[e].out[i].pos = PosAt(e, j)
    BY <1>2 DEF Sending
  <2>3. j \in Number
    BY <1>3, <1>4, <2>2 DEF First
  <2>4. j = k
    <3>1. Num(e, j) = Num(e, k)
      BY <2>1, <2>2
    <3>2. \A m, n \in Number : Num(e, m) = Num(e, n) => m = n
      BY Places
    <3> QED BY <1>4, <2>3, <3>1, <3>2
  <2>5. PosAt(e, k) = k
    BY <1>3 DEF PosAt
  <2> QED BY <2>2, <2>4, <2>5
<1>6. CASE Num(e, k) \notin Outstanding(send[e])
  <2>1. Has(s, k)
    BY <1>1, <1>2, <1>4, <1>6 DEF LetGo, Acked
  <2>2. CASE k <= Len(got[s])
    <3>1. k \in DOMAIN got[s] /\ k \in 1..Len(got[s])
      BY <1>3, <2>2
    <3>2. got[s] = [i \in 1..Len(got[s]) |-> i]
      BY <1>2 DEF Receiving
    <3>3. got[s][k] = k
      BY <3>1, <3>2
    <3> QED BY <1>1, <3>1, <3>3
  <2>3. ASSUME NEW p \in recv[s].buf, p.seq = Num(e, k) PROVE Held(s, k)
    <3>1. PICK j \in At(s) + 2..Top(e) : p = PacketAt(e, j)
      BY <1>1, <1>2 DEF Receiving
    <3>2. j \in Number /\ p.seq = Num(e, j) /\ p.pos = PosAt(e, j)
      BY <1>3, <1>4, <3>1 DEF PacketAt
    <3>3. j = k
      <4>1. Num(e, j) = Num(e, k)
        BY <2>3, <3>2
      <4>2. \A m, n \in Number : Num(e, m) = Num(e, n) => m = n
        BY Places
      <4> QED BY <1>4, <3>2, <4>1, <4>2
    <3>4. p.pos = k
      BY <1>3, <3>2, <3>3 DEF PosAt
    <3> QED BY <3>4 DEF Held
  <2>4. k # sent[e] + 1
    BY <1>3
  <2> QED BY <1>1, <2>1, <2>2, <2>3, <2>4 DEF Has
<1> QED BY <1>5, <1>6

\* The invariant says that the ledgers are in their limits.
LEMMA LedgersFollow ==
  ASSUME UtpInv
  PROVE  LedgersSound
<1>1. Types /\ WorkIsOutstanding
  BY DEF UtpInv
<1>2. TypeOK
  <2>1. ASSUME NEW e \in Side
        PROVE  /\ send[e].next \in 0..Modulus - 1 /\ send[e].cum \in 0..Modulus - 1
               /\ send[e].high \in {None} \cup 0..Modulus - 1
               /\ send[e].dup \in 0..LossThreshold
               /\ \A i \in DOMAIN send[e].out : send[e].out[i].tx \in 1..MaxTx
               /\ recv[e].ack \in 0..Modulus - 1
               /\ recv[e].fin \in {None} \cup 0..Modulus - 1
               /\ sent[e] \in 0..written[e] /\ written[e] \in 0..Script[e]
    <3>1. send[e] \in SendLedger /\ recv[e] \in RecvLedger /\ send[e].out \in Seq(SentPacket)
      BY <1>1, SideTypes
    <3>2. \A i \in DOMAIN send[e].out : send[e].out[i] \in SentPacket
      BY <3>1
    <3>3. \A i \in DOMAIN send[e].out : send[e].out[i].tx \in 1..MaxTx
      BY <3>2 DEF SentPacket
    <3>4. sent[e] \in Nat /\ written[e] \in Nat /\ Script[e] \in Nat
          /\ sent[e] <= written[e] /\ written[e] <= Script[e]
      BY <1>1, Constants DEF Types
    <3>5. sent[e] \in 0..written[e] /\ written[e] \in 0..Script[e]
      BY <3>4
    <3> QED BY <3>1, <3>3, <3>5 DEF SendLedger, RecvLedger, Number
  <2> QED BY <1>1, <2>1 DEF TypeOK, Types
<1>3. LedgerBounded
  <2>1. ASSUME NEW e \in Side
        PROVE  Buffered(recv[e]) <= MaxReceive /\ Cardinality(recv[e].buf) <= MaxReorder
    <3>1. Receiving(e)
      BY DEF UtpInv
    <3> QED BY <1>1, <3>1, HeldOf DEF Receiving
  <2> QED BY <2>1 DEF LedgerBounded
<1> QED BY <1>1, <1>2, <1>3 DEF LedgersSound

\* A side that finishes has an empty ledger, so its peer has everything and its end.
LEMMA FinishFollows ==
  ASSUME UtpInv, NEW e \in Side, Finish(e)
  PROVE  /\ got[Peer(e)] = Stream!Prefix(written[e])
         /\ recv[Peer(e)].eof \/ Terminal(Peer(e))
<1>1. PICK s \in Side : s = Peer(e) /\ Peer(s) = e
  BY SidesFacts
<1>2. Types /\ Course(e) /\ LetGo(e) /\ Receiving(s)
  BY DEF UtpInv
<1>3. ~Terminal(e) /\ send[e].fin /\ send[e].out = <<>>
  BY DEF Finish, ReadyToClose
<1>4. sent[e] \in Nat /\ Len(got[s]) \in Nat /\ At(s) \in Nat /\ Top(e) = sent[e] + 1
  BY <1>2, <1>3, SideTypes DEF Top
<1>5. sent[e] = written[e]
  BY <1>2, <1>3 DEF Course
<1>6. \A k \in 1..sent[e] + 1 : Acked(s, k)
  <2>1. Outstanding(send[e]) = {}
    BY <1>3 DEF Outstanding
  <2> QED BY <1>1, <1>2, <1>3, <1>4, <2>1 DEF LetGo
<1>7. Len(got[s]) = sent[e]
  <2>1. Len(got[s]) <= sent[e]
    BY <1>1, <1>2 DEF Receiving
  <2>2. ASSUME Len(got[s]) < sent[e] PROVE FALSE
    <3>1. Len(got[s]) + 1 \in 1..sent[e] + 1 /\ Len(got[s]) + 1 <= sent[e]
      BY <1>4, <2>2
    <3> QED BY <1>1, <1>6, <3>1 DEF Acked
  <2> QED BY <1>4, <2>1, <2>2
<1>8. got[s] = Stream!Prefix(written[e])
  <2>1. got[s] = [i \in 1..Len(got[s]) |-> i]
    BY <1>2 DEF Receiving
  <2> QED BY <1>5, <1>7, <2>1 DEF Stream!Prefix
<1>9. ASSUME ~Terminal(s) PROVE recv[s].eof
  <2>1. Has(s, sent[e] + 1)
    BY <1>4, <1>6, <1>9 DEF Acked
  <2>2. ~(sent[e] + 1 <= Len(got[s]))
    BY <1>4, <1>7
  <2>3. ASSUME NEW p \in recv[s].buf, p.seq = Num(e, sent[e] + 1) PROVE FALSE
    <3>1. PICK j \in At(s) + 2..Top(e) : p = PacketAt(e, j)
      BY <1>1, <1>2 DEF Receiving
    <3>2. At(s) >= sent[e]
      BY <1>4, <1>7 DEF At
    <3> QED BY <1>4, <3>1, <3>2
  <2> QED BY <1>1, <2>1, <2>2, <2>3 DEF Has
<1> QED BY <1>1, <1>8, <1>9

\* A packet that SendState::acknowledge releases is at the peer, in its buffer or given to its
\* application: acknowledgements that are old, repeated or overtaken release nothing else.
THEOREM AckedAlwaysReceived == Spec => []AckedIsReceived
BY UtpAlwaysSound, AckedFollows, PTL

\* Both ledgers stay in their limits and RetransmissionQueue names only packets that are
\* outstanding, whatever acknowledgements and timeouts did in between.
THEOREM LedgersAlwaysSound == Spec => []LedgersSound
BY UtpAlwaysSound, LedgersFollow, PTL

\* TransportState::finish is called by a side only when its peer was given everything it
\* wrote and has seen the end of the stream, or has ended itself.
THEOREM FinishAlwaysMutual == Spec => FinishIsMutual
<1>1. UtpInv /\ [Next]_vars =>
        [\A e \in Side : Finish(e) =>
          /\ got[Peer(e)] = Stream!Prefix(written[e])
          /\ recv[Peer(e)].eof \/ Terminal(Peer(e))]_vars
  BY FinishFollows
<1> QED BY <1>1, UtpAlwaysSound, PTL DEF Spec, FinishIsMutual

-----------------------------------------------------------------------------
(* The connection is a byte stream. *)

\* A step that the application cannot see.
LEMMA StreamStutter ==
  ASSUME written' = written, got' = got,
         \A f \in Side : /\ send'[f].fin = send[f].fin /\ recv'[f].eof = recv[f].eof
                         /\ Terminal(f)' <=> Terminal(f)
  PROVE  UNCHANGED Stream!vars
<1>1. [f \in Side |-> send'[f].fin] = [f \in Side |-> send[f].fin]
  OBVIOUS
<1>2. [f \in Side |-> recv'[f].eof] = [f \in Side |-> recv[f].eof]
  OBVIOUS
<1>3. [f \in Side |-> Terminal(f)'] = [f \in Side |-> Terminal(f)]
  <2>1. \A f \in Side : Terminal(f)' = Terminal(f)
    BY DEF Terminal
  <2> QED BY <2>1
<1> QED BY <1>1, <1>2, <1>3 DEF Stream!vars

\* The end of a connection is a side of the stream going down.
LEMMA StreamEnds ==
  ASSUME Types, NEW e \in Side, NEW last \in {"Closed", "Reset"}, Release(e, last),
         written' = written, got' = got
  PROVE  Stream!Next
<1>1. \A f \in Side : send'[f].fin = send[f].fin
  <2> TAKE f \in Side
  <2>1. send[f] \in SendLedger /\ (f # e => send'[f] = send[f])
    BY DEF Types, Release
  <2>2. f = e => send'[f] = [send[f] EXCEPT !.out = <<>>, !.dup = 0]
    BY DEF Types, Release
  <2> QED BY <2>1, <2>2 DEF SendLedger
<1>2. ~recv'[e].eof /\ \A f \in Side : f # e => recv'[f].eof = recv[f].eof
  <2>1. recv[e] \in RecvLedger
        /\ recv'[e] = [recv[e] EXCEPT !.buf = {}, !.unread = 0, !.fin = None, !.eof = FALSE]
    BY DEF Types, Release
  <2>2. ~recv'[e].eof
    BY <2>1 DEF RecvLedger
  <2> QED BY <2>2 DEF Types, Release
<1>3. Terminal(e)' /\ \A f \in Side : f # e => (Terminal(f)' <=> Terminal(f))
  BY DEF Types, Release, Terminal
<1>4. [f \in Side |-> Terminal(f)'] = [[f \in Side |-> Terminal(f)] EXCEPT ![e] = TRUE]
  <2>1. \A f \in Side : f # e => Terminal(f)' = Terminal(f)
    BY <1>3 DEF Terminal
  <2>2. Terminal(e)' = TRUE
    BY <1>3 DEF Terminal
  <2> QED BY <2>1, <2>2
<1>5. [f \in Side |-> recv'[f].eof] = [[f \in Side |-> recv[f].eof] EXCEPT ![e] = FALSE]
  <2>1. recv'[e].eof = FALSE
    <3>1. recv[e] \in RecvLedger
          /\ recv'[e] = [recv[e] EXCEPT !.buf = {}, !.unread = 0, !.fin = None, !.eof = FALSE]
      BY DEF Types, Release
    <3> QED BY <3>1 DEF RecvLedger
  <2> QED BY <1>2, <2>1
<1>6. [f \in Side |-> send'[f].fin] = [f \in Side |-> send[f].fin]
  BY <1>1
<1>7. Stream!GoDown(e)
  BY <1>4, <1>5, <1>6 DEF Stream!GoDown
<1> QED BY <1>7 DEF Stream!Next

\* queue_data is a write of the stream.
LEMMA StreamWrites ==
  ASSUME UtpInv, NEW e \in Side, Write(e)
  PROVE  Stream!Next
<1>1. Types /\ Course(e) /\ written[e] \in Nat /\ Script[e] \in Nat
  BY SideTypes, Constants DEF UtpInv
<1>2. /\ ~Terminal(e) /\ ~closing[e] /\ written[e] < Script[e]
      /\ written' = [written EXCEPT ![e] = Script[e]] /\ UNCHANGED <<phase, send, recv, got>>
  BY DEF Write
<1>3. ~send[e].fin
  BY <1>1, <1>2 DEF Course
<1>4. written'[e] = Script[e] /\ written'[e] \in Nat /\ written'[e] > written[e]
      /\ written' = [written EXCEPT ![e] = written'[e]]
  BY <1>1, <1>2 DEF Types
<1>5. [f \in Side |-> Terminal(f)'] = [f \in Side |-> Terminal(f)]
  BY <1>2 DEF Terminal
<1>6. Stream!Write(e)
  BY <1>2, <1>3, <1>4, <1>5 DEF Stream!Write
<1> QED BY <1>6 DEF Stream!Next

\* The FIN is the close of the stream: everything written was sent before.
LEMMA StreamCloses ==
  ASSUME UtpInv, NEW e \in Side, EmitFin(e), ~(Distance(send[e].next, send[e].cum) > MaxSent)
  PROVE  Stream!Next
<1>1. Types /\ send[e] \in SendLedger /\ recv[e].eof \in BOOLEAN
  BY SideTypes DEF UtpInv
<1>2. /\ send' = [send EXCEPT ![e] = RecordSent(send[e], "FIN", 0)]
      /\ phase' = [phase EXCEPT ![e] = PhaseOf(TRUE, recv[e].eof)]
      /\ UNCHANGED <<recv, written, got>> /\ Open(e)
  BY DEF EmitFin, appVars, CanFin
<1>3. RecordSent(send[e], "FIN", 0).fin = TRUE
  <2>1. PICK t \in SendLedger : t = send[e]
    BY <1>1
  <2>2. RecordSent(t, "FIN", 0).fin = (t.fin \/ "FIN" = "FIN")
    BY DEF RecordSent, SendLedger
  <2>3. (t.fin \/ "FIN" = "FIN") = TRUE
    OBVIOUS
  <2> QED BY <2>1, <2>2, <2>3
<1>4. send'[e].fin = TRUE /\ \A f \in Side : f # e => send'[f] = send[f]
  BY <1>1, <1>2, <1>3 DEF Types
<1>5. [f \in Side |-> send'[f].fin] = [[f \in Side |-> send[f].fin] EXCEPT ![e] = TRUE]
  BY <1>4
<1>6. PhaseOf(TRUE, recv[e].eof) \in {"LocalFinSent", "Closing"}
  BY <1>1 DEF PhaseOf
<1>7. ~Terminal(e) /\ \A f \in Side : Terminal(f)' = Terminal(f)
  <2>1. phase'[e] = PhaseOf(TRUE, recv[e].eof) /\ \A f \in Side : f # e => phase'[f] = phase[f]
    BY <1>1, <1>2 DEF Types
  <2>2. ~Terminal(e) /\ ~Terminal(e)'
    BY <1>2, <1>6, <2>1 DEF Open, Terminal
  <2>3. Terminal(e)' = Terminal(e)
    BY <2>2 DEF Terminal
  <2>4. \A f \in Side : f # e => Terminal(f)' = Terminal(f)
    BY <2>1 DEF Terminal
  <2> QED BY <2>2, <2>3, <2>4
<1>8. [f \in Side |-> Terminal(f)'] = [f \in Side |-> Terminal(f)]
  BY <1>7
<1>9. Stream!Close(e)
  BY <1>2, <1>5, <1>7, <1>8 DEF Stream!Close
<1> QED BY <1>9 DEF Stream!Next

\* The fields of a send ledger that its operations leave alone.
LEMMA FinKept ==
  ASSUME NEW t \in SendLedger
  PROVE  /\ TimedOut(t).fin = t.fin /\ \A i : Resent(t, i).fin = t.fin
         /\ \A pos : RecordSent(t, "DATA", pos).fin = t.fin
<1>1. TimedOut(t).fin = t.fin
  BY TimedOutFacts
<1>2. ASSUME NEW i PROVE Resent(t, i).fin = t.fin
  BY DEF Resent, SendLedger
<1>3. ASSUME NEW pos PROVE RecordSent(t, "DATA", pos).fin = t.fin
  <2>1. t.fin \in BOOLEAN
    BY DEF SendLedger
  <2>2. RecordSent(t, "DATA", pos).fin = (t.fin \/ "DATA" = "FIN")
    BY DEF RecordSent, SendLedger
  <2> QED BY <2>1, <2>2
<1> QED BY <1>1, <1>2, <1>3

\* What incoming gives to the application is the next part of the stream, or nothing.
LEMMA StreamDelivers ==
  ASSUME UtpInv, UtpInv', NEW p \in net, Incoming(p)
  PROVE  Stream!Next \/ UNCHANGED Stream!vars
<1>1. Types /\ Types' /\ p \in Datagram
  BY DEF UtpInv, Types
<1>2. PICK e \in Side : e = Peer(p.from)
  BY <1>1, SidesFacts DEF Datagram
<1>3. PICK r : r = Ledger(e, p)
  OBVIOUS
<1>4. /\ p.kind # "SYN" /\ phase[e] # "None" /\ ~Terminal(e)
      /\ phase[e] = "SynSent" => p.ack = Iss[e]
  BY <1>2 DEF Incoming, Dropped
<1>5. PICK s \in Side : s = Peer(e) /\ s # e /\ \A f \in Side : f = e \/ f = s
  BY SidesFacts
<1>6. /\ recv' = [recv EXCEPT ![e] = IF Takes(r, p) THEN Receive(r, p.kind, p.seq, p.pos) ELSE r]
      /\ got' = [got EXCEPT ![e] = IF Takes(r, p) THEN @ \o Given(r, p.kind, p.seq, p.pos) ELSE @]
      /\ phase' = [phase EXCEPT ![e] = PhaseOf(send'[e].fin, recv'[e].eof)]
      /\ UNCHANGED <<written, sent, closing>> /\ Settling(e, p)
  BY <1>2, <1>3 DEF Incoming, appVars, Settling
<1>7. /\ \A f \in Side : f # e => recv'[f] = recv[f] /\ got'[f] = got[f] /\ phase'[f] = phase[f]
      /\ recv'[e] = (IF Takes(r, p) THEN Receive(r, p.kind, p.seq, p.pos) ELSE r)
      /\ got'[e] = (IF Takes(r, p) THEN got[e] \o Given(r, p.kind, p.seq, p.pos) ELSE got[e])
      /\ phase'[e] = PhaseOf(send'[e].fin, recv'[e].eof)
      /\ got' = [got EXCEPT ![e] = got'[e]]
  BY <1>1, <1>6 DEF Types
<1>8. \A f \in Side : send'[f].fin = send[f].fin
  BY <1>6, SettlingFacts
<1>9. ~Terminal(e)' /\ \A f \in Side : Terminal(f)' <=> Terminal(f)
  <2>1. send'[e].fin \in BOOLEAN /\ recv'[e].eof \in BOOLEAN
    BY <1>1, SideTypesNext
  <2>2. PhaseOf(send'[e].fin, recv'[e].eof) \in
           {"Connected", "LocalFinSent", "RemoteFinReceived", "Closing"}
    BY <2>1 DEF PhaseOf
  <2>3. ~Terminal(e)'
    BY <1>7, <2>2 DEF Terminal
  <2>4. \A f \in Side : f # e => (Terminal(f)' <=> Terminal(f))
    BY <1>7 DEF Terminal
  <2> QED BY <1>4, <2>3, <2>4
<1>10. CASE phase[e] = "SynSent"
  <2>1. p.kind = "STATE" /\ r = NewReceive(Num(Peer(e), 0))
    BY <1>2, <1>3, <1>4, <1>10, HandshakeFacts
  <2>2. ~Takes(r, p)
    BY <2>1 DEF Takes
  <2>3. recv'[e].eof = FALSE /\ got'[e] = got[e]
    BY <1>7, <2>1, <2>2 DEF NewReceive
  <2>4. recv[e].eof = FALSE
    <3>1. recv[e] = NewReceive(0)
      BY <1>10 DEF UtpInv, Course
    <3> QED BY <3>1 DEF NewReceive
  <2>5. got' = got
    BY <1>1, <1>7, <2>3 DEF Types
  <2>6. \A f \in Side : recv'[f].eof = recv[f].eof
    BY <1>7, <2>3, <2>4
  <2> QED BY <1>6, <1>8, <1>9, <2>5, <2>6, StreamStutter
<1>11. CASE phase[e] # "SynSent" /\ ~Takes(r, p)
  <2>1. r = recv[e]
    BY <1>3, <1>11 DEF Ledger
  <2>2. got'[e] = got[e] /\ recv'[e] = recv[e]
    BY <1>7, <1>11, <2>1
  <2>3. got' = got
    BY <1>1, <1>7, <2>2 DEF Types
  <2>4. \A f \in Side : recv'[f].eof = recv[f].eof
    BY <1>7, <2>2
  <2> QED BY <1>6, <1>8, <1>9, <2>3, <2>4, StreamStutter
<1>12. CASE phase[e] # "SynSent" /\ Takes(r, p)
  <2>1. r = recv[e] /\ Established(e)
    BY <1>3, <1>4, <1>12 DEF Ledger, Established, Terminal
  <2>2. ~recv[e].eof
    BY <1>2, <1>12, <2>1, TakenFacts
  <2>3. Len(got'[e]) >= Len(got[e])
    <3>1. /\ recv'[e] = Receive(recv[e], p.kind, p.seq, p.pos)
          /\ got'[e] = got[e] \o Given(recv[e], p.kind, p.seq, p.pos)
      BY <1>7, <1>12, <2>1
    <3>2. sent'[Peer(e)] = sent[Peer(e)] /\ send'[Peer(e)] = send[Peer(e)]
      <4>1. send'[s] = send[s]
        BY <1>5, <1>6, SettlingFacts
      <4> QED BY <1>5, <1>6, <4>1
    <3> QED BY <1>1, <1>2, <1>4, <1>9, <1>12, <2>1, <3>1, <3>2, TakenKeeps
  <2>4. /\ got'[e] = [i \in 1..Len(got'[e]) |-> i] /\ Len(got'[e]) <= sent'[s]
        /\ recv'[e].eof => send'[s].fin /\ Len(got'[e]) = sent'[s]
        /\ send'[s].fin => sent'[s] = written'[s]
    BY <1>5 DEF UtpInv, Receiving, Course
  <2>5. /\ sent'[s] <= written[s] /\ sent'[s] \in Nat /\ written[s] \in Nat
        /\ Len(got'[e]) \in Nat /\ Len(got[e]) \in Nat /\ recv'[e].eof \in BOOLEAN
        /\ written' = written
    <3>1. sent'[s] <= written'[s] /\ written' = written
      BY <1>1, <1>6 DEF Types
    <3> QED BY <1>1, <3>1, SideTypes, SideTypesNext
  <2>6. Len(got'[e]) \in Len(got[e])..written[s]
    BY <2>3, <2>4, <2>5
  <2>7. got' = [got EXCEPT ![e] = Stream!Prefix(Len(got'[e]))]
    BY <1>7, <2>4 DEF Stream!Prefix
  <2>8. recv'[e].eof => send[s].fin /\ Len(got'[e]) = written[s]
    BY <1>8, <2>4, <2>5
  <2>9. [f \in Side |-> recv'[f].eof] \in
           {[f \in Side |-> recv[f].eof], [[f \in Side |-> recv[f].eof] EXCEPT ![e] = TRUE]}
    <3>1. recv[e].eof = FALSE
      <4>1. recv[e].eof \in BOOLEAN
        BY <1>1, SideTypes
      <4> QED BY <2>2, <4>1
    <3>2. \A f \in Side : f # e => recv'[f].eof = recv[f].eof
      BY <1>7
    <3>3. CASE recv'[e].eof = TRUE
      <4>1. [f \in Side |-> recv'[f].eof] = [[f \in Side |-> recv[f].eof] EXCEPT ![e] = TRUE]
        BY <3>2, <3>3
      <4> QED BY <4>1
    <3>4. CASE recv'[e].eof = FALSE
      <4>1. [f \in Side |-> recv'[f].eof] = [f \in Side |-> recv[f].eof]
        BY <3>1, <3>2, <3>4
      <4> QED BY <4>1
    <3> QED BY <2>5, <3>3, <3>4
  <2>10. [f \in Side |-> send'[f].fin] = [f \in Side |-> send[f].fin]
    BY <1>8
  <2>11. [f \in Side |-> Terminal(f)'] = [f \in Side |-> Terminal(f)]
    <3>1. \A f \in Side : Terminal(f)' = Terminal(f)
      BY <1>9 DEF Terminal
    <3> QED BY <3>1
  <2>12. Stream!Deliver(e)
    BY <1>4, <1>5, <2>2, <2>5, <2>6, <2>7, <2>8, <2>9, <2>10, <2>11 DEF Stream!Deliver
  <2> QED BY <2>12 DEF Stream!Next
<1> QED BY <1>10, <1>11, <1>12

\* The other steps of a side that are not an end.
LEMMA StreamQuiet ==
  ASSUME UtpInv, UNCHANGED <<phase, written, got>>,
         \A f \in Side : send'[f].fin = send[f].fin /\ recv'[f].eof = recv[f].eof
  PROVE  UNCHANGED Stream!vars
BY StreamStutter DEF Terminal

\* Every step of the transport is a step of the stream or invisible in it.
LEMMA StreamStep ==
  ASSUME UtpInv, UtpInv', [Next]_vars
  PROVE  Stream!Next \/ UNCHANGED Stream!vars
<1>0. Types /\ \A f \in Side : send[f] \in SendLedger /\ recv[f] \in RecvLedger
  BY SideTypes DEF UtpInv
<1>1. CASE UNCHANGED vars
  BY <1>1, StreamQuiet DEF vars
<1>2. CASE EmitSyn
  BY <1>2, StreamQuiet DEF EmitSyn, sendVars, appVars
<1>3. ASSUME NEW e \in Side, Write(e) PROVE Stream!Next
  BY <1>3, StreamWrites
<1>4. ASSUME NEW e \in Side, RequestClose(e) PROVE UNCHANGED Stream!vars
  BY <1>4, StreamQuiet DEF RequestClose
<1>5. ASSUME NEW e \in Side, Read(e) PROVE UNCHANGED Stream!vars
  <2>1. \A f \in Side : recv'[f].eof = recv[f].eof
    BY <1>0, <1>5 DEF Read, Types, RecvLedger
  <2> QED BY <1>5, <2>1, StreamQuiet DEF Read, sendVars, appVars
<1>6. ASSUME NEW e \in Side, Timeout(e) PROVE UNCHANGED Stream!vars
  <2>1. \A f \in Side : send'[f].fin = send[f].fin
    <3>1. send' = [send EXCEPT ![e] = TimedOut(send[e])]
      BY <1>6 DEF Timeout
    <3> QED BY <1>0, <3>1, FinKept DEF Types
  <2> QED BY <1>6, <2>1, StreamQuiet DEF Timeout, appVars
<1>7. ASSUME NEW e \in Side, Retransmit(e) PROVE Stream!Next \/ UNCHANGED Stream!vars
  <2>1. \/ Release(e, "Closed") /\ UNCHANGED <<written, got>>
        \/ /\ \E i : send' = [send EXCEPT ![e] = Resent(send[e], i)]
           /\ UNCHANGED <<phase, recv, written, got>>
    BY <1>7 DEF Retransmit, appVars
  <2>2. CASE Release(e, "Closed") /\ UNCHANGED <<written, got>>
    BY <1>0, <2>2, StreamEnds
  <2>3. CASE /\ \E i : send' = [send EXCEPT ![e] = Resent(send[e], i)]
             /\ UNCHANGED <<phase, recv, written, got>>
    <3>1. PICK i : send' = [send EXCEPT ![e] = Resent(send[e], i)]
      BY <2>3
    <3>2. \A f \in Side : send'[f].fin = send[f].fin
      BY <1>0, <3>1, FinKept DEF Types
    <3> QED BY <2>3, <3>2, StreamQuiet
  <2> QED BY <2>1, <2>2, <2>3
<1>8. ASSUME NEW e \in Side, NewData(e) PROVE Stream!Next \/ UNCHANGED Stream!vars
  <2>1. \/ Release(e, "Closed") /\ UNCHANGED <<written, got>>
        \/ /\ \E pos : send' = [send EXCEPT ![e] = RecordSent(send[e], "DATA", pos)]
           /\ UNCHANGED <<phase, recv, written, got>>
    BY <1>8 DEF NewData
  <2>2. CASE Release(e, "Closed") /\ UNCHANGED <<written, got>>
    BY <1>0, <2>2, StreamEnds
  <2>3. CASE /\ \E pos : send' = [send EXCEPT ![e] = RecordSent(send[e], "DATA", pos)]
             /\ UNCHANGED <<phase, recv, written, got>>
    <3>1. PICK pos : send' = [send EXCEPT ![e] = RecordSent(send[e], "DATA", pos)]
      BY <2>3
    <3>2. \A f \in Side : send'[f].fin = send[f].fin
      BY <1>0, <3>1, FinKept DEF Types
    <3> QED BY <2>3, <3>2, StreamQuiet
  <2> QED BY <2>1, <2>2, <2>3
<1>9. ASSUME NEW e \in Side, EmitFin(e) PROVE Stream!Next
  <2>1. CASE Distance(send[e].next, send[e].cum) > MaxSent
    <3>1. Release(e, "Closed") /\ written' = written /\ got' = got
      BY <1>9, <2>1 DEF EmitFin
    <3> QED BY <1>0, <3>1, StreamEnds
  <2> QED BY <1>9, <2>1, StreamCloses
<1>10. ASSUME NEW e \in Side, EmitState(e) PROVE UNCHANGED Stream!vars
  BY <1>10, StreamQuiet DEF EmitState, sendVars, appVars
<1>11. ASSUME NEW e \in Side, Finish(e) \/ Abort(e) PROVE Stream!Next
  <2>1. PICK last \in {"Closed", "Reset"} : Release(e, last)
    BY <1>11 DEF Finish, Abort
  <2>2. written' = written /\ got' = got
    BY <1>11 DEF Finish, Abort
  <2> QED BY <1>0, <2>1, <2>2, StreamEnds
<1>12. ASSUME NEW p \in net, Ignore(p) PROVE UNCHANGED Stream!vars
  BY <1>12, StreamQuiet DEF Ignore, sendVars, appVars
<1>13. ASSUME NEW p \in net, AcceptSyn(p) PROVE UNCHANGED Stream!vars
  <2>1. /\ phase[Acceptor] = "None" /\ phase' = [phase EXCEPT ![Acceptor] = "Connected"]
        /\ recv' = [recv EXCEPT ![Acceptor] = NewReceive(p.seq)]
        /\ send' = send /\ written' = written /\ got' = got /\ Acceptor \in Side
    BY <1>13, SidesFacts DEF AcceptSyn, sendVars, appVars
  <2>2. recv[Acceptor] = NewReceive(0)
    BY <2>1 DEF UtpInv, Course
  <2>3. NewReceive(0).eof = FALSE /\ NewReceive(p.seq).eof = FALSE
    BY DEF NewReceive
  <2>4. \A f \in Side : recv'[f].eof = recv[f].eof
    BY <1>0, <2>1, <2>2, <2>3 DEF Types
  <2>5. \A f \in Side : Terminal(f)' <=> Terminal(f)
    BY <1>0, <2>1 DEF Types, Terminal
  <2> QED BY <2>1, <2>4, <2>5, StreamStutter
<1>14. ASSUME NEW p \in net, Incoming(p) PROVE Stream!Next \/ UNCHANGED Stream!vars
  BY <1>14, StreamDelivers
<1> QED BY <1>1, <1>2, <1>3, <1>4, <1>5, <1>6, <1>7, <1>8, <1>9, <1>10, <1>11, <1>12, <1>13, <1>14
        DEF Next, Local

\* The stream begins empty.
LEMMA StreamInit ==
  ASSUME Init
  PROVE  Stream!Init
<1>1. UtpInv /\ Types
  BY UtpInit DEF UtpInv
<1>2. written = [e \in Side |-> 0] /\ got = [e \in Side |-> <<>>]
  BY DEF Init
<1>3. \A e \in Side : /\ send[e].fin = FALSE /\ recv[e].eof = FALSE /\ Terminal(e) = FALSE
  <2> TAKE e \in Side
  <2>1. phase[e] \in {"None", "SynSent"}
    BY DEF Init
  <2>2. ~send[e].fin /\ recv[e] = NewReceive(0)
    BY <1>1, <2>1 DEF UtpInv, Course
  <2>3. send[e].fin \in BOOLEAN
    BY <1>1, SideTypes
  <2> QED BY <2>1, <2>2, <2>3 DEF NewReceive, Terminal
<1> QED BY <1>2, <1>3 DEF Stream!Init

\* The connection implements ByteStream: each application is given a prefix of what the other
\* wrote, in order and once, and the end of the stream after all of it.
THEOREM UtpRefinesStream == Spec => StreamSpec
<1>1. Init => Stream!Init
  BY StreamInit
<1>2. UtpInv /\ UtpInv' /\ [Next]_vars => [Stream!Next]_Stream!vars
  BY StreamStep
<1> QED BY <1>1, <1>2, UtpAlwaysSound, PTL DEF Spec, StreamSpec, Stream!Spec
=============================================================================
