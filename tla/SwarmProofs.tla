---------------------------- MODULE SwarmProofs ----------------------------
(***************************************************************************)
(* Proofs about Swarm for every set of peers and pieces and every limit.   *)
(*                                                                         *)
(* First its structure: request ownership, the exactness of the            *)
(* scheduler's indexes, and types.                                         *)
(*                                                                         *)
(* Then what it promises about the bytes and about its books: the          *)
(* write/hash join is sound, a published piece is good on disk, a peer's   *)
(* departure touches only what it owned, a received block stays received;  *)
(* the incremental counters equal what they count, the ceilings hold,      *)
(* teardown returns everything, and the evidence of an unverified payload  *)
(* outlives its connection and the trimming of old attempts.               *)
(*                                                                         *)
(* The last part is about FastPeer: the composition with the wire is a     *)
(* Swarm, no active request waits for an answer that will not come, and a  *)
(* request that is owed an answer is forgotten only with its plan or by a  *)
(* full history.                                                           *)
(***************************************************************************)
EXTENDS FastPeer, FiniteSetTheorems, FunctionTheorems, WellFoundedInduction, TLAPS

-----------------------------------------------------------------------------
(* The inductive invariant. *)

\* the blocks of piece p in one of the phases S
InPiece(p, S) == {b \in BlocksOf(p) : phase[b] \in S}
MissingOf(p) == InPiece(p, {"Missing"})
BusyOf(p) == InPiece(p, {"Requested", "Writing", "Received"})
UnwrittenOf(p) == InPiece(p, {"Missing", "Requested", "Writing"})

\* the types the argument needs
Shape ==
  /\ conn \in [Conn -> {"new", "open", "closed"}]
  /\ planned \subseteq Piece
  /\ phase \in [Block -> Phases]
  /\ attempts \in [Block -> SUBSET AttemptRecord]
  /\ active \subseteq ActiveRecord /\ nextId \in Nat
  /\ pieceMissing \in [Piece -> Int] /\ pieceActive \in [Piece -> Int]
  /\ cursor \in [Piece -> Nat] /\ requestable \in [Piece -> Nat]
  /\ join \in [Piece -> JoinRecord]
  /\ activePieces \subseteq Piece
  /\ diagnosis \in Piece \cup {NoPiece}
  /\ mode \in {"running", "stopping", "cancelled", "stopped"}

\* identifiers of active attempts are used once and below the next one
IdsFresh ==
  /\ \A a \in active : a.id < nextId
  /\ \A a, d \in active : a.id = d.id => a = d

\* exactly the planned pieces have block states
PlansHavePhases ==
  \A p \in Piece : \A b \in BlocksOf(p) : phase[b] = "None" <=> p \notin planned

\* the indexes of one piece
PieceIndexed(p) ==
  /\ pieceMissing[p] = Cardinality(MissingOf(p))
  /\ pieceActive[p] = Cardinality(BusyOf(p))
  /\ p \in activePieces <=> BusyOf(p) # {}
  /\ cursor[p] \in 1 .. (BlockCount[p] + 1)
  /\ \A b \in MissingOf(p) : cursor[p] <= b[2]
  /\ cursor[p] <= BlockCount[p] => <<p, cursor[p]>> \in MissingOf(p)
  /\ requestable[p] = IF BusyOf(p) # {} /\ MissingOf(p) # {} THEN cursor[p] ELSE 0
Indexed == mode \in {"running", "stopping"} => \A p \in Piece : PieceIndexed(p)

\* the storage join of a piece counts its unwritten blocks, and a hash is
\* begun, and a diagnosis lasts, only while there are none
Joined ==
  mode = "running" =>
    /\ \A p \in planned :
         join[p].expected - join[p].completed = Cardinality(UnwrittenOf(p))
    /\ \A p \in Piece :
         join[p].hash # "NotStarted" => p \in planned /\ UnwrittenOf(p) = {}
    /\ diagnosis # NoPiece => join[diagnosis].hash = "Failed"

OwnershipInv ==
  /\ Shape /\ RequestOwnership /\ IdsFresh /\ PlansHavePhases /\ Indexed /\ Joined

-----------------------------------------------------------------------------
(* Blocks, cardinalities and minima. *)

\* A block belongs to one piece and has an index in it.
LEMMA BlockFacts ==
  /\ \A b \in Block : /\ b[1] \in Piece /\ b \in BlocksOf(b[1])
                      /\ b[2] \in 1 .. BlockCount[b[1]] /\ b = <<b[1], b[2]>>
  /\ \A p \in Piece : \A b \in BlocksOf(p) :
       b \in Block /\ b[1] = p /\ b[2] \in 1 .. BlockCount[p] /\ b = <<p, b[2]>>
  /\ \A p \in Piece : \A i \in 1 .. BlockCount[p] : <<p, i>> \in BlocksOf(p)
BY PieceAssumption DEF Block, BlocksOf

\* The blocks of a piece are finitely many, BlockCount[p] of them.
LEMMA BlocksFinite ==
  ASSUME NEW p \in Piece
  PROVE  /\ IsFiniteSet(BlocksOf(p)) /\ Cardinality(BlocksOf(p)) = BlockCount[p]
         /\ BlockCount[p] \in Nat \ {0} /\ BlocksOf(p) # {}
<1>1. BlockCount[p] \in Nat \ {0}
  BY PieceAssumption
<1>2. IsFiniteSet(1 .. BlockCount[p]) /\ Cardinality(1 .. BlockCount[p]) = BlockCount[p]
  BY <1>1, FS_Interval
<1>3. IsFiniteSet({p}) /\ Cardinality({p}) = 1
  BY FS_Singleton
<1>4. /\ IsFiniteSet({p} \X (1 .. BlockCount[p]))
      /\ Cardinality({p} \X (1 .. BlockCount[p])) = 1 * BlockCount[p]
  BY <1>2, <1>3, FS_Product
<1>5. <<p, 1>> \in BlocksOf(p)
  BY <1>1 DEF BlocksOf
<1> QED BY <1>1, <1>4, <1>5 DEF BlocksOf

\* A non-empty set of naturals has a minimum.
LEMMA MinOfNaturals ==
  ASSUME NEW S \in SUBSET Nat, S # {}
  PROVE  Min(S) \in S /\ \A y \in S : Min(S) <= y
<1>1. PICK x \in S : \A y \in S : ~ (<<y, x>> \in OpToRel(<, Nat))
  BY WFMin, NatLessThanWellFounded
<1>2. \A y \in S : x <= y
  <2> TAKE y \in S
  <2>1. ~ (y < x)
    BY <1>1 DEF OpToRel
  <2> QED BY <2>1
<1> QED BY <1>2 DEF Min

\* A non-empty finite set of naturals has a maximum.
LEMMA MaxOfNaturals ==
  ASSUME NEW S \in SUBSET Nat, S # {}, IsFiniteSet(S)
  PROVE  Max(S) \in S /\ \A y \in S : y <= Max(S)
<1> DEFINE above(x) == {y \in S : x < y}
           sizes == {Cardinality(above(x)) : x \in S}
<1>1. \A x \in S : IsFiniteSet(above(x)) /\ Cardinality(above(x)) \in Nat
  <2> TAKE x \in S
  <2>1. above(x) \in SUBSET S
    OBVIOUS
  <2> QED BY <2>1, FS_Subset, FS_CardinalityType
<1>2. sizes \in SUBSET Nat /\ sizes # {}
  BY <1>1
<1>3. Min(sizes) \in sizes /\ \A n \in sizes : Min(sizes) <= n
  <2> HIDE DEF sizes
  <2> QED BY <1>2, MinOfNaturals
<1>4. PICK x \in S : \A y \in S : Cardinality(above(x)) <= Cardinality(above(y))
  BY <1>3
<1>5. \A y \in S : x >= y /\ y <= x
  <2> SUFFICES ASSUME NEW y \in S, x < y PROVE FALSE
    OBVIOUS
  <2>1. x \in Nat /\ y \in Nat /\ \A z \in S : z \in Nat
    OBVIOUS
  <2>2. above(y) \in SUBSET above(x) /\ y \in above(x) \ above(y)
    <3>1. ~(y < y) /\ \A z \in S : y < z => x < z
      BY <2>1
    <3> QED BY <3>1
  <2>3. Cardinality(above(y)) <= Cardinality(above(x))
    BY <1>1, <2>2, FS_Subset
  <2>4. Cardinality(above(x)) # Cardinality(above(y))
    BY <1>1, <2>2, FS_Subset
  <2> QED BY <1>1, <1>4, <2>3, <2>4
<1> QED BY <1>5 DEF Max

\* The size of a disjoint union.
LEMMA CardUnion ==
  ASSUME NEW S, NEW T, NEW R, IsFiniteSet(S), IsFiniteSet(T), S \cap T = {}, R = S \cup T
  PROVE  IsFiniteSet(R) /\ Cardinality(R) = Cardinality(S) + Cardinality(T)
<1> DEFINE both == Cardinality(S \cap T)
<1>1. both = 0
  BY FS_EmptySet, Zenon
<1>2. Cardinality(S) \in Nat /\ Cardinality(T) \in Nat
  BY FS_CardinalityType
<1>3. IsFiniteSet(R) /\ Cardinality(R) = Cardinality(S) + Cardinality(T) - both
  BY FS_Union, Zenon
<1> HIDE DEF both
<1> QED BY <1>1, <1>2, <1>3

\* The size of what is left when a subset is removed.
LEMMA CardDifference ==
  ASSUME NEW S, NEW T, NEW R, IsFiniteSet(S), S \cap T = T, R = S \ T
  PROVE  IsFiniteSet(R) /\ Cardinality(R) = Cardinality(S) - Cardinality(T)
<1>1. IsFiniteSet(S \ T) /\ Cardinality(S \ T) = Cardinality(S) - Cardinality(S \cap T)
  BY FS_Difference, Zenon
<1> QED BY <1>1, Zenon

-----------------------------------------------------------------------------
(* Requests that end. *)

\* Trimming drops terminal attempts only.
LEMMA TrimFacts ==
  ASSUME NEW A, NEW limit, NEW id
  PROVE  /\ Trim(A, limit, id) \subseteq A
         /\ \A r \in A : IsActive(r) => r \in Trim(A, limit, id)
BY DEF Trim

\* The attempts retained by a block when the requests T end: records of the same
\* shape; the active ones are those that were active and are not in T.
LEMMA EndedFacts ==
  ASSUME Shape, NEW T \in SUBSET active, NEW b \in Block,
         \A r \in ActiveIn(b) : \A a \in T : a.id = r.id => a.block = b
  PROVE  /\ Ended(b, T) \in SUBSET AttemptRecord
         /\ \A r \in Ended(b, T) : IsActive(r) => r \in ActiveIn(b) /\ \A a \in T : a.id # r.id
         /\ \A r \in ActiveIn(b) : (\A a \in T : a.id # r.id) => r \in Ended(b, T)
<1> DEFINE end(r) == IF \E a \in T : a.id = r.id
                     THEN [r EXCEPT !.disposition = "Released"] ELSE r
           all == {end(r) : r \in attempts[b]}
<1>1. \A r \in attempts[b] : r \in AttemptRecord
  BY DEF Shape
<1>2. \A r \in attempts[b] :
        /\ end(r) \in AttemptRecord
        /\ IsActive(end(r)) => IsActive(r) /\ end(r) = r /\ \A a \in T : a.id # r.id
        /\ (\A a \in T : a.id # r.id) => end(r) = r
  BY <1>1 DEF AttemptRecord, IsActive, Disposition
<1>3. CASE \E a \in T : a.block = b
  <2>1. Ended(b, T) = Trim(all, MaxTerminal, 0)
    BY <1>3 DEF Ended
  <2>2. Ended(b, T) \subseteq all /\ \A r \in all : IsActive(r) => r \in Ended(b, T)
    <3> HIDE DEF all
    <3> QED BY <2>1, TrimFacts
  <2>3. \A r \in all : /\ r \in AttemptRecord
                       /\ IsActive(r) => r \in ActiveIn(b) /\ \A a \in T : a.id # r.id
    <3> TAKE r \in all
    <3>1. PICK s \in attempts[b] : r = end(s)
      OBVIOUS
    <3> HIDE DEF end, all
    <3> QED BY <1>2, <3>1 DEF ActiveIn
  <2>4. \A r \in ActiveIn(b) : (\A a \in T : a.id # r.id) => r \in all /\ IsActive(r)
    BY <1>2 DEF ActiveIn
  <2> HIDE DEF all
  <2> QED BY <2>2, <2>3, <2>4
<1>4. CASE ~ \E a \in T : a.block = b
  <2>1. Ended(b, T) = attempts[b]
    BY <1>4 DEF Ended
  <2> QED BY <1>1, <1>4, <2>1 DEF ActiveIn
<1> QED BY <1>3, <1>4

\* When the requests T end, and the blocks F, those T leaves without a request
\* and perhaps some being written, become missing, ownership is kept.
LEMMA EndedOwnership ==
  ASSUME OwnershipInv, NEW T \in SUBSET active, NEW F \in SUBSET Block,
         Orphaned(T) \subseteq F, \A b \in F \ Orphaned(T) : phase[b] = "Writing",
         attempts' = [b \in Block |-> Ended(b, T)],
         phase' = [b \in Block |-> IF b \in F THEN "Missing" ELSE phase[b]],
         active' = active \ T, nextId' = nextId,
         \A a \in active \ T : conn'[a.conn] = "open"
  PROVE  /\ RequestOwnership' /\ IdsFresh'
         /\ phase' \in [Block -> Phases] /\ attempts' \in [Block -> SUBSET AttemptRecord]
<1> USE DEF OwnershipInv
<1>1. /\ \A a \in active : a.block \in Block
      /\ \A b \in Block : \A r \in ActiveIn(b) : \A a \in active : a.id = r.id => a.block = b
      /\ \A a, d \in active : a.id = d.id => a = d
  BY DEF Shape, ActiveRecord, RequestOwnership, IndexAgrees, IdsFresh
<1>2. \A b \in Block :
        /\ Ended(b, T) \in SUBSET AttemptRecord
        /\ \A r \in Ended(b, T) : IsActive(r) => r \in ActiveIn(b) /\ \A a \in T : a.id # r.id
        /\ \A r \in ActiveIn(b) : (\A a \in T : a.id # r.id) => r \in Ended(b, T)
  BY <1>1, EndedFacts
<1>3. \A b \in Block : ActiveIn(b)' = {r \in ActiveIn(b) : \A a \in T : a.id # r.id}
  BY <1>2 DEF ActiveIn, IsActive
<1>4. IndexAgrees'
  <2>1. ASSUME NEW a \in active'
        PROVE  \E r \in ActiveIn(a.block)' : r.id = a.id /\ r.conn = a.conn
    <3>1. PICK r \in ActiveIn(a.block) : r.id = a.id /\ r.conn = a.conn
      BY <2>1 DEF RequestOwnership, IndexAgrees
    <3>2. \A d \in T : d.id # r.id
      BY <1>1, <2>1, <3>1
    <3> QED BY <1>1, <1>3, <2>1, <3>1, <3>2
  <2>2. ASSUME NEW b \in Block, NEW r \in ActiveIn(b)'
        PROVE  \E a \in active' : a.id = r.id /\ a.conn = r.conn /\ a.block = b
    <3>1. r \in ActiveIn(b) /\ \A a \in T : a.id # r.id
      BY <1>3, <2>2
    <3>2. PICK a \in active : a.id = r.id /\ a.conn = r.conn /\ a.block = b
      BY <3>1 DEF RequestOwnership, IndexAgrees
    <3> QED BY <3>1, <3>2
  <2> QED BY <2>1, <2>2 DEF IndexAgrees
<1>5. RequestedIsOwned'
  <2> SUFFICES ASSUME NEW b \in Block PROVE (phase'[b] = "Requested") <=> ActiveIn(b)' # {}
    BY DEF RequestedIsOwned
  <2>1. (phase[b] = "Requested") <=> ActiveIn(b) # {}
    BY DEF RequestOwnership, RequestedIsOwned
  <2>2. CASE b \in Orphaned(T)
    <3>1. ActiveIn(b)' = {}
      BY <1>3, <2>2 DEF Orphaned
    <3> QED BY <2>2, <3>1
  <2>3. CASE b \in F \ Orphaned(T)
    <3>1. ActiveIn(b)' = {}
      BY <1>3, <2>1, <2>3
    <3> QED BY <2>3, <3>1
  <2>4. CASE b \notin F
    <3>1. phase'[b] = phase[b] /\ b \notin Orphaned(T)
      BY <2>4
    <3>2. ASSUME NEW r \in ActiveIn(b) PROVE ActiveIn(b)' # {}
      <4>1. CASE \E a \in T : a.block = b
        <5>1. PICK s \in ActiveIn(b) : \A a \in T : a.id # s.id
          BY <3>1, <4>1 DEF Orphaned
        <5> QED BY <1>3, <5>1
      <4>2. CASE ~ \E a \in T : a.block = b
        BY <1>1, <1>3, <3>2, <4>2
      <4> QED BY <4>1, <4>2
    <3> QED BY <1>3, <2>1, <3>1, <3>2
  <2> QED BY <2>2, <2>3, <2>4
<1>6. OwnersAreOpen' /\ OneRequestEach'
  BY DEF OwnersAreOpen, OneRequestEach, IsOpen, RequestOwnership
<1>7. IdsFresh'
  BY DEF IdsFresh
<1>8. phase' \in [Block -> Phases] /\ attempts' \in [Block -> SUBSET AttemptRecord]
  BY <1>2 DEF Shape, Phases, Status
<1> QED BY <1>4, <1>5, <1>6, <1>7, <1>8 DEF RequestOwnership

-----------------------------------------------------------------------------
(* The indexes of a piece. *)

\* The block sets of a piece are finite.
LEMMA InPieceFinite ==
  ASSUME NEW p \in Piece, NEW S
  PROVE  IsFiniteSet(InPiece(p, S)) /\ Cardinality(InPiece(p, S)) \in Nat
         /\ InPiece(p, S) \subseteq BlocksOf(p)
<1>1. InPiece(p, S) \in SUBSET BlocksOf(p)
  BY DEF InPiece
<1> QED BY <1>1, BlocksFinite, FS_Subset, FS_CardinalityType

\* The cursor is past the last block exactly when no block is missing.
LEMMA CursorFacts ==
  ASSUME NEW p \in Piece, PieceIndexed(p)
  PROVE  cursor[p] <= BlockCount[p] <=> MissingOf(p) # {}
<1>1. ASSUME NEW b \in MissingOf(p) PROVE cursor[p] <= BlockCount[p]
  <2>1. b[2] \in 1 .. BlockCount[p] /\ cursor[p] <= b[2]
    BY BlockFacts DEF PieceIndexed, MissingOf, InPiece
  <2> QED BY <2>1, BlocksFinite DEF PieceIndexed
<1> QED BY <1>1 DEF PieceIndexed

\* A piece whose blocks and indexes a step leaves alone stays indexed.
LEMMA SameIndexes ==
  ASSUME NEW p \in Piece, PieceIndexed(p), \A b \in BlocksOf(p) : phase'[b] = phase[b],
         pieceMissing'[p] = pieceMissing[p], pieceActive'[p] = pieceActive[p],
         cursor'[p] = cursor[p], requestable'[p] = requestable[p],
         p \in activePieces' <=> p \in activePieces
  PROVE  PieceIndexed(p)'
<1>1. \A S : InPiece(p, S)' = InPiece(p, S)
  BY DEF InPiece
<1>2. MissingOf(p)' = MissingOf(p) /\ BusyOf(p)' = BusyOf(p)
  BY <1>1 DEF MissingOf, BusyOf
<1> QED BY <1>2 DEF PieceIndexed

\* Blocks that become missing are found again: the counters move, the cursor
\* goes back to the first of them, an idle piece leaves the active set.
LEMMA BecameMissingIndexed ==
  ASSUME Shape, \A p \in Piece : PieceIndexed(p), NEW F \in SUBSET Block,
         \A b \in F : phase[b] \in {"Requested", "Writing"},
         phase' = [b \in Block |-> IF b \in F THEN "Missing" ELSE phase[b]],
         BecameMissing(F)
  PROVE  /\ \A p \in Piece : PieceIndexed(p)'
         /\ pieceMissing' \in [Piece -> Int] /\ pieceActive' \in [Piece -> Int]
         /\ cursor' \in [Piece -> Nat] /\ requestable' \in [Piece -> Nat]
         /\ activePieces' \subseteq Piece
<1> DEFINE G(p) == F \cap BlocksOf(p)
           indexes(p) == {cursor[p]} \cup {b[2] : b \in G(p)}
           first(p) == Min(indexes(p))
           idle == {p \in Piece : Cardinality(G(p)) # 0 /\ pieceActive[p] = Cardinality(G(p))}
<1>1. /\ pieceMissing' = [p \in Piece |-> pieceMissing[p] + Cardinality(G(p))]
      /\ pieceActive' = [p \in Piece |-> pieceActive[p] - Cardinality(G(p))]
      /\ cursor' = [p \in Piece |-> first(p)]
      /\ activePieces' = activePieces \ idle
      /\ requestable' = [p \in Piece |->
           IF Cardinality(G(p)) = 0 THEN requestable[p]
           ELSE IF p \in activePieces' THEN first(p) ELSE 0]
  BY DEF BecameMissing
<1>2. ASSUME NEW p \in Piece
      PROVE  /\ IsFiniteSet(G(p)) /\ Cardinality(G(p)) \in Nat
             /\ Cardinality(G(p)) = 0 <=> G(p) = {}
             /\ first(p) \in indexes(p) /\ \A i \in indexes(p) : first(p) <= i
             /\ indexes(p) \in SUBSET Nat
  <2>1. G(p) \in SUBSET BlocksOf(p)
    OBVIOUS
  <2>2. IsFiniteSet(G(p))
    BY <2>1, BlocksFinite, FS_Subset
  <2>3. Cardinality(G(p)) \in Nat /\ (Cardinality(G(p)) = 0 <=> G(p) = {})
    BY <2>2, FS_CardinalityType, FS_EmptySet
  <2>4. indexes(p) \in SUBSET Nat /\ indexes(p) # {}
    BY BlockFacts DEF Shape
  <2>5. first(p) \in indexes(p) /\ \A i \in indexes(p) : first(p) <= i
    <3> HIDE DEF indexes
    <3> QED BY <2>4, MinOfNaturals
  <2> QED BY <2>2, <2>3, <2>4, <2>5
<1>3. /\ pieceMissing' \in [Piece -> Int] /\ pieceActive' \in [Piece -> Int]
      /\ cursor' \in [Piece -> Nat] /\ requestable' \in [Piece -> Nat]
      /\ activePieces' \subseteq Piece
  <2> HIDE DEF G, first, indexes, idle
  <2>1. \A p \in Piece : first(p) \in Nat
    BY <1>2
  <2>2. pieceMissing' \in [Piece -> Int] /\ pieceActive' \in [Piece -> Int]
    BY <1>1, <1>2 DEF Shape
  <2> QED BY <1>1, <2>1, <2>2 DEF Shape
<1>4. ASSUME NEW p \in Piece PROVE PieceIndexed(p)'
  <2>3. /\ pieceMissing[p] = Cardinality(MissingOf(p)) /\ pieceActive[p] = Cardinality(BusyOf(p))
        /\ cursor[p] \in 1 .. (BlockCount[p] + 1) /\ BlockCount[p] \in Nat \ {0}
        /\ \A b \in MissingOf(p) : cursor[p] <= b[2]
    BY BlocksFinite DEF PieceIndexed
  <2>1. CASE G(p) = {}
    <3>1. Cardinality(G(p)) = 0
      BY <1>2, <2>1
    <3>2. first(p) = cursor[p]
      <4>1. indexes(p) = {cursor[p]}
        BY <2>1
      <4> HIDE DEF indexes, G
      <4> QED BY <1>2, <4>1
    <3>3. \A b \in BlocksOf(p) : phase'[b] = phase[b]
      BY <2>1, BlockFacts
    <3>4. /\ pieceMissing'[p] = pieceMissing[p] /\ pieceActive'[p] = pieceActive[p]
          /\ cursor'[p] = cursor[p] /\ requestable'[p] = requestable[p]
          /\ p \in activePieces' <=> p \in activePieces
      <4> HIDE DEF first, indexes, G
      <4> QED BY <1>1, <3>1, <3>2 DEF Shape
    <3> QED BY <3>3, <3>4, SameIndexes
  <2>2. CASE G(p) # {}
    <3>1. /\ MissingOf(p)' = MissingOf(p) \cup G(p)
          /\ BusyOf(p)' = BusyOf(p) \ G(p)
          /\ MissingOf(p) \cap G(p) = {} /\ BusyOf(p) \cap G(p) = G(p)
      BY BlockFacts DEF MissingOf, BusyOf, InPiece
    <3>2. /\ Cardinality(MissingOf(p)') = Cardinality(MissingOf(p)) + Cardinality(G(p))
          /\ Cardinality(BusyOf(p)') = Cardinality(BusyOf(p)) - Cardinality(G(p))
          /\ IsFiniteSet(BusyOf(p)')
      <4>1. IsFiniteSet(MissingOf(p)) /\ IsFiniteSet(BusyOf(p))
        BY InPieceFinite DEF MissingOf, BusyOf
      <4> HIDE DEF G
      <4>2. Cardinality(MissingOf(p)') = Cardinality(MissingOf(p)) + Cardinality(G(p))
        BY <1>2, <3>1, <4>1, CardUnion
      <4>3. /\ Cardinality(BusyOf(p)') = Cardinality(BusyOf(p)) - Cardinality(G(p))
            /\ IsFiniteSet(BusyOf(p)')
        BY <1>2, <3>1, <4>1, CardDifference
      <4> QED BY <4>2, <4>3
    <3>3. /\ pieceMissing'[p] = Cardinality(MissingOf(p)')
          /\ pieceActive'[p] = Cardinality(BusyOf(p)')
      <4> HIDE DEF G
      <4> QED BY <1>1, <3>2 DEF PieceIndexed
    <3>4. p \in activePieces' <=> BusyOf(p)' # {}
      <4>1. p \in idle <=> BusyOf(p)' = {}
        <5>1. p \in idle <=> pieceActive'[p] = 0
          <6> HIDE DEF G
          <6>1. Cardinality(G(p)) \in Nat \ {0} /\ pieceActive[p] \in Int
            BY <1>2, <2>2 DEF Shape
          <6>2. pieceActive'[p] = pieceActive[p] - Cardinality(G(p))
            BY <1>1
          <6> QED BY <6>1, <6>2
        <5>2. BusyOf(p)' = {} <=> Cardinality(BusyOf(p)') = 0
          BY <3>2, FS_EmptySet
        <5> QED BY <3>3, <5>1, <5>2
      <4>2. BusyOf(p) # {}
        BY <2>2, <3>1
      <4>3. p \in activePieces
        BY <4>2 DEF PieceIndexed
      <4> HIDE DEF idle
      <4> QED BY <1>1, <4>1, <4>3
    <3>5. cursor'[p] = first(p)
      BY <1>1
    <3>6. /\ \A b \in MissingOf(p)' : first(p) <= b[2]
          /\ first(p) \in 1 .. BlockCount[p] /\ <<p, first(p)>> \in MissingOf(p)'
      <4>1. \A b \in G(p) : b[2] \in indexes(p) /\ b[2] \in 1 .. BlockCount[p] /\ <<p, b[2]>> = b
        BY BlockFacts
      <4>2. \A b \in MissingOf(p) : cursor[p] <= b[2] /\ b[2] \in Nat
        <5>1. \A b \in MissingOf(p) : b \in BlocksOf(p)
          BY DEF MissingOf, InPiece
        <5> QED BY <2>3, <5>1, BlockFacts
      <4>3. cursor[p] \in indexes(p)
        OBVIOUS
      <4>4. PICK g \in G(p) : TRUE
        BY <2>2
      <4>5. first(p) = cursor[p] \/ \E b \in G(p) : first(p) = b[2]
        <5>1. first(p) \in indexes(p)
          BY <1>2
        <5> HIDE DEF first
        <5> QED BY <5>1
      <4>6. cursor[p] <= BlockCount[p] => <<p, cursor[p]>> \in MissingOf(p)
        BY DEF PieceIndexed
      <4>7. cursor[p] \in Nat /\ cursor[p] >= 1
        BY <2>3
      <4>8. first(p) \in Nat /\ first(p) <= cursor[p] /\ \A b \in G(p) : first(p) <= b[2]
        BY <1>2, <4>1, <4>3
      <4> HIDE DEF first, indexes, G
      <4>9. first(p) \in 1 .. BlockCount[p]
        BY <4>1, <4>4, <4>5, <4>7, <4>8, BlocksFinite
      <4>10. \A b \in MissingOf(p)' : first(p) <= b[2]
        BY <3>1, <4>2, <4>7, <4>8
      <4>11. <<p, first(p)>> \in MissingOf(p)'
        BY <3>1, <4>1, <4>5, <4>6, <4>9
      <4> QED BY <4>9, <4>10, <4>11
    <3>7. requestable'[p] = IF BusyOf(p)' # {} /\ MissingOf(p)' # {} THEN cursor'[p] ELSE 0
      <4>1. MissingOf(p)' # {}
        BY <3>6
      <4> HIDE DEF first, G
      <4> QED BY <1>1, <1>2, <2>2, <3>4, <3>5, <4>1
    <3> HIDE DEF first, indexes, G, idle
    <3> QED BY <3>3, <3>4, <3>5, <3>6, <3>7, BlocksFinite DEF PieceIndexed
  <2> QED BY <2>1, <2>2
<1> QED BY <1>3, <1>4

-----------------------------------------------------------------------------
(* The steps of the swarm. *)

\* The join of every piece is kept by a step that leaves the set of unwritten
\* blocks of every piece alone.
LEMMA SameJoins ==
  ASSUME OwnershipInv, UNCHANGED <<planned, join, diagnosis>>,
         mode' = "running" => mode = "running",
         \A p \in Piece : UnwrittenOf(p)' = UnwrittenOf(p)
  PROVE  Joined'
<1> SUFFICES ASSUME mode' = "running" PROVE Joined'
  BY DEF Joined
<1>1. \A p \in planned' : join'[p].expected - join'[p].completed = Cardinality(UnwrittenOf(p)')
  <2> TAKE p \in planned'
  <2>1. p \in Piece /\ UnwrittenOf(p)' = UnwrittenOf(p)
    BY DEF OwnershipInv, Shape
  <2>2. Cardinality(UnwrittenOf(p)') = Cardinality(UnwrittenOf(p))
    BY <2>1, Zenon
  <2> QED BY <2>2 DEF OwnershipInv, Joined
<1> QED BY <1>1 DEF OwnershipInv, Joined

\* A step that leaves the swarm's tables alone keeps the invariant; connections
\* may open and the run may end.
LEMMA SameTables ==
  ASSUME OwnershipInv, conn' \in [Conn -> {"new", "open", "closed"}],
         \A c \in Conn : conn[c] = "open" => conn'[c] = "open",
         mode' \in {"running", "stopping", "cancelled", "stopped"},
         mode' = "running" => mode = "running",
         mode' \in {"running", "stopping"} => mode \in {"running", "stopping"},
         UNCHANGED <<planned, phase, attempts, active, nextId, indexVars, join, diagnosis>>
  PROVE  OwnershipInv'
<1>1. Shape' /\ IdsFresh' /\ PlansHavePhases'
  BY DEF OwnershipInv, Shape, IdsFresh, PlansHavePhases, indexVars
<1>2. RequestOwnership'
  <2>1. \A b \in Block : ActiveIn(b)' = ActiveIn(b)
    BY DEF ActiveIn, IsActive
  <2>2. \A a \in active : a.block \in Block /\ a.conn \in Conn
    BY DEF OwnershipInv, Shape, ActiveRecord
  <2>3. IndexAgrees' /\ RequestedIsOwned' /\ OneRequestEach'
    BY <2>1, <2>2 DEF OwnershipInv, RequestOwnership, IndexAgrees, RequestedIsOwned, OneRequestEach
  <2>4. OwnersAreOpen'
    BY <2>2 DEF OwnershipInv, RequestOwnership, OwnersAreOpen, IsOpen
  <2> QED BY <2>3, <2>4 DEF RequestOwnership
<1>3. Indexed'
  BY SameIndexes DEF OwnershipInv, Indexed, indexVars
<1>4. Joined'
  BY SameJoins DEF UnwrittenOf, InPiece
<1> QED BY <1>1, <1>2, <1>3, <1>4 DEF OwnershipInv

\* Blocks that become missing were planned and unwritten, and still are.
LEMMA MissingAgain ==
  ASSUME OwnershipInv, NEW F \in SUBSET Block, \A b \in F : phase[b] \in {"Requested", "Writing"},
         phase' = [b \in Block |-> IF b \in F THEN "Missing" ELSE phase[b]],
         UNCHANGED planned
  PROVE  /\ PlansHavePhases'
         /\ \A p \in Piece : UnwrittenOf(p)' = UnwrittenOf(p)
<1>1. \A b \in Block : phase'[b] = "None" <=> phase[b] = "None"
  OBVIOUS
<1>2. PlansHavePhases'
  BY <1>1, BlockFacts DEF OwnershipInv, PlansHavePhases
<1>3. \A b \in Block : phase'[b] \in {"Missing", "Requested", "Writing"} <=>
                       phase[b] \in {"Missing", "Requested", "Writing"}
  OBVIOUS
<1> QED BY <1>2, <1>3, BlockFacts DEF UnwrittenOf, InPiece

\* The blocks that the end of active requests leaves without one were requested.
LEMMA OrphanedWasRequested ==
  ASSUME OwnershipInv, NEW T \in SUBSET active
  PROVE  Orphaned(T) \in SUBSET Block /\ \A b \in Orphaned(T) : phase[b] = "Requested"
BY DEF OwnershipInv, RequestOwnership, IndexAgrees, RequestedIsOwned, Orphaned

\* terminate_requested, for any set of active requests.
LEMMA TerminateStep ==
  ASSUME OwnershipInv, mode = "running", NEW T \in SUBSET active, Terminate(T),
         conn' \in [Conn -> {"new", "open", "closed"}],
         \A a \in active \ T : conn'[a.conn] = "open",
         UNCHANGED <<planned, join, diagnosis, mode>>
  PROVE  OwnershipInv'
<1> DEFINE F == Orphaned(T)
<1>1. F \in SUBSET Block /\ \A b \in F : phase[b] = "Requested"
  BY OrphanedWasRequested
<1>2. /\ attempts' = [b \in Block |-> Ended(b, T)]
      /\ phase' = [b \in Block |-> IF b \in F THEN "Missing" ELSE phase[b]]
      /\ active' = active \ T /\ nextId' = nextId /\ BecameMissing(F)
  BY DEF Terminate
<1> HIDE DEF F
<1>3. /\ RequestOwnership' /\ IdsFresh'
      /\ phase' \in [Block -> Phases] /\ attempts' \in [Block -> SUBSET AttemptRecord]
  BY <1>1, <1>2, EndedOwnership DEF F
<1>4. PlansHavePhases' /\ \A p \in Piece : UnwrittenOf(p)' = UnwrittenOf(p)
  BY <1>1, <1>2, MissingAgain
<1>5. /\ \A p \in Piece : PieceIndexed(p)'
      /\ pieceMissing' \in [Piece -> Int] /\ pieceActive' \in [Piece -> Int]
      /\ cursor' \in [Piece -> Nat] /\ requestable' \in [Piece -> Nat]
      /\ activePieces' \subseteq Piece
  BY <1>1, <1>2, BecameMissingIndexed DEF OwnershipInv, Indexed
<1>6. Shape'
  BY <1>2, <1>3, <1>5 DEF OwnershipInv, Shape
<1>7. Joined'
  BY <1>4, SameJoins
<1> QED BY <1>3, <1>4, <1>5, <1>6, <1>7 DEF OwnershipInv, Indexed

\* cancel_all ends every request and gives up every write.
LEMMA CancelStep ==
  ASSUME OwnershipInv, CancelAll
  PROVE  OwnershipInv'
<1> DEFINE F == Orphaned(active) \cup GivenUp
           G(p) == F \cap BlocksOf(p)
           indexes(p) == {cursor[p]} \cup {b[2] : b \in G(p)}
<1>1. /\ F \in SUBSET Block /\ \A b \in F : phase[b] \in {"Requested", "Writing"}
      /\ Orphaned(active) \subseteq F /\ \A b \in F \ Orphaned(active) : phase[b] = "Writing"
  BY OrphanedWasRequested DEF GivenUp
<1>2. /\ attempts' = [b \in Block |-> Ended(b, active)]
      /\ phase' = [b \in Block |-> IF b \in F THEN "Missing" ELSE phase[b]]
      /\ active' = {} /\ nextId' = nextId
      /\ pieceMissing' = [p \in Piece |-> pieceMissing[p] + Cardinality(G(p))]
      /\ pieceActive' = [p \in Piece |-> pieceActive[p] - Cardinality(G(p))]
      /\ cursor' = [p \in Piece |-> Min(indexes(p))]
      /\ activePieces' = {} /\ requestable' = [p \in Piece |-> 0]
      /\ mode' = "cancelled" /\ UNCHANGED <<conn, planned, join, diagnosis>>
  BY DEF CancelAll, connVars, planVars, storeVars
<1>3. /\ RequestOwnership' /\ IdsFresh'
      /\ phase' \in [Block -> Phases] /\ attempts' \in [Block -> SUBSET AttemptRecord]
  <2> HIDE DEF F, G, indexes
  <2>1. active' = active \ active /\ \A a \in active \ active : conn'[a.conn] = "open"
    BY <1>2
  <2> QED BY <1>1, <1>2, <2>1, EndedOwnership
<1>4. PlansHavePhases'
  <2> HIDE DEF F, G, indexes
  <2> QED BY <1>1, <1>2, MissingAgain
<1>5. ASSUME NEW p \in Piece
      PROVE  Cardinality(G(p)) \in Nat /\ Min(indexes(p)) \in Nat
  <2>1. G(p) \in SUBSET BlocksOf(p)
    OBVIOUS
  <2>2. Cardinality(G(p)) \in Nat
    BY <2>1, BlocksFinite, FS_Subset, FS_CardinalityType
  <2>3. indexes(p) \in SUBSET Nat /\ indexes(p) # {}
    BY BlockFacts DEF OwnershipInv, Shape
  <2> HIDE DEF indexes
  <2> QED BY <2>2, <2>3, MinOfNaturals
<1>6. Shape'
  <2> HIDE DEF F, G, indexes
  <2>1. pieceMissing' \in [Piece -> Int] /\ pieceActive' \in [Piece -> Int]
    BY <1>2, <1>5 DEF OwnershipInv, Shape
  <2>2. cursor' \in [Piece -> Nat] /\ requestable' \in [Piece -> Nat]
    BY <1>2, <1>5
  <2> QED BY <1>2, <1>3, <2>1, <2>2 DEF OwnershipInv, Shape
<1>7. Indexed' /\ Joined'
  BY <1>2 DEF Indexed, Joined
<1> QED BY <1>3, <1>4, <1>6, <1>7 DEF OwnershipInv

\* A block that leaves Requested, or stays out of it, with terminal attempts only.
LEMMA SettledOwnership ==
  ASSUME OwnershipInv, NEW b \in Block, NEW A \in SUBSET AttemptRecord, \A r \in A : ~IsActive(r),
         NEW s \in Phases \ {"Requested"},
         attempts' = [attempts EXCEPT ![b] = A], phase' = [phase EXCEPT ![b] = s],
         active' = {a \in active : a.block # b}, UNCHANGED <<nextId, conn>>
  PROVE  /\ RequestOwnership' /\ IdsFresh'
         /\ phase' \in [Block -> Phases] /\ attempts' \in [Block -> SUBSET AttemptRecord]
<1> USE DEF OwnershipInv
<1>1. \A a \in active : a.block \in Block
  BY DEF Shape, ActiveRecord
<1>2. phase' \in [Block -> Phases] /\ attempts' \in [Block -> SUBSET AttemptRecord]
  BY DEF Shape
<1>3. /\ attempts'[b] = A /\ phase'[b] = s
      /\ \A d \in Block \ {b} : attempts'[d] = attempts[d] /\ phase'[d] = phase[d]
  BY DEF Shape
<1>4. ActiveIn(b)' = {} /\ \A d \in Block \ {b} : ActiveIn(d)' = ActiveIn(d)
  BY <1>3 DEF ActiveIn, IsActive
<1>5. IndexAgrees'
  BY <1>1, <1>4 DEF RequestOwnership, IndexAgrees
<1>6. RequestedIsOwned'
  BY <1>3, <1>4 DEF RequestOwnership, RequestedIsOwned
<1>7. OwnersAreOpen' /\ OneRequestEach' /\ IdsFresh'
  BY DEF RequestOwnership, OwnersAreOpen, OneRequestEach, IsOpen, IdsFresh
<1> QED BY <1>2, <1>5, <1>6, <1>7 DEF RequestOwnership

\* A block that moves between Requested, Writing and Received leaves the indexes
\* alone.
LEMMA BusyIndexed ==
  ASSUME Shape, NEW b \in Block, NEW s \in {"Writing", "Received"},
         phase[b] \in {"Requested", "Writing"}, phase' = [phase EXCEPT ![b] = s],
         UNCHANGED indexVars, NEW p \in Piece, PieceIndexed(p)
  PROVE  PieceIndexed(p)'
<1>1. \A d \in Block : /\ phase'[d] = "Missing" <=> phase[d] = "Missing"
                       /\ phase'[d] \in {"Requested", "Writing", "Received"} <=>
                          phase[d] \in {"Requested", "Writing", "Received"}
  BY DEF Shape
<1>2. MissingOf(p)' = MissingOf(p) /\ BusyOf(p)' = BusyOf(p)
  BY <1>1, BlockFacts DEF MissingOf, BusyOf, InPiece
<1>3. /\ Cardinality(MissingOf(p)') = Cardinality(MissingOf(p))
      /\ Cardinality(BusyOf(p)') = Cardinality(BusyOf(p))
  BY <1>2, Zenon
<1> QED BY <1>2, <1>3 DEF PieceIndexed, indexVars

\* receive_block accepts a payload.
LEMMA ReceiveStep ==
  ASSUME OwnershipInv, NEW c \in Conn, NEW b \in Block, NEW content, ReceiveBlock(c, b, content)
  PROVE  OwnershipInv'
<1> DEFINE e == LatestFrom(b, c)
           settle(r) == IF r.id = e.id THEN [r EXCEPT !.disposition = "PayloadReceived"]
                        ELSE IF IsActive(r) THEN [r EXCEPT !.disposition = "Released"]
                        ELSE r
           all == {settle(r) : r \in attempts[b]}
           A == Trim(all, MaxTerminal, e.id)
<1>1. /\ attempts' = [attempts EXCEPT ![b] = A] /\ phase' = [phase EXCEPT ![b] = "Writing"]
      /\ active' = active \ {a \in active : a.block = b}
      /\ UNCHANGED <<nextId, conn, planned, indexVars, join, diagnosis, mode>>
      /\ phase[b] = "Requested" /\ mode = "running"
  BY DEF ReceiveBlock, Idle, connVars, planVars, runVars
<1>2. A \in SUBSET AttemptRecord /\ \A r \in A : ~IsActive(r)
  <2>1. ASSUME NEW r \in attempts[b]
        PROVE  settle(r) \in AttemptRecord /\ ~IsActive(settle(r))
    <3>1. r \in AttemptRecord
      BY DEF OwnershipInv, Shape
    <3> HIDE DEF e
    <3> QED BY <3>1 DEF AttemptRecord, IsActive, Disposition
  <2>2. all \subseteq AttemptRecord /\ \A r \in all : ~IsActive(r)
    <3> HIDE DEF settle
    <3> QED BY <2>1
  <2>3. A \subseteq all
    <3> HIDE DEF all, e
    <3> QED BY TrimFacts
  <2> HIDE DEF A, all
  <2> QED BY <2>2, <2>3
<1> HIDE DEF A
<1>3. /\ RequestOwnership' /\ IdsFresh'
      /\ phase' \in [Block -> Phases] /\ attempts' \in [Block -> SUBSET AttemptRecord]
  <2>1. active' = {a \in active : a.block # b} /\ "Writing" \in Phases \ {"Requested"}
    BY <1>1 DEF Phases, Status
  <2> QED BY <1>1, <1>2, <2>1, SettledOwnership
<1>4. \A p \in Piece : PieceIndexed(p)'
  BY <1>1, BusyIndexed DEF OwnershipInv, Indexed
<1>5. \A d \in Block : /\ phase'[d] \in {"Missing", "Requested", "Writing"} <=>
                          phase[d] \in {"Missing", "Requested", "Writing"}
                       /\ phase'[d] = "None" <=> phase[d] = "None"
  BY <1>1 DEF OwnershipInv, Shape
<1>6. PlansHavePhases' /\ \A p \in Piece : UnwrittenOf(p)' = UnwrittenOf(p)
  BY <1>1, <1>5, BlockFacts DEF OwnershipInv, PlansHavePhases, UnwrittenOf, InPiece
<1>7. Joined'
  BY <1>1, <1>6, SameJoins
<1>8. Shape'
  BY <1>1, <1>3 DEF OwnershipInv, Shape, indexVars
<1> QED BY <1>3, <1>4, <1>6, <1>7, <1>8 DEF OwnershipInv, Indexed

\* The attempts of a block that is not requested are all terminal, and stay so.
LEMMA NotRequestedFacts ==
  ASSUME OwnershipInv, NEW b \in Block, phase[b] # "Requested", NEW limit, NEW id
  PROVE  /\ Trim(attempts[b], limit, id) \in SUBSET AttemptRecord
         /\ \A r \in Trim(attempts[b], limit, id) : ~IsActive(r)
         /\ active = {a \in active : a.block # b}
<1>1. ActiveIn(b) = {}
  BY DEF OwnershipInv, RequestOwnership, RequestedIsOwned
<1>2. \A r \in attempts[b] : ~IsActive(r) /\ r \in AttemptRecord
  BY <1>1 DEF ActiveIn, OwnershipInv, Shape
<1>3. \A a \in active : a.block # b
  BY <1>1 DEF OwnershipInv, RequestOwnership, IndexAgrees
<1> QED BY <1>2, <1>3, TrimFacts

\* A completed write counts one more block of its join and changes nothing else
\* but the failure flag.
LEMMA JoinTypes ==
  ASSUME NEW j \in JoinRecord, NEW ok \in BOOLEAN
  PROVE  /\ WriteCompleted(j, ok) \in JoinRecord
         /\ WriteCompleted(j, ok).completed = j.completed + 1
         /\ WriteCompleted(j, ok).expected = j.expected
         /\ WriteCompleted(j, ok).hash = j.hash
<1> DEFINE f == j.failed \/ ~ok
<1>1. f \in BOOLEAN
  OBVIOUS
<1>2. WriteCompleted(j, ok) = [j EXCEPT !.completed = @ + 1, !.failed = f]
  BY DEF WriteCompleted
<1> HIDE DEF f
<1>3. j.completed + 1 \in Int
  BY DEF JoinRecord
<1>4. WriteCompleted(j, ok) =
        [generation |-> j.generation, expected |-> j.expected, completed |-> j.completed + 1,
         failed |-> f, hash |-> j.hash]
  BY <1>2 DEF JoinRecord
<1>5. [generation |-> j.generation, expected |-> j.expected, completed |-> j.completed + 1,
       failed |-> f, hash |-> j.hash] \in JoinRecord
  BY <1>1, <1>3 DEF JoinRecord
<1> QED BY <1>4, <1>5

\* finish_write_for_generation refuses the write; the run ends.
LEMMA WriteFailedStep ==
  ASSUME OwnershipInv, NEW r \in written, r.block \in Block, WriteFailed(r)
  PROVE  OwnershipInv'
<1> DEFINE b == r.block
           A == Trim(attempts[b], MaxTerminal, 0)
<1>1. /\ attempts' = [attempts EXCEPT ![b] = A] /\ phase' = [phase EXCEPT ![b] = "Missing"]
      /\ UNCHANGED <<active, nextId, conn, planned, diagnosis>>
      /\ join' = [join EXCEPT ![b[1]] = WriteCompleted(@, FALSE)]
      /\ BecameMissing({b}) /\ phase[b] = "Writing" /\ mode = "running" /\ mode' = "stopping"
  BY DEF WriteFailed, Idle, connVars, planVars
<1>2. A \in SUBSET AttemptRecord /\ (\A q \in A : ~IsActive(q)) /\ active = {a \in active : a.block # b}
  BY <1>1, NotRequestedFacts
<1> HIDE DEF A, b
<1>3. b \in Block /\ {b} \in SUBSET Block
  BY DEF b
<1>4. /\ RequestOwnership' /\ IdsFresh'
      /\ phase' \in [Block -> Phases] /\ attempts' \in [Block -> SUBSET AttemptRecord]
  <2>1. "Missing" \in Phases \ {"Requested"}
    BY DEF Phases, Status
  <2> QED BY <1>1, <1>2, <1>3, <2>1, SettledOwnership
<1>5. phase' = [d \in Block |-> IF d \in {b} THEN "Missing" ELSE phase[d]]
  BY <1>1, <1>3 DEF OwnershipInv, Shape
<1>6. PlansHavePhases'
  BY <1>1, <1>3, <1>5, MissingAgain
<1>7. /\ \A p \in Piece : PieceIndexed(p)'
      /\ pieceMissing' \in [Piece -> Int] /\ pieceActive' \in [Piece -> Int]
      /\ cursor' \in [Piece -> Nat] /\ requestable' \in [Piece -> Nat]
      /\ activePieces' \subseteq Piece
  BY <1>1, <1>3, <1>5, BecameMissingIndexed DEF OwnershipInv, Indexed
<1>8. join' \in [Piece -> JoinRecord]
  BY <1>1, JoinTypes DEF OwnershipInv, Shape
<1>9. Shape'
  BY <1>1, <1>4, <1>7, <1>8 DEF OwnershipInv, Shape
<1>10. Joined'
  BY <1>1 DEF Joined
<1> QED BY <1>4, <1>6, <1>7, <1>9, <1>10 DEF OwnershipInv, Indexed

\* finish_write_for_generation accepts the write, and begin_piece_hash follows
\* the last one of the piece.
LEMMA WriteStoredStep ==
  ASSUME OwnershipInv, NEW r \in written, r.block \in Block, WriteStored(r)
  PROVE  OwnershipInv'
<1> DEFINE b == r.block
           p == b[1]
           j == WriteCompleted(join[p], TRUE)
           k == IF HashEligible(j) THEN [j EXCEPT !.hash = "Running"] ELSE j
           A == Trim(attempts[b], MaxTerminal, evidence[b])
<1>1. /\ attempts' = [attempts EXCEPT ![b] = A] /\ phase' = [phase EXCEPT ![b] = "Received"]
      /\ UNCHANGED <<active, nextId, conn, planned, diagnosis, indexVars, mode>>
      /\ join' = [join EXCEPT ![p] = k]
      /\ p \in planned /\ phase[b] = "Writing" /\ mode = "running"
  BY DEF WriteStored, Idle, connVars, planVars, runVars
<1>2. A \in SUBSET AttemptRecord /\ (\A q \in A : ~IsActive(q)) /\ active = {a \in active : a.block # b}
  BY <1>1, NotRequestedFacts
<1>3. b \in Block /\ p \in Piece /\ b \in BlocksOf(p)
  BY BlockFacts
<1>4. /\ join[p] \in JoinRecord /\ j \in JoinRecord /\ j.completed = join[p].completed + 1
      /\ j.expected = join[p].expected /\ j.hash = join[p].hash
  <2>1. join[p] \in JoinRecord
    BY <1>3 DEF OwnershipInv, Shape
  <2> QED BY <2>1, JoinTypes
<1> HIDE DEF j
<1>5. /\ k \in JoinRecord /\ k.completed = j.completed /\ k.expected = j.expected
      /\ k.hash = j.hash \/ (k.hash = "Running" /\ j.completed = j.expected)
  BY <1>4 DEF JoinRecord, HashEligible, HashState
<1> HIDE DEF A, b, p, k
<1>6. /\ RequestOwnership' /\ IdsFresh'
      /\ phase' \in [Block -> Phases] /\ attempts' \in [Block -> SUBSET AttemptRecord]
  <2>1. "Received" \in Phases \ {"Requested"}
    BY DEF Phases, Status
  <2> QED BY <1>1, <1>2, <1>3, <2>1, SettledOwnership
<1>7. \A q \in Piece : PieceIndexed(q)'
  BY <1>1, <1>3, BusyIndexed DEF OwnershipInv, Indexed
<1>8. PlansHavePhases'
  <2>1. \A d \in Block : phase'[d] = "None" <=> phase[d] = "None"
    BY <1>1 DEF OwnershipInv, Shape
  <2> QED BY <1>1, <2>1, BlockFacts DEF OwnershipInv, PlansHavePhases
<1>9. Shape'
  <2>1. join' \in [Piece -> JoinRecord]
    BY <1>1, <1>5 DEF OwnershipInv, Shape
  <2> QED BY <1>1, <1>6, <2>1 DEF OwnershipInv, Shape, indexVars
<1>10. Joined'
  <2>1. /\ UnwrittenOf(p)' = UnwrittenOf(p) \ {b} /\ b \in UnwrittenOf(p)
        /\ \A q \in Piece \ {p} : UnwrittenOf(q)' = UnwrittenOf(q)
    <3>1. \A d \in Block : phase'[d] = IF d = b THEN "Received" ELSE phase[d]
      BY <1>1 DEF OwnershipInv, Shape
    <3>2. \A q \in Piece \ {p} : b \notin BlocksOf(q)
      BY <1>3, BlockFacts DEF p
    <3> QED BY <1>1, <1>3, <3>1, <3>2, BlockFacts DEF UnwrittenOf, InPiece
  <2>2. /\ IsFiniteSet(UnwrittenOf(p)) /\ Cardinality(UnwrittenOf(p)) \in Nat
        /\ IsFiniteSet(UnwrittenOf(p)') /\ Cardinality(UnwrittenOf(p)') = Cardinality(UnwrittenOf(p)) - 1
    <3>1. IsFiniteSet(UnwrittenOf(p)) /\ Cardinality(UnwrittenOf(p)) \in Nat
      BY <1>3, InPieceFinite DEF UnwrittenOf
    <3>2. /\ IsFiniteSet(UnwrittenOf(p) \ {b})
          /\ Cardinality(UnwrittenOf(p) \ {b}) = Cardinality(UnwrittenOf(p)) - 1
      BY <2>1, <3>1, FS_RemoveElement
    <3> QED BY <2>1, <3>1, <3>2, Zenon
  <2>3. /\ join[p].expected - join[p].completed = Cardinality(UnwrittenOf(p))
        /\ join[p].hash = "NotStarted" /\ diagnosis # p
    <3>1. UnwrittenOf(p) # {} /\ p # NoPiece
      BY <1>3, <2>1, PieceAssumption
    <3> QED BY <1>1, <1>3, <3>1 DEF OwnershipInv, Joined
  <2>4. join'[p] = k /\ \A q \in Piece \ {p} : join'[q] = join[q]
    BY <1>1, <1>3 DEF OwnershipInv, Shape
  <2>5. j.completed \in Int /\ j.expected \in Int /\ join[p].completed \in Int
    BY <1>4 DEF JoinRecord
  <2>6. join'[p].expected - join'[p].completed = Cardinality(UnwrittenOf(p)')
    BY <1>4, <1>5, <2>2, <2>3, <2>4, <2>5
  <2>7. join'[p].hash # "NotStarted" => UnwrittenOf(p)' = {}
    <3>1. CASE j.completed = j.expected
      <4>1. Cardinality(UnwrittenOf(p)') = 0
        BY <1>4, <2>2, <2>3, <2>5, <3>1
      <4> QED BY <2>2, <4>1, FS_EmptySet
    <3>2. CASE j.completed # j.expected
      BY <1>4, <1>5, <2>3, <2>4, <3>2
    <3> QED BY <3>1, <3>2
  <2>8. \A q \in planned' \ {p} : join'[q].expected - join'[q].completed = Cardinality(UnwrittenOf(q)')
    <3> TAKE q \in planned' \ {p}
    <3>1. q \in Piece \ {p} /\ q \in planned
      BY <1>1 DEF OwnershipInv, Shape
    <3>2. Cardinality(UnwrittenOf(q)') = Cardinality(UnwrittenOf(q))
      BY <2>1, <3>1, Zenon
    <3> QED BY <1>1, <2>4, <3>1, <3>2 DEF OwnershipInv, Joined
  <2>9. \A q \in Piece \ {p} : join'[q].hash # "NotStarted" => q \in planned' /\ UnwrittenOf(q)' = {}
    BY <1>1, <2>1, <2>4 DEF OwnershipInv, Joined
  <2>10. diagnosis' # NoPiece => join'[diagnosis'].hash = "Failed"
    BY <1>1, <2>3, <2>4 DEF OwnershipInv, Joined, Shape
  <2> QED BY <1>1, <2>6, <2>7, <2>8, <2>9, <2>10 DEF Joined
<1> QED BY <1>6, <1>7, <1>8, <1>9, <1>10 DEF OwnershipInv, Indexed

\* A piece no step of which is written yet, or none at all.
LEMMA EmptyPieceFacts ==
  ASSUME OwnershipInv, NEW p \in Piece, mode = "running"
  PROVE  /\ p \notin planned => MissingOf(p) = {} /\ BusyOf(p) = {} /\ UnwrittenOf(p) = {}
                                /\ pieceActive[p] = 0 /\ requestable[p] = 0
         /\ BusyOf(p) = {} => pieceActive[p] = 0 /\ requestable[p] = 0 /\ p \notin activePieces
<1>1. PieceIndexed(p)
  BY DEF OwnershipInv, Indexed
<1>2. BusyOf(p) = {} => pieceActive[p] = 0 /\ requestable[p] = 0 /\ p \notin activePieces
  BY <1>1, FS_EmptySet DEF PieceIndexed
<1>3. p \notin planned => MissingOf(p) = {} /\ BusyOf(p) = {} /\ UnwrittenOf(p) = {}
  BY DEF OwnershipInv, PlansHavePhases, MissingOf, BusyOf, UnwrittenOf, InPiece
<1> QED BY <1>2, <1>3

\* append_piece_plans for new pieces P, after untouched plans Q were dropped.
LEMMA PlanStep ==
  ASSUME OwnershipInv, mode = "running",
         NEW P \in SUBSET (Piece \ planned), NEW Q \in SUBSET planned,
         \A q \in Q : \A b \in BlocksOf(q) : phase[b] = "Missing",
         Plan(P, Q)
  PROVE  OwnershipInv'
<1> USE DEF OwnershipInv
<1>1. /\ planned' = (planned \ Q) \cup P
      /\ phase' = [b \in Block |-> IF b[1] \in P THEN "Missing"
                                   ELSE IF b[1] \in Q THEN "None" ELSE phase[b]]
      /\ attempts' = [b \in Block |-> IF b[1] \in P \cup Q THEN {} ELSE attempts[b]]
      /\ UNCHANGED <<conn, active, nextId, pieceActive, activePieces, requestable,
                     diagnosis, mode>>
  BY DEF Plan, connVars, storeVars, runVars
<1>2. /\ pieceMissing' = [p \in Piece |-> IF p \in P THEN BlockCount[p]
                                          ELSE IF p \in Q THEN 0 ELSE pieceMissing[p]]
      /\ cursor' = [p \in Piece |-> IF p \in P THEN 1
                                    ELSE IF p \in Q THEN BlockCount[p] + 1 ELSE cursor[p]]
      /\ join' = [p \in Piece |-> IF p \in P \cup Q THEN NewJoin(BlockCount[p]) ELSE join[p]]
  BY DEF Plan
<1>3. P \in SUBSET Piece /\ Q \in SUBSET Piece /\ P \cap Q = {}
  BY DEF Shape
<1>4. \A b \in Block : b[1] \in P \cup Q => phase[b] # "Requested" /\ phase'[b] # "Requested"
  BY <1>1, BlockFacts DEF PlansHavePhases
<1>5. RequestOwnership'
  <2>1. \A b \in Block : ActiveIn(b)' = ActiveIn(b)
    <3> TAKE b \in Block
    <3>1. CASE b[1] \in P \cup Q
      <4>1. ActiveIn(b) = {}
        BY <1>4, <3>1 DEF RequestOwnership, RequestedIsOwned
      <4> QED BY <1>1, <3>1, <4>1 DEF ActiveIn
    <3>2. CASE b[1] \notin P \cup Q
      BY <1>1, <3>2 DEF ActiveIn, IsActive
    <3> QED BY <3>1, <3>2
  <2>2. \A a \in active : a.block \in Block
    BY DEF Shape, ActiveRecord
  <2>3. IndexAgrees'
    BY <1>1, <2>1, <2>2 DEF RequestOwnership, IndexAgrees
  <2>4. \A b \in Block : phase'[b] = "Requested" <=> phase[b] = "Requested"
    BY <1>1, <1>4
  <2>5. RequestedIsOwned'
    BY <2>1, <2>4 DEF RequestOwnership, RequestedIsOwned
  <2>6. OwnersAreOpen' /\ OneRequestEach'
    BY <1>1 DEF RequestOwnership, OwnersAreOpen, OneRequestEach, IsOpen
  <2> QED BY <2>3, <2>5, <2>6 DEF RequestOwnership
<1>6. IdsFresh' /\ PlansHavePhases'
  <2>1. IdsFresh'
    BY <1>1 DEF IdsFresh
  <2>2. \A p \in Piece : \A b \in BlocksOf(p) : b \in Block /\ b[1] = p
    BY BlockFacts
  <2>3. PlansHavePhases'
    BY <1>1, <1>3, <2>2 DEF PlansHavePhases
  <2> QED BY <2>1, <2>3
<1>7. /\ \A p \in P : /\ MissingOf(p)' = BlocksOf(p) /\ BusyOf(p)' = {}
                      /\ UnwrittenOf(p)' = BlocksOf(p)
      /\ \A p \in Q : MissingOf(p)' = {} /\ BusyOf(p)' = {} /\ UnwrittenOf(p)' = {} /\ BusyOf(p) = {}
      /\ \A p \in Piece \ (P \cup Q) : UnwrittenOf(p)' = UnwrittenOf(p)
  <2>1. /\ \A p \in P : \A b \in BlocksOf(p) : phase'[b] = "Missing"
        /\ \A p \in Q : \A b \in BlocksOf(p) : phase'[b] = "None" /\ phase[b] = "Missing"
        /\ \A p \in Piece \ (P \cup Q) : \A b \in BlocksOf(p) : phase'[b] = phase[b]
    BY <1>1, <1>3, BlockFacts
  <2> QED BY <2>1 DEF MissingOf, BusyOf, UnwrittenOf, InPiece
<1>8. ASSUME NEW p \in Piece PROVE PieceIndexed(p)'
  <2>1. BlockCount[p] \in Nat \ {0} /\ Cardinality(BlocksOf(p)) = BlockCount[p] /\ BlocksOf(p) # {}
    BY BlocksFinite
  <2>2. CASE p \in P
    <3>1. /\ Cardinality(MissingOf(p)') = BlockCount[p] /\ Cardinality(BusyOf(p)') = 0
          /\ MissingOf(p)' = BlocksOf(p) /\ BusyOf(p)' = {}
      BY <1>7, <2>1, <2>2, FS_EmptySet, Zenon
    <3>2. pieceActive[p] = 0 /\ requestable[p] = 0 /\ p \notin activePieces
      BY <2>2, EmptyPieceFacts
    <3>3. pieceMissing'[p] = BlockCount[p] /\ cursor'[p] = 1
      BY <1>2, <2>2
    <3>4. /\ 1 \in 1 .. (BlockCount[p] + 1) /\ <<p, 1>> \in BlocksOf(p)
          /\ \A b \in BlocksOf(p) : 1 <= b[2]
      BY <2>1, BlockFacts
    <3> QED BY <1>1, <3>1, <3>2, <3>3, <3>4 DEF PieceIndexed
  <2>3. CASE p \in Q
    <3>1. /\ Cardinality(MissingOf(p)') = 0 /\ Cardinality(BusyOf(p)') = 0
          /\ MissingOf(p)' = {} /\ BusyOf(p)' = {}
      BY <1>7, <2>3, FS_EmptySet, Zenon
    <3>2. pieceActive[p] = 0 /\ requestable[p] = 0 /\ p \notin activePieces
      BY <1>7, <2>3, EmptyPieceFacts
    <3>3. pieceMissing'[p] = 0 /\ cursor'[p] = BlockCount[p] + 1
      BY <1>2, <1>3, <2>3
    <3> QED BY <1>1, <2>1, <3>1, <3>2, <3>3 DEF PieceIndexed
  <2>4. CASE p \notin P \cup Q
    <3>1. PieceIndexed(p)
      BY DEF Indexed
    <3>2. \A b \in BlocksOf(p) : phase'[b] = phase[b]
      BY <1>1, <2>4, BlockFacts
    <3> QED BY <1>1, <1>2, <2>4, <3>1, <3>2, SameIndexes
  <2> QED BY <2>2, <2>3, <2>4
<1>9. /\ \A p \in P \cup Q : /\ join'[p].expected = BlockCount[p] /\ join'[p].completed = 0
                             /\ join'[p].hash = "NotStarted"
      /\ \A p \in Piece \ (P \cup Q) : join'[p] = join[p]
  BY <1>2, <1>3 DEF NewJoin
<1>10. Joined'
  <2>1. \A p \in planned' : join'[p].expected - join'[p].completed = Cardinality(UnwrittenOf(p)')
    <3> TAKE p \in planned'
    <3>1. CASE p \in P
      <4>1. Cardinality(UnwrittenOf(p)') = BlockCount[p]
        BY <1>3, <1>7, <3>1, BlocksFinite, Zenon
      <4> QED BY <1>3, <1>9, <3>1, <4>1, BlocksFinite
    <3>2. CASE p \notin P
      <4>1. p \in planned /\ p \in Piece \ (P \cup Q)
        BY <1>1, <3>2 DEF Shape
      <4>2. Cardinality(UnwrittenOf(p)') = Cardinality(UnwrittenOf(p))
        BY <1>7, <4>1, Zenon
      <4> QED BY <1>9, <4>1, <4>2 DEF Joined
    <3> QED BY <3>1, <3>2
  <2>2. \A p \in Piece : join'[p].hash # "NotStarted" => p \in planned' /\ UnwrittenOf(p)' = {}
    BY <1>1, <1>7, <1>9 DEF Joined
  <2>3. diagnosis # NoPiece => join'[diagnosis].hash = "Failed"
    <3> SUFFICES ASSUME diagnosis # NoPiece PROVE join'[diagnosis].hash = "Failed"
      OBVIOUS
    <3>1. /\ diagnosis \in Piece /\ join[diagnosis].hash = "Failed"
          /\ diagnosis \in planned /\ UnwrittenOf(diagnosis) = {}
      BY DEF Joined, Shape
    <3>2. diagnosis \notin Q
      <4>1. PICK b \in BlocksOf(diagnosis) : TRUE
        BY <3>1, BlocksFinite
      <4>2. phase[b] # "Missing"
        BY <3>1, <4>1 DEF UnwrittenOf, InPiece
      <4> QED BY <4>1, <4>2
    <3> QED BY <1>9, <3>1, <3>2
  <2> QED BY <1>1, <2>1, <2>2, <2>3 DEF Joined
<1>11. Shape'
  <2>1. phase' \in [Block -> Phases] /\ attempts' \in [Block -> SUBSET AttemptRecord]
    BY <1>1 DEF Shape, Phases, Status
  <2>2. pieceMissing' \in [Piece -> Int] /\ cursor' \in [Piece -> Nat]
    BY <1>2, PieceAssumption DEF Shape
  <2>3. join' \in [Piece -> JoinRecord]
    <3>1. \A p \in Piece : NewJoin(BlockCount[p]) \in JoinRecord
      BY PieceAssumption DEF NewJoin, JoinRecord, HashState
    <3> QED BY <1>2, <3>1 DEF Shape
  <2>4. planned' \subseteq Piece
    BY <1>1, <1>3 DEF Shape
  <2> QED BY <1>1, <2>1, <2>2, <2>3, <2>4 DEF Shape
<1> QED BY <1>5, <1>6, <1>8, <1>10, <1>11 DEF Indexed

\* assign: one more request of an open connection that was not asked for the block.
LEMMA AssignOwnership ==
  ASSUME OwnershipInv, NEW c \in Conn, NEW b \in Block, NEW purpose \in Purposes,
         IsOpen(c), Assign(c, b, purpose), \A r \in ActiveIn(b) : r.conn # c,
         phase' = [phase EXCEPT ![b] = "Requested"]
  PROVE  /\ RequestOwnership' /\ IdsFresh'
         /\ phase' \in [Block -> Phases] /\ attempts' \in [Block -> SUBSET AttemptRecord]
         /\ active' \subseteq ActiveRecord /\ nextId' \in Nat
<1> USE DEF OwnershipInv
<1> DEFINE r0 == [id |-> nextId, conn |-> c, disposition |-> "Requested"]
           a0 == [id |-> nextId, conn |-> c, block |-> b, purpose |-> purpose]
           A == Trim(attempts[b], MaxTerminal - 1, 0)
<1>1. /\ attempts' = [attempts EXCEPT ![b] = A \cup {r0}] /\ active' = active \cup {a0}
      /\ nextId' = nextId + 1 /\ conn' = conn
  BY DEF Assign, connVars
<1>2. /\ r0 \in AttemptRecord /\ IsActive(r0) /\ r0.id = nextId /\ r0.conn = c
      /\ a0 \in ActiveRecord /\ a0.id = nextId /\ a0.conn = c /\ a0.block = b
  BY DEF AttemptRecord, ActiveRecord, IsActive, Disposition, Shape
<1>3. A \subseteq attempts[b] /\ \A r \in attempts[b] : IsActive(r) => r \in A
  BY TrimFacts
<1>4. \A a \in active : a.block \in Block /\ a.id < nextId /\ a.id \in Nat
  BY DEF Shape, ActiveRecord, IdsFresh
<1> HIDE DEF r0, a0, A
<1>5. /\ phase' \in [Block -> Phases] /\ attempts' \in [Block -> SUBSET AttemptRecord]
      /\ active' \subseteq ActiveRecord /\ nextId' \in Nat
  BY <1>1, <1>2, <1>3 DEF Shape, Phases, Status
<1>6. /\ attempts'[b] = A \cup {r0} /\ phase'[b] = "Requested"
      /\ \A d \in Block \ {b} : attempts'[d] = attempts[d] /\ phase'[d] = phase[d]
  BY <1>1 DEF Shape
<1>7. ActiveIn(b)' = ActiveIn(b) \cup {r0} /\ \A d \in Block \ {b} : ActiveIn(d)' = ActiveIn(d)
  BY <1>2, <1>3, <1>6 DEF ActiveIn, IsActive
<1>8. IndexAgrees'
  <2>1. \A a \in active' : \E r \in ActiveIn(a.block)' : r.id = a.id /\ r.conn = a.conn
    <3> TAKE a \in active'
    <3>1. CASE a = a0
      BY <1>2, <1>7, <3>1
    <3>2. CASE a \in active
      <4>1. PICK r \in ActiveIn(a.block) : r.id = a.id /\ r.conn = a.conn
        BY <3>2 DEF RequestOwnership, IndexAgrees
      <4> QED BY <1>4, <1>7, <3>2, <4>1
    <3> QED BY <1>1, <3>1, <3>2
  <2>2. \A d \in Block : \A r \in ActiveIn(d)' :
          \E a \in active' : a.id = r.id /\ a.conn = r.conn /\ a.block = d
    <3> TAKE d \in Block
    <3> TAKE r \in ActiveIn(d)'
    <3>1. CASE r \in ActiveIn(d)
      BY <1>1, <3>1 DEF RequestOwnership, IndexAgrees
    <3>2. CASE r \notin ActiveIn(d)
      <4>1. d = b /\ r = r0
        BY <1>7, <3>2
      <4> QED BY <1>1, <1>2, <4>1
    <3> QED BY <3>1, <3>2
  <2> QED BY <2>1, <2>2 DEF IndexAgrees
<1>9. RequestedIsOwned'
  BY <1>6, <1>7 DEF RequestOwnership, RequestedIsOwned
<1>10. \A a \in active : a.block = b => a.conn # c
  BY DEF RequestOwnership, IndexAgrees
<1>11. OwnersAreOpen' /\ OneRequestEach'
  BY <1>1, <1>2, <1>10 DEF RequestOwnership, OwnersAreOpen, OneRequestEach, IsOpen
<1>12. IdsFresh'
  <2>1. \A a \in active' : a.id < nextId'
    BY <1>1, <1>2, <1>4 DEF Shape
  <2>2. \A a, d \in active' : a.id = d.id => a = d
    <3>1. \A a \in active : a.id # nextId
      BY <1>4 DEF Shape
    <3> QED BY <1>1, <1>2, <3>1 DEF IdsFresh
  <2> QED BY <2>1, <2>2 DEF IdsFresh
<1> QED BY <1>5, <1>8, <1>9, <1>11, <1>12 DEF RequestOwnership

\* A request for the first missing block of a piece.
LEMMA AssignPrimaryStep ==
  ASSUME OwnershipInv, mode = "running", NEW c \in Conn, NEW purpose \in Purposes, IsOpen(c),
         NEW p \in Piece, cursor[p] <= BlockCount[p], AssignPrimary(c, <<p, cursor[p]>>, purpose)
  PROVE  OwnershipInv'
<1> USE DEF OwnershipInv
<1> DEFINE i == cursor[p]
           b == <<p, i>>
           rest == {n \in (i + 1) .. BlockCount[p] : phase[<<p, n>>] = "Missing"}
           next == IF pieceMissing[p] = 1 THEN BlockCount[p] + 1 ELSE Min(rest)
<1>1. PieceIndexed(p)
  BY DEF Indexed
<1>2. /\ b \in MissingOf(p) /\ b \in BlocksOf(p) /\ b \in Block /\ b[1] = p /\ b[2] = i
      /\ i \in 1 .. BlockCount[p] /\ BlockCount[p] \in Nat
  <2>1. b \in MissingOf(p)
    BY <1>1 DEF PieceIndexed
  <2>2. b \in BlocksOf(p)
    BY <2>1 DEF MissingOf, InPiece
  <2> QED BY <2>1, <2>2, BlockFacts, BlocksFinite
<1>3. /\ Assign(c, b, purpose) /\ phase[b] = "Missing"
      /\ phase' = [phase EXCEPT ![b] = "Requested"]
      /\ pieceMissing' = [pieceMissing EXCEPT ![p] = @ - 1]
      /\ pieceActive' = [pieceActive EXCEPT ![p] = @ + 1]
      /\ cursor' = [cursor EXCEPT ![p] = next]
      /\ activePieces' = activePieces \cup {p}
      /\ requestable' = [requestable EXCEPT ![p] = IF next <= BlockCount[p] THEN next ELSE 0]
  BY DEF AssignPrimary
<1>4. UNCHANGED <<conn, planned, join, diagnosis, mode>>
  BY <1>3 DEF Assign, connVars, planVars, storeVars, runVars
<1>5. /\ MissingOf(p)' = MissingOf(p) \ {b} /\ BusyOf(p)' = BusyOf(p) \cup {b} /\ b \notin BusyOf(p)
  <2>1. \A d \in Block : phase'[d] = IF d = b THEN "Requested" ELSE phase[d]
    BY <1>3 DEF Shape
  <2> HIDE DEF b
  <2> QED BY <1>2, <1>3, <2>1, BlockFacts DEF MissingOf, BusyOf, InPiece
<1>6. /\ IsFiniteSet(MissingOf(p)) /\ Cardinality(MissingOf(p)) \in Nat
      /\ Cardinality(MissingOf(p)') = Cardinality(MissingOf(p)) - 1
      /\ Cardinality(BusyOf(p)') = Cardinality(BusyOf(p)) + 1
  <2> HIDE DEF b
  <2>1. /\ IsFiniteSet(MissingOf(p)) /\ Cardinality(MissingOf(p)) \in Nat
        /\ IsFiniteSet(BusyOf(p))
    BY InPieceFinite DEF MissingOf, BusyOf
  <2>2. Cardinality(MissingOf(p) \ {b}) = Cardinality(MissingOf(p)) - 1
    BY <1>2, <2>1, FS_RemoveElement
  <2>3. Cardinality(BusyOf(p) \cup {b}) = Cardinality(BusyOf(p)) + 1
    BY <1>5, <2>1, FS_AddElement
  <2>4. /\ Cardinality(MissingOf(p)') = Cardinality(MissingOf(p)) - 1
        /\ Cardinality(BusyOf(p)') = Cardinality(BusyOf(p)) + 1
    BY <1>5, <2>2, <2>3, Zenon
  <2> QED BY <2>1, <2>4
<1>7. \A d \in MissingOf(p)' : d[2] \in rest /\ d \in MissingOf(p)
  <2> TAKE d \in MissingOf(p)'
  <2>1. d \in MissingOf(p) /\ d # b
    BY <1>5
  <2>2. d \in BlocksOf(p) /\ phase[d] = "Missing" /\ i <= d[2]
    BY <1>1, <2>1 DEF PieceIndexed, MissingOf, InPiece
  <2>3. d[2] \in 1 .. BlockCount[p] /\ d = <<p, d[2]>>
    BY <2>2, BlockFacts
  <2>4. d[2] # i
    BY <2>1, <2>3
  <2>5. d[2] \in (i + 1) .. BlockCount[p]
    BY <1>2, <2>2, <2>3, <2>4
  <2> QED BY <2>1, <2>2, <2>3, <2>5
<1>8. ASSUME MissingOf(p)' = {}
      PROVE  PieceIndexed(p)' /\ next \in Nat /\ (IF next <= BlockCount[p] THEN next ELSE 0) \in Nat
  <2>1. Cardinality(MissingOf(p)') = 0
    BY <1>8, FS_EmptySet, Zenon
  <2>2. pieceMissing[p] = 1
    BY <1>1, <1>6, <2>1 DEF PieceIndexed
  <2>3. next = BlockCount[p] + 1
    BY <2>2
  <2> HIDE DEF next
  <2>4. cursor'[p] = BlockCount[p] + 1 /\ requestable'[p] = 0
    BY <1>2, <1>3, <2>3 DEF Shape
  <2>5. pieceMissing'[p] = pieceMissing[p] - 1 /\ pieceActive'[p] = pieceActive[p] + 1
    BY <1>3 DEF Shape
  <2>6. PieceIndexed(p)'
    BY <1>1, <1>2, <1>3, <1>5, <1>6, <1>8, <2>4, <2>5 DEF PieceIndexed
  <2>7. next \in Nat /\ (IF next <= BlockCount[p] THEN next ELSE 0) \in Nat
    BY <1>2, <2>3
  <2> QED BY <2>6, <2>7
<1>9. ASSUME MissingOf(p)' # {}
      PROVE  PieceIndexed(p)' /\ next \in Nat /\ (IF next <= BlockCount[p] THEN next ELSE 0) \in Nat
  <2>1. PICK d \in MissingOf(p)' : TRUE
    BY <1>9
  <2>2. Cardinality(MissingOf(p)') # 0
    <3>1. IsFiniteSet(MissingOf(p)')
      <4> HIDE DEF b
      <4>1. MissingOf(p)' \in SUBSET MissingOf(p)
        BY <1>5
      <4> QED BY <1>6, <4>1, FS_Subset
    <3> QED BY <1>9, <3>1, FS_EmptySet
  <2>3. pieceMissing[p] # 1
    BY <1>1, <1>6, <2>2 DEF PieceIndexed
  <2>4. rest \in SUBSET Nat /\ rest # {}
    <3>1. d[2] \in rest
      BY <1>7, <2>1
    <3>2. rest \in SUBSET Nat
      BY <1>2
    <3> HIDE DEF rest
    <3> QED BY <3>1, <3>2
  <2>5. next \in rest /\ \A y \in rest : next <= y
    <3>1. next = Min(rest)
      BY <2>3
    <3> HIDE DEF rest, next
    <3> QED BY <2>4, <3>1, MinOfNaturals
  <2> HIDE DEF next
  <2>6. next \in 1 .. BlockCount[p] /\ next > i /\ phase[<<p, next>>] = "Missing"
    BY <1>2, <2>5
  <2>7. <<p, next>> \in MissingOf(p)' /\ \A m \in MissingOf(p)' : next <= m[2]
    <3>1. <<p, next>> \in BlocksOf(p) /\ <<p, next>> # b
      BY <1>2, <2>6, BlockFacts
    <3>2. <<p, next>> \in MissingOf(p)
      BY <2>6, <3>1 DEF MissingOf, InPiece
    <3>3. \A m \in MissingOf(p)' : next <= m[2]
      <4> HIDE DEF rest
      <4> QED BY <1>7, <2>5
    <3> QED BY <1>5, <3>1, <3>2, <3>3
  <2>8. cursor'[p] = next /\ requestable'[p] = next
    BY <1>3, <2>6 DEF Shape
  <2>9. pieceMissing'[p] = pieceMissing[p] - 1 /\ pieceActive'[p] = pieceActive[p] + 1
    BY <1>3 DEF Shape
  <2>10. next \in 1 .. (BlockCount[p] + 1)
    BY <1>2, <2>6
  <2>11. PieceIndexed(p)'
    BY <1>1, <1>3, <1>5, <1>6, <1>9, <2>7, <2>8, <2>9, <2>10 DEF PieceIndexed
  <2>12. next \in Nat /\ (IF next <= BlockCount[p] THEN next ELSE 0) \in Nat
    BY <2>6
  <2> QED BY <2>11, <2>12
<1>10. PieceIndexed(p)' /\ next \in Nat /\ (IF next <= BlockCount[p] THEN next ELSE 0) \in Nat
  BY <1>8, <1>9
<1> HIDE DEF next, rest, b
<1>11. \A d \in Block : phase'[d] = IF d = b THEN "Requested" ELSE phase[d]
  BY <1>3 DEF Shape
<1>12. ASSUME NEW q \in Piece, q # p PROVE PieceIndexed(q)'
  <2>1. PieceIndexed(q)
    BY DEF Indexed
  <2>2. \A d \in BlocksOf(q) : phase'[d] = phase[d]
    BY <1>2, <1>11, <1>12, BlockFacts
  <2>3. /\ pieceMissing'[q] = pieceMissing[q] /\ pieceActive'[q] = pieceActive[q]
        /\ cursor'[q] = cursor[q] /\ requestable'[q] = requestable[q]
        /\ q \in activePieces' <=> q \in activePieces
    BY <1>3, <1>12 DEF Shape
  <2> QED BY <2>1, <2>2, <2>3, SameIndexes
<1>13. /\ RequestOwnership' /\ IdsFresh'
       /\ phase' \in [Block -> Phases] /\ attempts' \in [Block -> SUBSET AttemptRecord]
       /\ active' \subseteq ActiveRecord /\ nextId' \in Nat
  <2>1. ActiveIn(b) = {}
    BY <1>2, <1>3 DEF RequestOwnership, RequestedIsOwned
  <2> QED BY <1>2, <1>3, <2>1, AssignOwnership
<1>14. PlansHavePhases' /\ \A q \in Piece : UnwrittenOf(q)' = UnwrittenOf(q)
  <2>1. \A d \in Block : /\ phase'[d] \in {"Missing", "Requested", "Writing"} <=>
                            phase[d] \in {"Missing", "Requested", "Writing"}
                         /\ phase'[d] = "None" <=> phase[d] = "None"
    BY <1>3, <1>11
  <2> QED BY <1>4, <2>1, BlockFacts DEF PlansHavePhases, UnwrittenOf, InPiece
<1>15. Joined'
  BY <1>4, <1>14, SameJoins
<1>16. Shape'
  <2>1. /\ pieceMissing' \in [Piece -> Int] /\ pieceActive' \in [Piece -> Int]
        /\ cursor' \in [Piece -> Nat] /\ requestable' \in [Piece -> Nat]
        /\ activePieces' \subseteq Piece
    BY <1>3, <1>10 DEF Shape
  <2> QED BY <1>4, <1>13, <2>1 DEF Shape
<1> QED BY <1>10, <1>12, <1>13, <1>14, <1>15, <1>16 DEF Indexed

\* A second request for a block that is requested of other connections.
LEMMA AssignDuplicateStep ==
  ASSUME OwnershipInv, mode = "running", NEW c \in Conn, NEW b \in Block,
         NEW purpose \in Purposes, IsOpen(c), AssignDuplicate(c, b, purpose)
  PROVE  OwnershipInv'
<1> USE DEF OwnershipInv
<1>1. /\ Assign(c, b, purpose) /\ \A r \in ActiveIn(b) : r.conn # c
      /\ phase[b] = "Requested" /\ phase' = phase /\ UNCHANGED indexVars
  BY DEF AssignDuplicate
<1>2. UNCHANGED <<conn, planned, join, diagnosis, mode>>
  BY <1>1 DEF Assign, connVars, planVars, storeVars, runVars
<1>3. phase' = [phase EXCEPT ![b] = "Requested"]
  BY <1>1 DEF Shape
<1>4. /\ RequestOwnership' /\ IdsFresh'
      /\ phase' \in [Block -> Phases] /\ attempts' \in [Block -> SUBSET AttemptRecord]
      /\ active' \subseteq ActiveRecord /\ nextId' \in Nat
  BY <1>1, <1>3, AssignOwnership
<1>5. Indexed'
  BY <1>1, <1>2, SameIndexes DEF Indexed, indexVars
<1>6. PlansHavePhases' /\ \A q \in Piece : UnwrittenOf(q)' = UnwrittenOf(q)
  BY <1>1, <1>2 DEF PlansHavePhases, UnwrittenOf, InPiece
<1>7. Joined'
  BY <1>2, <1>6, SameJoins
<1>8. Shape'
  BY <1>1, <1>2, <1>4 DEF Shape, indexVars
<1> QED BY <1>4, <1>5, <1>6, <1>7, <1>8

\* The blocks of a piece whose hash has begun are all received and unasked.
LEMMA HashedPieceFacts ==
  ASSUME OwnershipInv, mode = "running", NEW p \in Piece, join[p].hash # "NotStarted"
  PROVE  /\ p \in planned /\ p \in activePieces /\ pieceMissing[p] = 0
         /\ \A b \in BlocksOf(p) : phase[b] = "Received" /\ ActiveIn(b) = {}
<1> USE DEF OwnershipInv
<1>1. p \in planned /\ UnwrittenOf(p) = {}
  BY DEF Joined
<1>2. \A b \in BlocksOf(p) : phase[b] = "Received"
  <2> TAKE b \in BlocksOf(p)
  <2>1. phase[b] \in Phases /\ phase[b] # "None"
    BY <1>1, BlockFacts DEF Shape, PlansHavePhases
  <2>2. phase[b] \notin {"Missing", "Requested", "Writing"}
    BY <1>1 DEF UnwrittenOf, InPiece
  <2> QED BY <2>1, <2>2 DEF Phases, Status
<1>3. \A b \in BlocksOf(p) : ActiveIn(b) = {}
  BY <1>2, BlockFacts DEF RequestOwnership, RequestedIsOwned
<1>4. MissingOf(p) = {} /\ BusyOf(p) # {}
  BY <1>2, BlocksFinite DEF MissingOf, BusyOf, InPiece
<1>5. Cardinality(MissingOf(p)) = 0
  BY <1>4, FS_EmptySet, Zenon
<1>6. PieceIndexed(p)
  BY DEF Indexed
<1> QED BY <1>1, <1>2, <1>3, <1>4, <1>5, <1>6 DEF PieceIndexed

\* Ownership is kept by a step that changes neither the requests nor which blocks
\* are requested.
LEMMA KeptOwnership ==
  ASSUME OwnershipInv, UNCHANGED <<active, nextId, conn>>,
         \A b \in Block : ActiveIn(b)' = ActiveIn(b),
         \A b \in Block : phase'[b] = "Requested" <=> phase[b] = "Requested"
  PROVE  RequestOwnership' /\ IdsFresh'
<1> USE DEF OwnershipInv
<1>1. \A a \in active : a.block \in Block
  BY DEF Shape, ActiveRecord
<1>2. IndexAgrees'
  BY <1>1 DEF RequestOwnership, IndexAgrees
<1>3. RequestedIsOwned'
  BY DEF RequestOwnership, RequestedIsOwned
<1>4. OwnersAreOpen' /\ OneRequestEach' /\ IdsFresh'
  BY DEF RequestOwnership, OwnersAreOpen, OneRequestEach, IsOpen, IdsFresh
<1> QED BY <1>2, <1>3, <1>4 DEF RequestOwnership

\* The joins of the other pieces are kept when only piece p starts over, with as
\* many writes to come as it has unwritten blocks, or has no plan any more.
LEMMA OtherJoins ==
  ASSUME OwnershipInv, mode = "running", NEW p \in Piece,
         planned' \subseteq planned, planned \ {p} \subseteq planned',
         \A q \in Piece \ {p} : join'[q] = join[q] /\ UnwrittenOf(q)' = UnwrittenOf(q),
         join'[p].hash = "NotStarted",
         p \in planned' => join'[p].expected - join'[p].completed = Cardinality(UnwrittenOf(p)'),
         diagnosis' = NoPiece \/ (diagnosis' = diagnosis /\ diagnosis # p)
  PROVE  Joined'
<1> USE DEF OwnershipInv
<1>1. \A q \in planned' : join'[q].expected - join'[q].completed = Cardinality(UnwrittenOf(q)')
  <2> TAKE q \in planned'
  <2>1. CASE q = p
    BY <2>1
  <2>2. CASE q # p
    <3>1. q \in Piece \ {p} /\ q \in planned
      BY <2>2 DEF Shape
    <3>2. Cardinality(UnwrittenOf(q)') = Cardinality(UnwrittenOf(q))
      BY <3>1, Zenon
    <3> QED BY <3>1, <3>2 DEF Joined
  <2> QED BY <2>1, <2>2
<1>2. \A q \in Piece : join'[q].hash # "NotStarted" => q \in planned' /\ UnwrittenOf(q)' = {}
  BY DEF Joined
<1>3. diagnosis' # NoPiece => join'[diagnosis'].hash = "Failed"
  BY DEF Joined, Shape
<1> QED BY <1>1, <1>2, <1>3 DEF Joined

\* A verified piece retires: its blocks lose their states.
LEMMA PieceVerifiedStep ==
  ASSUME OwnershipInv, NEW h, PieceVerified(h)
  PROVE  OwnershipInv'
<1> USE DEF OwnershipInv
<1> DEFINE p == h.piece
<1>1. /\ mode = "running" /\ p \in planned /\ join[p].hash = "Running"
      /\ planned' = planned \ {p}
      /\ phase' = [b \in Block |-> IF b \in BlocksOf(p) THEN "None" ELSE phase[b]]
      /\ attempts' = [b \in Block |-> IF b \in BlocksOf(p) THEN {} ELSE attempts[b]]
      /\ join' = [join EXCEPT ![p] = NewJoin(BlockCount[p])]
      /\ UNCHANGED <<conn, active, nextId, diagnosis, mode>>
  BY DEF PieceVerified, Current, Idle, connVars, runVars
<1>2. /\ pieceActive' = [pieceActive EXCEPT ![p] = 0] /\ pieceMissing' = pieceMissing
      /\ cursor' = [cursor EXCEPT ![p] = BlockCount[p] + 1]
      /\ activePieces' = activePieces \ {p} /\ requestable' = [requestable EXCEPT ![p] = 0]
  BY DEF PieceVerified
<1> HIDE DEF p
<1>3. /\ p \in Piece /\ p \in activePieces /\ pieceMissing[p] = 0
      /\ \A b \in BlocksOf(p) : phase[b] = "Received" /\ ActiveIn(b) = {}
  <2>1. p \in Piece
    BY <1>1 DEF Shape
  <2> QED BY <1>1, <2>1, HashedPieceFacts
<1>4. \A q \in Piece \ {p} : \A b \in BlocksOf(q) : b \in Block /\ b \notin BlocksOf(p)
  BY <1>3, BlockFacts
<1>5. \A q \in Piece \ {p} : \A b \in BlocksOf(q) : phase'[b] = phase[b]
  BY <1>1, <1>4
<1>6. \A b \in BlocksOf(p) : phase'[b] = "None"
  BY <1>1, <1>3, BlockFacts
<1>7. RequestOwnership' /\ IdsFresh'
  <2>1. \A b \in Block : ActiveIn(b)' = ActiveIn(b)
    <3> TAKE b \in Block
    <3>1. CASE b \in BlocksOf(p)
      BY <1>1, <1>3, <3>1 DEF ActiveIn
    <3>2. CASE b \notin BlocksOf(p)
      BY <1>1, <3>2 DEF ActiveIn, IsActive
    <3> QED BY <3>1, <3>2
  <2>2. \A b \in Block : phase'[b] = "Requested" <=> phase[b] = "Requested"
    BY <1>1, <1>3
  <2> QED BY <1>1, <2>1, <2>2, KeptOwnership
<1>8. PlansHavePhases'
  BY <1>1, <1>5, <1>6 DEF PlansHavePhases
<1>9. ASSUME NEW q \in Piece PROVE PieceIndexed(q)'
  <2>1. CASE q = p
    <3>1. MissingOf(p)' = {} /\ BusyOf(p)' = {}
      BY <1>6 DEF MissingOf, BusyOf, InPiece
    <3>2. Cardinality(MissingOf(p)') = 0 /\ Cardinality(BusyOf(p)') = 0
      BY <3>1, FS_EmptySet, Zenon
    <3>3. /\ pieceActive'[p] = 0 /\ cursor'[p] = BlockCount[p] + 1 /\ requestable'[p] = 0
          /\ pieceMissing'[p] = 0 /\ p \notin activePieces'
      BY <1>2, <1>3 DEF Shape
    <3>4. /\ BlockCount[p] + 1 \in 1 .. (BlockCount[p] + 1)
          /\ ~(BlockCount[p] + 1 <= BlockCount[p])
      BY <1>3, BlocksFinite
    <3>5. PieceIndexed(p)'
      BY <3>1, <3>2, <3>3, <3>4 DEF PieceIndexed
    <3> QED BY <2>1, <3>5
  <2>2. CASE q # p
    <3>1. PieceIndexed(q)
      BY <1>1 DEF Indexed
    <3>2. /\ pieceMissing'[q] = pieceMissing[q] /\ pieceActive'[q] = pieceActive[q]
          /\ cursor'[q] = cursor[q] /\ requestable'[q] = requestable[q]
          /\ q \in activePieces' <=> q \in activePieces
      BY <1>2, <2>2 DEF Shape
    <3>3. \A b \in BlocksOf(q) : phase'[b] = phase[b]
      BY <1>5, <2>2
    <3> QED BY <3>1, <3>2, <3>3, SameIndexes
  <2> QED BY <2>1, <2>2
<1>10. NewJoin(BlockCount[p]) \in JoinRecord /\ NewJoin(BlockCount[p]).hash = "NotStarted"
  <2>1. BlockCount[p] \in Int
    BY <1>3, BlocksFinite
  <2> QED BY <2>1 DEF NewJoin, JoinRecord, HashState
<1>11. Joined'
  <2>1. \A q \in Piece \ {p} : join'[q] = join[q] /\ UnwrittenOf(q)' = UnwrittenOf(q)
    BY <1>1, <1>5 DEF Shape, UnwrittenOf, InPiece
  <2>2. join'[p].hash = "NotStarted" /\ p \notin planned'
    BY <1>1, <1>3, <1>10 DEF Shape
  <2>3. diagnosis # p
    BY <1>1, <1>3, PieceAssumption DEF Joined
  <2> QED BY <1>1, <1>3, <2>1, <2>2, <2>3, OtherJoins
<1>12. Shape'
  <2>1. phase' \in [Block -> Phases] /\ attempts' \in [Block -> SUBSET AttemptRecord]
    BY <1>1 DEF Shape, Phases
  <2>2. join' \in [Piece -> JoinRecord]
    BY <1>1, <1>10 DEF Shape
  <2>3. BlockCount[p] + 1 \in Nat
    BY <1>3, BlocksFinite
  <2>4. pieceMissing' \in [Piece -> Int] /\ pieceActive' \in [Piece -> Int]
    <3>1. pieceMissing \in [Piece -> Int] /\ pieceActive \in [Piece -> Int]
      BY DEF Shape
    <3>2. \A q \in Piece : pieceActive'[q] \in Int
      BY <1>2, <3>1
    <3>3. pieceActive' = [q \in Piece |-> pieceActive'[q]]
      BY <1>2, <3>1
    <3>4. pieceActive' \in [Piece -> Int]
      BY <3>2, <3>3
    <3> QED BY <1>2, <3>1, <3>4
  <2>5. cursor' \in [Piece -> Nat] /\ requestable' \in [Piece -> Nat]
    BY <1>2, <2>3 DEF Shape
  <2>6. activePieces' \subseteq Piece
    BY <1>2 DEF Shape
  <2> QED BY <1>1, <2>1, <2>2, <2>4, <2>5, <2>6 DEF Shape
<1> QED BY <1>7, <1>8, <1>9, <1>11, <1>12 DEF Indexed

\* The join of the next generation expects the given number of writes.
LEMMA ResetJoin ==
  ASSUME NEW j \in JoinRecord, NEW n \in Int
  PROVE  /\ ResetForWrites(j, n) \in JoinRecord /\ ResetForWrites(j, n).expected = n
         /\ ResetForWrites(j, n).completed = 0 /\ ResetForWrites(j, n).hash = "NotStarted"
<1> DEFINE g == j.generation + 1
<1>1. g \in Nat \ {0}
  BY DEF JoinRecord
<1>2. ResetForWrites(j, n) = [NewJoin(n) EXCEPT !.generation = g]
  BY DEF ResetForWrites
<1> HIDE DEF g
<1> DEFINE k == NewJoin(n)
<1>3. k \in JoinRecord /\ k.expected = n /\ k.completed = 0 /\ k.hash = "NotStarted"
  BY DEF NewJoin, JoinRecord, HashState
<1> HIDE DEF k
<1>4. [k EXCEPT !.generation = g] =
        [generation |-> g, expected |-> k.expected, completed |-> k.completed,
         failed |-> k.failed, hash |-> k.hash]
  BY <1>3 DEF JoinRecord
<1>5. [k EXCEPT !.generation = g] \in JoinRecord
  BY <1>1, <1>3 DEF JoinRecord
<1> QED BY <1>2, <1>3, <1>4, <1>5 DEF k

\* mark_piece_hash_failed_blocks_for_generation: some or all blocks of a piece
\* whose hash has begun become missing again.
LEMMA ResetStep ==
  ASSUME OwnershipInv, mode = "running", NEW p \in Piece, join[p].hash # "NotStarted",
         NEW bad \in SUBSET BlocksOf(p), bad # {}, ResetBlocks(p, bad), mode' = mode,
         diagnosis' = NoPiece \/ (diagnosis' = diagnosis /\ diagnosis # p)
  PROVE  OwnershipInv'
<1> USE DEF OwnershipInv
<1> DEFINE n == Cardinality(bad)
           indexes == {b[2] : b \in bad}
           first == Min(indexes)
           j == ResetForWrites(join[p], n)
<1>1. /\ phase' = [b \in Block |-> IF b \in bad THEN "Missing" ELSE phase[b]]
      /\ join' = [join EXCEPT ![p] = j]
      /\ UNCHANGED <<conn, planned, attempts, active, nextId>>
  BY DEF ResetBlocks, connVars, planVars
<1>2. /\ pieceMissing' = [pieceMissing EXCEPT ![p] = n]
      /\ pieceActive' = [pieceActive EXCEPT ![p] = BlockCount[p] - n]
      /\ cursor' = [cursor EXCEPT ![p] = first]
      /\ activePieces' = IF bad = BlocksOf(p) THEN activePieces \ {p} ELSE activePieces
      /\ requestable' = [requestable EXCEPT ![p] = IF bad = BlocksOf(p) THEN 0 ELSE first]
  BY DEF ResetBlocks
<1>3. /\ p \in planned /\ p \in activePieces
      /\ \A b \in BlocksOf(p) : phase[b] = "Received" /\ ActiveIn(b) = {}
  BY HashedPieceFacts
<1>4. /\ IsFiniteSet(BlocksOf(p)) /\ Cardinality(BlocksOf(p)) = BlockCount[p]
      /\ BlockCount[p] \in Nat /\ IsFiniteSet(bad) /\ n \in Nat
  BY BlocksFinite, FS_Subset, FS_CardinalityType
<1>5. /\ first \in 1 .. BlockCount[p] /\ <<p, first>> \in bad
      /\ \A b \in bad : first <= b[2]
  <2>1. \A b \in bad : b[2] \in 1 .. BlockCount[p] /\ b = <<p, b[2]>> /\ b[2] \in indexes
    BY BlockFacts
  <2>2. indexes \in SUBSET Nat /\ indexes # {}
    BY <2>1
  <2>3. first \in indexes /\ \A y \in indexes : first <= y
    <3> HIDE DEF indexes
    <3> QED BY <2>2, MinOfNaturals
  <2> HIDE DEF first
  <2>4. PICK b \in bad : first = b[2]
    BY <2>3
  <2> HIDE DEF indexes
  <2> QED BY <2>1, <2>3, <2>4
<1>6. j \in JoinRecord /\ j.expected = n /\ j.completed = 0 /\ j.hash = "NotStarted"
  <2>1. join[p] \in JoinRecord
    BY DEF Shape
  <2> HIDE DEF n
  <2> QED BY <1>4, <2>1, ResetJoin
<1> HIDE DEF first, indexes, j
<1>7. \A b \in Block : phase'[b] = IF b \in bad THEN "Missing" ELSE phase[b]
  BY <1>1
<1>8. \A q \in Piece \ {p} : \A b \in BlocksOf(q) : b \in Block /\ b \notin bad
  BY BlockFacts
<1>9. /\ MissingOf(p)' = bad /\ BusyOf(p)' = BlocksOf(p) \ bad /\ UnwrittenOf(p)' = bad
  BY <1>3, <1>7, BlockFacts DEF MissingOf, BusyOf, UnwrittenOf, InPiece
<1>10. RequestOwnership' /\ IdsFresh'
  <2>1. \A b \in Block : ActiveIn(b)' = ActiveIn(b)
    BY <1>1 DEF ActiveIn, IsActive
  <2>2. \A b \in Block : phase'[b] = "Requested" <=> phase[b] = "Requested"
    BY <1>3, <1>7
  <2> QED BY <1>1, <2>1, <2>2, KeptOwnership
<1>11. PlansHavePhases'
  <2>1. \A b \in Block : phase'[b] = "None" <=> phase[b] = "None"
    BY <1>3, <1>7
  <2> QED BY <1>1, <2>1, BlockFacts DEF PlansHavePhases
<1>12. PieceIndexed(p)'
  <2>1. Cardinality(MissingOf(p)') = n
    BY <1>9, Zenon
  <2>2. Cardinality(BusyOf(p)') = BlockCount[p] - n
    <3>1. BlocksOf(p) \cap bad = bad
      OBVIOUS
    <3>2. Cardinality(BusyOf(p)') = Cardinality(BlocksOf(p)) - Cardinality(bad)
      BY <1>4, <1>9, <3>1, CardDifference
    <3> QED BY <1>4, <3>2
  <2> HIDE DEF n
  <2>3. /\ pieceMissing'[p] = n /\ pieceActive'[p] = BlockCount[p] - n /\ cursor'[p] = first
        /\ requestable'[p] = IF bad = BlocksOf(p) THEN 0 ELSE first
    BY <1>2 DEF Shape
  <2>4. BusyOf(p)' = {} <=> bad = BlocksOf(p)
    BY <1>9
  <2>5. p \in activePieces' <=> BusyOf(p)' # {}
    BY <1>2, <1>3, <2>4
  <2>6. requestable'[p] = IF BusyOf(p)' # {} /\ MissingOf(p)' # {} THEN cursor'[p] ELSE 0
    BY <1>9, <2>3, <2>4
  <2>7. first \in 1 .. (BlockCount[p] + 1)
    BY <1>4, <1>5
  <2> QED BY <1>5, <1>9, <2>1, <2>2, <2>3, <2>5, <2>6, <2>7 DEF PieceIndexed
<1>13. ASSUME NEW q \in Piece, q # p PROVE PieceIndexed(q)'
  <2>1. PieceIndexed(q)
    BY DEF Indexed
  <2>2. /\ pieceMissing'[q] = pieceMissing[q] /\ pieceActive'[q] = pieceActive[q]
        /\ cursor'[q] = cursor[q] /\ requestable'[q] = requestable[q]
        /\ q \in activePieces' <=> q \in activePieces
    BY <1>2, <1>13 DEF Shape
  <2>3. \A b \in BlocksOf(q) : phase'[b] = phase[b]
    BY <1>7, <1>8, <1>13
  <2> QED BY <2>1, <2>2, <2>3, SameIndexes
<1>14. Joined'
  <2>1. \A q \in Piece \ {p} : join'[q] = join[q] /\ UnwrittenOf(q)' = UnwrittenOf(q)
    BY <1>1, <1>7, <1>8 DEF Shape, UnwrittenOf, InPiece
  <2>2. join'[p] = j
    BY <1>1 DEF Shape
  <2>3. Cardinality(UnwrittenOf(p)') = n
    BY <1>9, Zenon
  <2> HIDE DEF n
  <2>4. join'[p].expected - join'[p].completed = Cardinality(UnwrittenOf(p)')
    BY <1>4, <1>6, <2>2, <2>3
  <2>5. join'[p].hash = "NotStarted" /\ planned' \subseteq planned /\ planned \ {p} \subseteq planned'
    BY <1>1, <1>6, <2>2
  <2> QED BY <2>1, <2>4, <2>5, OtherJoins
<1>15. Shape'
  <2> HIDE DEF n
  <2>1. phase' \in [Block -> Phases]
    BY <1>1 DEF Shape, Phases, Status
  <2>2. join' \in [Piece -> JoinRecord]
    BY <1>1, <1>6 DEF Shape
  <2>3. BlockCount[p] - n \in Int /\ n \in Int
    BY <1>4
  <2>4. pieceMissing' \in [Piece -> Int] /\ pieceActive' \in [Piece -> Int]
    BY <1>2, <2>3 DEF Shape
  <2>5. first \in Nat /\ (IF bad = BlocksOf(p) THEN 0 ELSE first) \in Nat
    BY <1>5
  <2>6. cursor' \in [Piece -> Nat] /\ requestable' \in [Piece -> Nat]
    BY <1>2, <2>5 DEF Shape
  <2>7. activePieces' \subseteq Piece
    BY <1>2 DEF Shape
  <2>8. diagnosis' \in Piece \cup {NoPiece}
    BY DEF Shape
  <2> QED BY <1>1, <2>1, <2>2, <2>4, <2>6, <2>7, <2>8 DEF Shape
<1> QED BY <1>10, <1>11, <1>12, <1>13, <1>14, <1>15 DEF Indexed

\* remove_connection and the close of a banned peer end the requests of that
\* connection only, and every other owner stays open.
LEMMA DisconnectStep ==
  ASSUME OwnershipInv, mode = "running", NEW c \in Conn, Disconnect(c), mode' = mode
  PROVE  OwnershipInv'
<1>1. /\ conn' = [conn EXCEPT ![c] = "closed"] /\ Terminate(Owned(c))
      /\ UNCHANGED <<planned, join, diagnosis>>
  BY DEF Disconnect, planVars, storeVars
<1>2. Owned(c) \in SUBSET active /\ \A a \in active \ Owned(c) : a.conn # c
  BY DEF Owned
<1>3. conn' \in [Conn -> {"new", "open", "closed"}]
  BY <1>1 DEF OwnershipInv, Shape
<1>4. \A a \in active \ Owned(c) : conn'[a.conn] = "open"
  <2> TAKE a \in active \ Owned(c)
  <2>1. a.conn \in Conn /\ conn[a.conn] = "open"
    BY DEF OwnershipInv, Shape, ActiveRecord, RequestOwnership, OwnersAreOpen, IsOpen
  <2> QED BY <1>1, <1>2, <2>1 DEF OwnershipInv, Shape
<1> QED BY <1>1, <1>2, <1>3, <1>4, TerminateStep

\* Requests end while the connections stay as they are: choke, reject, preemption
\* and expiry.
LEMMA ReleaseStep ==
  ASSUME OwnershipInv, mode = "running", NEW T \in SUBSET active, Terminate(T),
         UNCHANGED <<conn, planned, join, diagnosis, mode>>
  PROVE  OwnershipInv'
<1>1. conn' \in [Conn -> {"new", "open", "closed"}] /\ \A a \in active \ T : conn'[a.conn] = "open"
  BY DEF OwnershipInv, Shape, RequestOwnership, OwnersAreOpen, IsOpen
<1> QED BY <1>1, TerminateStep

\* The scheduler's next request for an active piece is its first missing block.
LEMMA ScheduleActiveStep ==
  ASSUME OwnershipInv, NEW c \in Conn, ScheduleActive(c)
  PROVE  OwnershipInv'
<1> DEFINE P == {p \in Requestable : CanRequest(c, p)}
           m == Min(P)
<1>1. /\ mode = "running" /\ IsOpen(c) /\ P # {}
      /\ AssignPrimary(c, <<m, requestable[m]>>, "Ordinary")
  BY DEF ScheduleActive, Idle, Eligible
<1>2. P \in SUBSET Nat
  BY PieceAssumption DEF Requestable
<1>3. m \in P
  <2> HIDE DEF P
  <2> QED BY <1>1, <1>2, MinOfNaturals
<1>4. m \in Piece /\ requestable[m] # 0
  <2> HIDE DEF m
  <2> QED BY <1>3 DEF Requestable
<1> HIDE DEF m, P
<1>5. PieceIndexed(m)
  BY <1>1, <1>4 DEF OwnershipInv, Indexed
<1>6. MissingOf(m) # {} /\ requestable[m] = cursor[m]
  BY <1>4, <1>5 DEF PieceIndexed
<1>7. cursor[m] <= BlockCount[m]
  BY <1>4, <1>5, <1>6, CursorFacts
<1>8. AssignPrimary(c, <<m, cursor[m]>>, "Ordinary") /\ "Ordinary" \in Purposes
  BY <1>1, <1>6 DEF Purposes
<1> QED BY <1>1, <1>4, <1>7, <1>8, AssignPrimaryStep

\* A set of blocks has a first one, in the order of the piece index and then of
\* the block index.
LEMMA FirstBlock ==
  ASSUME NEW B \in SUBSET Block, B # {}
  PROVE  (CHOOSE b \in B : \A d \in B : Before(b, d)) \in B
<1> DEFINE pieces == {b[1] : b \in B}
           m == Min(pieces)
           indexes == {b[2] : b \in {d \in B : d[1] = m}}
           n == Min(indexes)
<1>1. \A b \in B : b[1] \in Nat /\ b[2] \in Nat /\ b[1] \in pieces
  BY BlockFacts, PieceAssumption
<1>2. pieces \in SUBSET Nat /\ pieces # {}
  BY <1>1
<1>3. m \in pieces /\ \A y \in pieces : m <= y
  <2> HIDE DEF pieces
  <2> QED BY <1>2, MinOfNaturals
<1> HIDE DEF m
<1>4. PICK d \in B : d[1] = m
  BY <1>3
<1>5. indexes \in SUBSET Nat /\ indexes # {} /\ \A b \in B : b[1] = m => b[2] \in indexes
  BY <1>1, <1>4
<1>6. n \in indexes /\ \A y \in indexes : n <= y
  <2> HIDE DEF indexes
  <2> QED BY <1>5, MinOfNaturals
<1> HIDE DEF n
<1>7. PICK b \in B : b[1] = m /\ b[2] = n
  BY <1>6
<1> HIDE DEF pieces, indexes
<1>8. \A e \in B : Before(b, e)
  <2> TAKE e \in B
  <2>1. e[1] \in Nat /\ m <= e[1] /\ m \in Nat
    BY <1>1, <1>3, <1>7
  <2>2. e[1] = m => n <= e[2]
    BY <1>5, <1>6
  <2> QED BY <1>7, <2>1, <2>2 DEF Before
<1> QED BY <1>8

\* endgame repeats one request of another connection.
LEMMA ScheduleEndgameStep ==
  ASSUME OwnershipInv, NEW c \in Conn, ScheduleEndgame(c)
  PROVE  OwnershipInv'
<1> DEFINE B == {b \in Block : /\ phase[b] = "Requested" /\ ActiveIn(b) # {}
                               /\ \A r \in ActiveIn(b) : r.conn # c
                               /\ CanRequest(c, b[1])}
           first == CHOOSE b \in B : \A d \in B : Before(b, d)
<1>1. mode = "running" /\ IsOpen(c) /\ B # {} /\ AssignDuplicate(c, first, "Endgame")
  BY DEF ScheduleEndgame, Idle
<1>2. B \in SUBSET Block
  OBVIOUS
<1> HIDE DEF B
<1>3. first \in Block
  BY <1>1, <1>2, FirstBlock
<1> HIDE DEF first
<1>4. "Endgame" \in Purposes
  BY DEF Purposes
<1> QED BY <1>1, <1>3, <1>4, AssignDuplicateStep

\* A plan made for a streaming demand may replace the last untouched plan.
LEMMA PlanForStreamingStep ==
  ASSUME OwnershipInv, NEW p \in Piece, NEW fits \in BOOLEAN, PlanForStreaming(p, fits)
  PROVE  OwnershipInv'
<1> DEFINE untouched == {q \in planned \ Demand : \A b \in BlocksOf(q) : phase[b] = "Missing"}
           P == IF fits THEN {p} ELSE {}
<1>1. /\ mode = "running" /\ p \notin planned
      /\ Plan({p}, {}) \/ (untouched # {} /\ Plan(P, {Max(untouched)}))
  BY DEF PlanForStreaming, Idle
<1>2. {p} \in SUBSET (Piece \ planned) /\ P \in SUBSET (Piece \ planned)
  BY <1>1
<1>3. CASE Plan({p}, {})
  <2>1. {} \in SUBSET planned /\ \A q \in {} : \A b \in BlocksOf(q) : phase[b] = "Missing"
    OBVIOUS
  <2> QED BY <1>1, <1>2, <1>3, <2>1, PlanStep
<1>4. CASE untouched # {} /\ Plan(P, {Max(untouched)})
  <2>1. untouched \in SUBSET Piece
    BY DEF OwnershipInv, Shape
  <2>2. untouched \in SUBSET Nat /\ IsFiniteSet(untouched)
    <3> HIDE DEF untouched
    <3> QED BY <2>1, PieceAssumption, FS_Subset
  <2>3. Max(untouched) \in untouched
    <3> HIDE DEF untouched
    <3> QED BY <1>4, <2>2, MaxOfNaturals
  <2> DEFINE q == Max(untouched)
  <2>4. {q} \in SUBSET planned /\ \A d \in {q} : \A b \in BlocksOf(d) : phase[b] = "Missing"
    <3> HIDE DEF q
    <3>1. q \in untouched
      BY <2>3 DEF q
    <3> QED BY <3>1
  <2> HIDE DEF P, untouched
  <2>5. Plan(P, {q})
    BY <1>4
  <2> HIDE DEF q
  <2> QED BY <1>1, <1>2, <2>4, <2>5, PlanStep
<1> QED BY <1>1, <1>3, <1>4

\* The end of a hash is recorded in the join: the piece is under diagnosis, or the
\* run ends.
LEMMA HashEndedStep ==
  ASSUME OwnershipInv, mode = "running", NEW p \in Piece, join[p].hash = "Running",
         NEW state \in HashState, join' = [join EXCEPT ![p].hash = state],
         UNCHANGED <<conn, planned, phase, attempts, active, nextId, indexVars>>,
         \/ mode' = "stopping" /\ diagnosis' = diagnosis
         \/ mode' = mode /\ state = "Failed" /\ diagnosis' = p
  PROVE  OwnershipInv'
<1> USE DEF OwnershipInv
<1>1. RequestOwnership' /\ IdsFresh'
  <2>1. \A b \in Block : ActiveIn(b)' = ActiveIn(b)
    BY DEF ActiveIn, IsActive
  <2> QED BY <2>1, KeptOwnership
<1>2. PlansHavePhases'
  BY DEF PlansHavePhases
<1>3. Indexed'
  BY SameIndexes DEF Indexed, indexVars
<1>4. join[p] \in JoinRecord
  BY DEF Shape
<1>5. /\ join'[p] = [join[p] EXCEPT !.hash = state]
      /\ \A q \in Piece \ {p} : join'[q] = join[q]
  BY DEF Shape
<1>6. /\ join'[p] \in JoinRecord /\ join'[p].expected = join[p].expected
      /\ join'[p].completed = join[p].completed /\ join'[p].hash = state
  <2> DEFINE j == join[p]
  <2>1. j \in JoinRecord /\ join'[p] = [j EXCEPT !.hash = state]
    BY <1>4, <1>5
  <2> HIDE DEF j
  <2>2. /\ [j EXCEPT !.hash = state] \in JoinRecord
        /\ [j EXCEPT !.hash = state].expected = j.expected
        /\ [j EXCEPT !.hash = state].completed = j.completed
        /\ [j EXCEPT !.hash = state].hash = state
    BY <2>1 DEF JoinRecord
  <2>3. /\ join'[p] \in JoinRecord /\ join'[p].expected = j.expected
        /\ join'[p].completed = j.completed /\ join'[p].hash = state
    BY <2>1, <2>2, Zenon
  <2> QED BY <2>3 DEF j
<1>7. Shape'
  <2>1. join' \in [Piece -> JoinRecord]
    <3>1. join' = [q \in Piece |-> join'[q]]
      BY DEF Shape
    <3>2. \A q \in Piece : join'[q] \in JoinRecord
      BY <1>5, <1>6 DEF Shape
    <3> QED BY <3>1, <3>2
  <2>2. diagnosis' \in Piece \cup {NoPiece} /\ mode' \in {"running", "stopping"}
    BY DEF Shape
  <2> QED BY <2>1, <2>2 DEF Shape, indexVars
<1>8. Joined'
  <2>1. CASE mode' = "stopping"
    BY <2>1 DEF Joined
  <2>2. CASE mode' = mode /\ state = "Failed" /\ diagnosis' = p
    <3>1. \A q \in Piece : UnwrittenOf(q)' = UnwrittenOf(q)
      BY DEF UnwrittenOf, InPiece
    <3>2. \A q \in planned' : join'[q].expected - join'[q].completed = Cardinality(UnwrittenOf(q)')
      <4> TAKE q \in planned'
      <4>1. q \in planned /\ q \in Piece
        BY DEF Shape
      <4>2. Cardinality(UnwrittenOf(q)') = Cardinality(UnwrittenOf(q))
        BY <3>1, <4>1, Zenon
      <4>3. join'[q].expected = join[q].expected /\ join'[q].completed = join[q].completed
        BY <1>5, <1>6, <4>1
      <4> QED BY <4>1, <4>2, <4>3 DEF Joined
    <3>3. \A q \in Piece : join'[q].hash # "NotStarted" => q \in planned' /\ UnwrittenOf(q)' = {}
      BY <1>5, <3>1 DEF Joined
    <3> QED BY <1>6, <2>2, <3>2, <3>3 DEF Joined
  <2> QED BY <2>1, <2>2
<1> QED BY <1>1, <1>2, <1>3, <1>7, <1>8

\* replace_wanted_pieces_with_priorities empties every table.
LEMMA ReplaceWantedStep ==
  ASSUME OwnershipInv, NEW W, NEW lost, ReplaceWanted(W, lost)
  PROVE  OwnershipInv'
<1>1. /\ planned' = {} /\ phase' = [b \in Block |-> "None"] /\ attempts' = [b \in Block |-> {}]
      /\ active' = {} /\ diagnosis' = NoPiece /\ UNCHANGED <<conn, nextId, mode>>
      /\ join' = [p \in Piece |-> NewJoin(BlockCount[p])]
  BY DEF ReplaceWanted, connVars
<1>2. /\ pieceMissing' = [p \in Piece |-> 0] /\ pieceActive' = [p \in Piece |-> 0]
      /\ cursor' = [p \in Piece |-> BlockCount[p] + 1]
      /\ activePieces' = {} /\ requestable' = [p \in Piece |-> 0]
  BY DEF ReplaceWanted
<1>3. \A b \in Block : phase'[b] = "None" /\ ActiveIn(b)' = {}
  BY <1>1 DEF ActiveIn
<1>4. RequestOwnership' /\ IdsFresh'
  BY <1>1, <1>3 DEF RequestOwnership, IndexAgrees, RequestedIsOwned, OwnersAreOpen,
                    OneRequestEach, IdsFresh
<1>5. PlansHavePhases'
  BY <1>1, <1>3, BlockFacts DEF PlansHavePhases
<1>6. ASSUME NEW p \in Piece PROVE PieceIndexed(p)'
  <2>1. MissingOf(p)' = {} /\ BusyOf(p)' = {}
    BY <1>3, BlockFacts DEF MissingOf, BusyOf, InPiece
  <2>2. Cardinality(MissingOf(p)') = 0 /\ Cardinality(BusyOf(p)') = 0
    BY <2>1, FS_EmptySet, Zenon
  <2>3. /\ BlockCount[p] + 1 \in 1 .. (BlockCount[p] + 1)
        /\ ~(BlockCount[p] + 1 <= BlockCount[p])
    BY BlocksFinite
  <2> QED BY <1>2, <2>1, <2>2, <2>3 DEF PieceIndexed
<1>7. \A p \in Piece : NewJoin(BlockCount[p]) \in JoinRecord /\ NewJoin(BlockCount[p]).hash = "NotStarted"
  BY PieceAssumption DEF NewJoin, JoinRecord, HashState
<1>8. Joined'
  BY <1>1, <1>7 DEF Joined
<1>9. Shape'
  <2>1. phase' \in [Block -> Phases] /\ attempts' \in [Block -> SUBSET AttemptRecord]
    BY <1>1 DEF Phases
  <2>2. \A p \in Piece : BlockCount[p] + 1 \in Nat
    BY BlocksFinite
  <2>3. cursor' \in [Piece -> Nat] /\ requestable' \in [Piece -> Nat]
    BY <1>2, <2>2
  <2>4. pieceMissing' \in [Piece -> Int] /\ pieceActive' \in [Piece -> Int]
    BY <1>2
  <2>5. join' \in [Piece -> JoinRecord]
    BY <1>1, <1>7
  <2> QED BY <1>1, <1>2, <2>1, <2>3, <2>4, <2>5 DEF OwnershipInv, Shape
<1> QED BY <1>4, <1>5, <1>6, <1>8, <1>9 DEF OwnershipInv, Indexed

\* The tables start empty.
LEMMA OwnershipInit == Init => OwnershipInv
<1> SUFFICES ASSUME Init PROVE OwnershipInv
  OBVIOUS
<1>1. /\ planned = {} /\ phase = [b \in Block |-> "None"] /\ attempts = [b \in Block |-> {}]
      /\ active = {} /\ diagnosis = NoPiece /\ conn = [c \in Conn |-> "new"] /\ nextId = 1
      /\ join = [p \in Piece |-> NewJoin(BlockCount[p])] /\ mode = "running"
  BY DEF Init
<1>2. /\ pieceMissing = [p \in Piece |-> 0] /\ pieceActive = [p \in Piece |-> 0]
      /\ cursor = [p \in Piece |-> BlockCount[p] + 1]
      /\ activePieces = {} /\ requestable = [p \in Piece |-> 0]
  BY DEF Init
<1>3. \A b \in Block : phase[b] = "None" /\ ActiveIn(b) = {}
  BY <1>1 DEF ActiveIn
<1>4. RequestOwnership /\ IdsFresh
  BY <1>1, <1>3 DEF RequestOwnership, IndexAgrees, RequestedIsOwned, OwnersAreOpen,
                    OneRequestEach, IdsFresh
<1>5. PlansHavePhases
  BY <1>1, <1>3, BlockFacts DEF PlansHavePhases
<1>6. ASSUME NEW p \in Piece PROVE PieceIndexed(p)
  <2>1. MissingOf(p) = {} /\ BusyOf(p) = {}
    BY <1>3, BlockFacts DEF MissingOf, BusyOf, InPiece
  <2>2. Cardinality(MissingOf(p)) = 0 /\ Cardinality(BusyOf(p)) = 0
    BY <2>1, FS_EmptySet, Zenon
  <2>3. /\ BlockCount[p] + 1 \in 1 .. (BlockCount[p] + 1)
        /\ ~(BlockCount[p] + 1 <= BlockCount[p])
    BY BlocksFinite
  <2> QED BY <1>2, <2>1, <2>2, <2>3 DEF PieceIndexed
<1>7. \A p \in Piece : NewJoin(BlockCount[p]) \in JoinRecord /\ NewJoin(BlockCount[p]).hash = "NotStarted"
  BY PieceAssumption DEF NewJoin, JoinRecord, HashState
<1>8. Joined
  BY <1>1, <1>7 DEF Joined
<1>9. Shape
  <2>1. phase \in [Block -> Phases] /\ attempts \in [Block -> SUBSET AttemptRecord]
    BY <1>1 DEF Phases
  <2>2. \A p \in Piece : BlockCount[p] + 1 \in Nat
    BY BlocksFinite
  <2>3. cursor \in [Piece -> Nat] /\ requestable \in [Piece -> Nat]
    BY <1>2, <2>2
  <2>4. pieceMissing \in [Piece -> Int] /\ pieceActive \in [Piece -> Int]
    BY <1>2
  <2>5. join \in [Piece -> JoinRecord]
    BY <1>1, <1>7
  <2> QED BY <1>1, <1>2, <2>1, <2>3, <2>4, <2>5 DEF Shape
<1> QED BY <1>4, <1>5, <1>6, <1>8, <1>9 DEF OwnershipInv, Indexed

-----------------------------------------------------------------------------
(* Every step keeps the invariant. *)

\* every write job and write completion is about a block of the torrent
JobsNamed == \A w \in writes \cup written : w.block \in Block

\* Peers and the handlers of their messages.
LEMMA PeerStep ==
  ASSUME OwnershipInv, PeerNext
  PROVE  OwnershipInv'
<1>1. ASSUME NEW c \in Conn, AddConnection(c) PROVE OwnershipInv'
  <2>1. /\ mode = "running" /\ conn' = [conn EXCEPT ![c] = "open"]
        /\ UNCHANGED <<planned, phase, attempts, active, nextId, indexVars, join, diagnosis, mode>>
    BY <1>1 DEF AddConnection, Idle, planVars, blockVars, storeVars, runVars
  <2>2. /\ conn' \in [Conn -> {"new", "open", "closed"}]
        /\ \A d \in Conn : conn[d] = "open" => conn'[d] = "open"
    BY <2>1 DEF OwnershipInv, Shape
  <2> QED BY <2>1, <2>2, SameTables
<1>2. ASSUME NEW c \in Conn, RemoveConnection(c) PROVE OwnershipInv'
  BY <1>2, DisconnectStep DEF RemoveConnection, Idle, runVars
<1>3. ASSUME NEW c \in Conn, CloseBanned(c) PROVE OwnershipInv'
  BY <1>3, DisconnectStep DEF CloseBanned
<1>4. ASSUME NEW c \in Conn, Choke(c) PROVE OwnershipInv'
  <2> DEFINE T == IF c \in FastConn THEN {} ELSE Owned(c)
  <2>1. /\ mode = "running" /\ Terminate(T)
        /\ UNCHANGED <<conn, planned, join, diagnosis, mode>>
    BY <1>4 DEF Choke, Idle, planVars, storeVars, runVars
  <2>2. T \in SUBSET active
    BY DEF Owned
  <2> HIDE DEF T
  <2> QED BY <2>1, <2>2, ReleaseStep
<1>5. ASSUME NEW c \in Conn, \/ Unchoke(c)
                             \/ \E P \in SUBSET Piece : SetAvailability(c, P)
                             \/ \E p \in Piece : PeerHas(c, p) \/ AllowedFast(c, p)
      PROVE  OwnershipInv'
  <2>1. /\ mode = "running"
        /\ UNCHANGED <<conn, planned, phase, attempts, active, nextId, indexVars, join, diagnosis, mode>>
    BY <1>5 DEF Unchoke, SetAvailability, PeerHas, AllowedFast, Idle, planVars, blockVars,
                storeVars, runVars
  <2>2. conn' \in [Conn -> {"new", "open", "closed"}]
    BY <2>1 DEF OwnershipInv, Shape
  <2> QED BY <2>1, <2>2, SameTables
<1>6. ASSUME NEW c \in Conn, NEW b \in Block, NEW content \in {"good", "bad"},
             ReceiveBlock(c, b, content)
      PROVE  OwnershipInv'
  BY <1>6, ReceiveStep
<1>7. ASSUME NEW a \in active, RejectRequest(a) PROVE OwnershipInv'
  <2>1. /\ mode = "running" /\ Terminate({a}) /\ {a} \in SUBSET active
        /\ UNCHANGED <<conn, planned, join, diagnosis, mode>>
    BY <1>7 DEF RejectRequest, Idle, planVars, storeVars, runVars
  <2> QED BY <2>1, ReleaseStep
<1> QED BY <1>1, <1>2, <1>3, <1>4, <1>5, <1>6, <1>7 DEF PeerNext

\* Planning, scheduling and the release of overdue or preempted requests.
LEMMA ScheduleStep ==
  ASSUME OwnershipInv, ScheduleNext
  PROVE  OwnershipInv'
<1>1. ASSUME NEW p \in Piece, PlanPiece(p) PROVE OwnershipInv'
  <2>1. mode = "running" /\ p \notin planned /\ Plan({p}, {})
    BY <1>1 DEF PlanPiece, Idle
  <2>2. /\ {p} \in SUBSET (Piece \ planned) /\ {} \in SUBSET planned
        /\ \A q \in {} : \A b \in BlocksOf(q) : phase[b] = "Missing"
    BY <2>1
  <2> QED BY <2>1, <2>2, PlanStep
<1>2. ASSUME NEW p \in Piece, NEW fits \in BOOLEAN, PlanForStreaming(p, fits) PROVE OwnershipInv'
  BY <1>2, PlanForStreamingStep
<1>3. ASSUME NEW c \in Conn, ScheduleActive(c) PROVE OwnershipInv'
  BY <1>3, ScheduleActiveStep
<1>4. ASSUME NEW c \in Conn, ScheduleEndgame(c) PROVE OwnershipInv'
  BY <1>4, ScheduleEndgameStep
<1>5. ASSUME NEW c \in Conn, NEW p \in Piece, ScheduleInactive(c, p) PROVE OwnershipInv'
  <2>1. /\ mode = "running" /\ IsOpen(c) /\ cursor[p] <= BlockCount[p]
        /\ AssignPrimary(c, <<p, cursor[p]>>, "Ordinary") /\ "Ordinary" \in Purposes
    BY <1>5 DEF ScheduleInactive, Eligible, Idle, Purposes
  <2> QED BY <2>1, AssignPrimaryStep
<1>6. ASSUME NEW c \in Conn, NEW p \in Piece, ScheduleStreaming(c, p) PROVE OwnershipInv'
  <2>1. /\ mode = "running" /\ IsOpen(c) /\ cursor[p] <= BlockCount[p]
        /\ AssignPrimary(c, <<p, cursor[p]>>, "StreamingPrimary") /\ "StreamingPrimary" \in Purposes
    BY <1>6 DEF ScheduleStreaming, Idle, Purposes
  <2> QED BY <2>1, AssignPrimaryStep
<1>7. ASSUME NEW c \in Conn, NEW b \in Block, ScheduleStreamingDuplicate(c, b) PROVE OwnershipInv'
  <2>1. /\ mode = "running" /\ IsOpen(c) /\ "StreamingDuplicate" \in Purposes
        /\ AssignDuplicate(c, b, "StreamingDuplicate")
    BY <1>7 DEF ScheduleStreamingDuplicate, Idle, Purposes
  <2> QED BY <2>1, AssignDuplicateStep
<1>8. ASSUME NEW T \in SUBSET active, ExpireRequests(T) PROVE OwnershipInv'
  <2>1. /\ mode = "running" /\ Terminate(T) /\ UNCHANGED <<conn, planned, join, diagnosis, mode>>
    BY <1>8 DEF ExpireRequests, Idle, connVars, planVars, storeVars, runVars
  <2> QED BY <2>1, ReleaseStep
<1> QED BY <1>1, <1>2, <1>3, <1>4, <1>5, <1>6, <1>7, <1>8 DEF ScheduleNext

\* The storage owner and the handlers of its completions.
LEMMA StorageStep ==
  ASSUME OwnershipInv, JobsNamed, StorageNext
  PROVE  OwnershipInv'
<1>1. ASSUME \/ \E w \in writes : ExecuteWrite(w)
             \/ \E h \in hashes : ExecuteHash(h)
      PROVE  OwnershipInv'
  <2>1. UNCHANGED <<conn, planned, phase, attempts, active, nextId, indexVars, join, diagnosis, mode>>
    BY <1>1 DEF ExecuteWrite, ExecuteHash, connVars, planVars, blockVars, runVars
  <2>2. /\ conn' \in [Conn -> {"new", "open", "closed"}]
        /\ mode' \in {"running", "stopping", "cancelled", "stopped"}
    BY <2>1 DEF OwnershipInv, Shape
  <2> QED BY <2>1, <2>2, SameTables
<1>2. ASSUME NEW r \in written, WriteStored(r) PROVE OwnershipInv'
  BY <1>2, WriteStoredStep DEF JobsNamed
<1>3. ASSUME NEW r \in written, WriteFailed(r) PROVE OwnershipInv'
  BY <1>3, WriteFailedStep DEF JobsNamed
<1>4. ASSUME NEW h \in hashed, Current(h)
      PROVE  /\ mode = "running" /\ h.piece \in Piece /\ join[h.piece].hash = "Running"
             /\ diagnosis # h.piece
  <2>1. mode = "running" /\ h.piece \in Piece /\ join[h.piece].hash = "Running"
    BY <1>4 DEF Current, Idle, OwnershipInv, Shape
  <2>2. h.piece # NoPiece
    BY <2>1, PieceAssumption
  <2> QED BY <2>1, <2>2 DEF OwnershipInv, Joined
<1>5. ASSUME NEW h \in hashed, PieceVerified(h) PROVE OwnershipInv'
  BY <1>5, PieceVerifiedStep
<1>6. ASSUME NEW h \in hashed, PieceHashFailed(h) PROVE OwnershipInv'
  <2> DEFINE p == h.piece
             bad == BlocksOf(p)
  <2>1. /\ Current(h) /\ ResetBlocks(p, bad) /\ UNCHANGED <<diagnosis, mode>>
    BY <1>6 DEF PieceHashFailed
  <2>2. mode = "running" /\ p \in Piece /\ join[p].hash = "Running" /\ diagnosis # p
    BY <1>4, <2>1
  <2> HIDE DEF p
  <2>3. bad \in SUBSET BlocksOf(p) /\ bad # {}
    BY <2>2, BlocksFinite
  <2> HIDE DEF bad
  <2> QED BY <2>1, <2>2, <2>3, ResetStep
<1>7. ASSUME NEW h \in hashed, BeginDiagnosis(h) PROVE OwnershipInv'
  <2> DEFINE p == h.piece
  <2>1. /\ Current(h) /\ diagnosis' = p /\ join' = [join EXCEPT ![p].hash = "Failed"]
        /\ UNCHANGED <<conn, planned, phase, attempts, active, nextId, indexVars, mode>>
    BY <1>7 DEF BeginDiagnosis, connVars, planVars, blockVars, runVars
  <2>2. mode = "running" /\ p \in Piece /\ join[p].hash = "Running" /\ "Failed" \in HashState
    BY <1>4, <2>1 DEF HashState
  <2> HIDE DEF p
  <2> QED BY <2>1, <2>2, HashEndedStep
<1>8. ASSUME NEW h \in hashed, HashFatal(h) PROVE OwnershipInv'
  <2> DEFINE p == h.piece
  <2>1. /\ Current(h) /\ mode' = "stopping"
        /\ \E state \in {"Running", "Passed", "Failed"} : join' = [join EXCEPT ![p].hash = state]
        /\ UNCHANGED <<conn, planned, phase, attempts, active, nextId, indexVars, diagnosis>>
    BY <1>8 DEF HashFatal, connVars, planVars, blockVars
  <2>2. mode = "running" /\ p \in Piece /\ join[p].hash = "Running"
    BY <1>4, <2>1
  <2> HIDE DEF p
  <2>3. PICK state \in HashState : join' = [join EXCEPT ![p].hash = state]
    BY <2>1 DEF HashState
  <2> QED BY <2>1, <2>2, <2>3, HashEndedStep
<1>9. ASSUME NEW bad \in SUBSET Block, FinishDiagnosis(bad) PROVE OwnershipInv'
  <2>1. /\ mode = "running" /\ diagnosis # NoPiece /\ bad # {} /\ bad \in SUBSET BlocksOf(diagnosis)
        /\ ResetBlocks(diagnosis, bad) /\ diagnosis' = NoPiece /\ mode' = mode
    BY <1>9 DEF FinishDiagnosis, Idle
  <2>2. diagnosis \in Piece /\ join[diagnosis].hash # "NotStarted"
    BY <2>1 DEF OwnershipInv, Shape, Joined
  <2> QED BY <2>1, <2>2, ResetStep
<1> QED BY <1>1, <1>2, <1>3, <1>5, <1>6, <1>7, <1>8, <1>9 DEF StorageNext

\* Selection changes and the end of the run.
LEMMA RunStep ==
  ASSUME OwnershipInv, RunNext
  PROVE  OwnershipInv'
<1>1. ASSUME NEW W, NEW lost, ReplaceWanted(W, lost) PROVE OwnershipInv'
  BY <1>1, ReplaceWantedStep
<1>2. ASSUME ReplacePriorities, diagnosis # NoPiece PROVE OwnershipInv'
  <2> DEFINE bad == BlocksOf(diagnosis)
  <2>1. /\ mode = "running" /\ ResetBlocks(diagnosis, bad) /\ diagnosis' = NoPiece /\ mode' = mode
    BY <1>2 DEF ReplacePriorities, Idle
  <2>2. diagnosis \in Piece /\ join[diagnosis].hash # "NotStarted"
    BY <1>2, <2>1 DEF OwnershipInv, Shape, Joined
  <2>3. bad \in SUBSET BlocksOf(diagnosis) /\ bad # {}
    BY <2>2, BlocksFinite
  <2> HIDE DEF bad
  <2> QED BY <2>1, <2>2, <2>3, ResetStep
<1>3. ASSUME (ReplacePriorities /\ diagnosis = NoPiece) \/ BeginStop \/ StopStorage \/ Stopped
      PROVE  OwnershipInv'
  <2>1. /\ UNCHANGED <<conn, planned, phase, attempts, active, nextId, indexVars, join, diagnosis>>
        /\ mode' = mode \/ (mode = "running" /\ mode' = "stopping") \/ mode' = "stopped"
    BY <1>3 DEF ReplacePriorities, BeginStop, StopStorage, Stopped, Idle, vars, connVars,
                planVars, blockVars, storeVars, runVars
  <2>2. /\ conn' \in [Conn -> {"new", "open", "closed"}]
        /\ mode' \in {"running", "stopping", "cancelled", "stopped"}
    BY <2>1 DEF OwnershipInv, Shape
  <2> QED BY <2>1, <2>2, SameTables
<1> QED BY <1>1, <1>2, <1>3, CancelStep DEF RunNext

\* Write jobs are made by received blocks, and completions by write jobs.
LEMMA JobsStep ==
  ASSUME JobsNamed, [Next]_vars
  PROVE  JobsNamed'
<1> USE DEF JobsNamed
<1>1. ASSUME writes' \subseteq writes, written' \subseteq written PROVE JobsNamed'
  BY <1>1
<1>2. ASSUME PeerNext PROVE JobsNamed'
  <2>1. ASSUME NEW c \in Conn, NEW b \in Block, NEW content, ReceiveBlock(c, b, content)
        PROVE  JobsNamed'
    <3>1. /\ written' = written
          /\ writes' = writes \cup
               {[block |-> b, generation |-> join[b[1]].generation, content |-> content]}
      BY <2>1 DEF ReceiveBlock
    <3> QED BY <3>1
  <2>2. ASSUME NEW c \in Conn, Disconnect(c) \/ Choke(c) PROVE JobsNamed'
    BY <1>1, <2>2 DEF Disconnect, Choke, storeVars, jobVars
  <2>3. ASSUME NEW c \in Conn, \/ AddConnection(c) \/ Unchoke(c)
                               \/ \E P \in SUBSET Piece : SetAvailability(c, P)
                               \/ \E p \in Piece : PeerHas(c, p) \/ AllowedFast(c, p)
        PROVE  JobsNamed'
    BY <1>1, <2>3 DEF AddConnection, Unchoke, SetAvailability, PeerHas, AllowedFast, storeVars, jobVars
  <2>4. ASSUME NEW a \in active, RejectRequest(a) PROVE JobsNamed'
    BY <1>1, <2>4 DEF RejectRequest, storeVars, jobVars
  <2> QED BY <1>2, <2>1, <2>2, <2>3, <2>4 DEF PeerNext, RemoveConnection, CloseBanned
<1>3. ASSUME ScheduleNext PROVE JobsNamed'
  <2>1. ASSUME NEW P, NEW Q, Plan(P, Q) PROVE JobsNamed'
    BY <1>1, <2>1 DEF Plan, storeVars, jobVars
  <2>2. ASSUME NEW c, NEW b, NEW purpose, Assign(c, b, purpose) PROVE JobsNamed'
    BY <1>1, <2>2 DEF Assign, storeVars, jobVars
  <2>3. ASSUME NEW c, NEW b, NEW purpose,
               AssignPrimary(c, b, purpose) \/ AssignDuplicate(c, b, purpose)
        PROVE  JobsNamed'
    BY <2>2, <2>3 DEF AssignPrimary, AssignDuplicate
  <2>4. ASSUME NEW p, PlanPiece(p) \/ \E fits \in BOOLEAN : PlanForStreaming(p, fits) PROVE JobsNamed'
    BY <2>1, <2>4 DEF PlanPiece, PlanForStreaming
  <2>5. ASSUME NEW c, \/ ScheduleActive(c) \/ ScheduleEndgame(c)
                      \/ \E p \in Piece : ScheduleInactive(c, p) \/ ScheduleStreaming(c, p)
                      \/ \E b \in Block : ScheduleStreamingDuplicate(c, b)
        PROVE  JobsNamed'
    BY <2>3, <2>5 DEF ScheduleActive, ScheduleEndgame, ScheduleInactive, ScheduleStreaming,
                      ScheduleStreamingDuplicate
  <2>6. ASSUME \E T \in SUBSET active : ExpireRequests(T)
        PROVE  JobsNamed'
    BY <1>1, <2>6 DEF ExpireRequests, storeVars, jobVars
  <2> QED BY <1>3, <2>4, <2>5, <2>6 DEF ScheduleNext
<1>4. ASSUME StorageNext PROVE JobsNamed'
  <2>1. ASSUME NEW w \in writes, ExecuteWrite(w) PROVE JobsNamed'
    <3>1. /\ writes' \subseteq writes
          /\ \A r \in written' : r \in written \/ r.block = w.block
      BY <2>1 DEF ExecuteWrite
    <3> QED BY <3>1
  <2>2. ASSUME NEW r \in written, WriteStored(r) \/ WriteFailed(r) PROVE JobsNamed'
    BY <1>1, <2>2 DEF WriteStored, WriteFailed
  <2>3. ASSUME NEW h, ExecuteHash(h) \/ PieceVerified(h) \/ BeginDiagnosis(h) \/ HashFatal(h)
        PROVE  JobsNamed'
    BY <1>1, <2>3 DEF ExecuteHash, PieceVerified, BeginDiagnosis, HashFatal
  <2>4. ASSUME NEW p, NEW bad, ResetBlocks(p, bad) PROVE JobsNamed'
    BY <1>1, <2>4 DEF ResetBlocks
  <2> QED BY <1>4, <2>1, <2>2, <2>3, <2>4 DEF StorageNext, PieceHashFailed, FinishDiagnosis
<1>5. ASSUME RunNext PROVE JobsNamed'
  <2>1. ASSUME NEW W, NEW lost, ReplaceWanted(W, lost) PROVE JobsNamed'
    BY <1>1, <2>1 DEF ReplaceWanted
  <2>2. ASSUME ReplacePriorities PROVE JobsNamed'
    BY <1>1, <2>2 DEF ReplacePriorities, ResetBlocks, storeVars, jobVars
  <2>3. ASSUME BeginStop \/ CancelAll \/ StopStorage \/ Stopped PROVE JobsNamed'
    BY <1>1, <2>3 DEF BeginStop, CancelAll, StopStorage, Stopped, vars, storeVars, jobVars
  <2> QED BY <1>5, <2>1, <2>2, <2>3 DEF RunNext
<1>6. ASSUME UNCHANGED vars PROVE JobsNamed'
  BY <1>6 DEF vars, storeVars, jobVars
<1> QED BY <1>2, <1>3, <1>4, <1>5, <1>6 DEF Next

\* A step that changes nothing keeps the invariant.
LEMMA StutterStep ==
  ASSUME OwnershipInv, UNCHANGED vars
  PROVE  OwnershipInv'
<1>1. UNCHANGED <<conn, planned, phase, attempts, active, nextId, indexVars, join, diagnosis, mode>>
  BY DEF vars, connVars, planVars, blockVars, storeVars, runVars
<1>2. /\ conn' \in [Conn -> {"new", "open", "closed"}]
      /\ mode' \in {"running", "stopping", "cancelled", "stopped"}
  BY <1>1 DEF OwnershipInv, Shape
<1> QED BY <1>1, <1>2, SameTables

\* The swarm's invariant holds in every reachable state.
THEOREM OwnershipInvariant == Spec => [](OwnershipInv /\ JobsNamed)
<1>1. Init => OwnershipInv /\ JobsNamed
  BY OwnershipInit DEF Init, JobsNamed
<1>2. OwnershipInv /\ JobsNamed /\ [Next]_vars => (OwnershipInv /\ JobsNamed)'
  <2> SUFFICES ASSUME OwnershipInv, JobsNamed, [Next]_vars PROVE OwnershipInv' /\ JobsNamed'
    OBVIOUS
  <2>1. OwnershipInv'
    BY PeerStep, ScheduleStep, StorageStep, RunStep, StutterStep DEF Next
  <2> QED BY <2>1, JobsStep
<1> QED BY <1>1, <1>2, PTL DEF Spec

\* Every outstanding request has exactly one owner (swarm.rs active_attempts and the
\* attempts kept by the blocks), for any number of peers, pieces and blocks and
\* any limits.
THEOREM RequestOwnershipHolds == Spec => []RequestOwnership
<1>1. OwnershipInv => RequestOwnership
  BY DEF OwnershipInv
<1> QED BY <1>1, OwnershipInvariant, PTL

\* The scheduler's indexes (active pieces, first missing block, next request) are
\* exact until the run is torn down, for any number of peers, pieces and blocks.
THEOREM IndexesExactHolds == Spec => []IndexesExact
<1>1. ASSUME OwnershipInv, mode \in {"running", "stopping"}, NEW p \in Piece
      PROVE  LET missing == {b[2] : b \in InPhase({"Missing"}) \cap BlocksOf(p)}
                 first == IF missing = {} THEN BlockCount[p] + 1 ELSE Min(missing)
                 busy == pieceActive[p] # 0
             IN /\ (p \in activePieces) = busy
                /\ cursor[p] = first
                /\ requestable[p] = IF busy /\ missing # {} THEN first ELSE 0
  <2> DEFINE missing == {b[2] : b \in InPhase({"Missing"}) \cap BlocksOf(p)}
             first == IF missing = {} THEN BlockCount[p] + 1 ELSE Min(missing)
             busy == pieceActive[p] # 0
  <2>1. PieceIndexed(p)
    BY <1>1 DEF OwnershipInv, Indexed
  <2>2. InPhase({"Missing"}) \cap BlocksOf(p) = MissingOf(p)
    BY BlockFacts DEF InPhase, MissingOf, InPiece
  <2>3. busy <=> BusyOf(p) # {}
    <3>1. IsFiniteSet(BusyOf(p))
      BY InPieceFinite DEF BusyOf
    <3>2. BusyOf(p) = {} <=> Cardinality(BusyOf(p)) = 0
      BY <3>1, FS_EmptySet
    <3> QED BY <2>1, <3>2 DEF PieceIndexed
  <2>4. missing = {b[2] : b \in MissingOf(p)}
    BY <2>2
  <2>5. cursor[p] = first
    <3>1. cursor[p] \in 1 .. (BlockCount[p] + 1) /\ BlockCount[p] \in Nat
      BY <2>1, BlocksFinite DEF PieceIndexed
    <3>2. cursor[p] <= BlockCount[p] <=> MissingOf(p) # {}
      BY <2>1, CursorFacts
    <3>3. CASE MissingOf(p) = {}
      <4>1. missing = {}
        BY <2>4, <3>3
      <4> QED BY <3>1, <3>2, <3>3, <4>1
    <3>4. CASE MissingOf(p) # {}
      <4>1. <<p, cursor[p]>> \in MissingOf(p) /\ \A b \in MissingOf(p) : cursor[p] <= b[2]
        BY <2>1, <3>2, <3>4 DEF PieceIndexed
      <4>2. cursor[p] \in missing /\ \A y \in missing : cursor[p] <= y
        <5>1. <<p, cursor[p]>>[2] = cursor[p]
          OBVIOUS
        <5> HIDE DEF missing
        <5> QED BY <2>4, <4>1, <5>1
      <4>3. missing \in SUBSET Nat
        <5>1. \A b \in MissingOf(p) : b[2] \in Nat
          BY BlockFacts DEF MissingOf, InPiece
        <5> HIDE DEF missing
        <5> QED BY <2>4, <5>1
      <4> HIDE DEF missing
      <4>4. Min(missing) \in missing /\ \A y \in missing : Min(missing) <= y
        BY <4>2, <4>3, MinOfNaturals
      <4> DEFINE m == Min(missing)
      <4>5. m \in Nat /\ cursor[p] \in Nat /\ m <= cursor[p] /\ cursor[p] <= m
        <5> HIDE DEF m
        <5>1. m \in missing /\ \A y \in missing : m <= y
          BY <4>4 DEF m
        <5> QED BY <4>2, <4>3, <5>1
      <4>6. cursor[p] = m
        <5> HIDE DEF m
        <5> QED BY <4>5
      <4>7. missing # {}
        BY <4>2
      <4> QED BY <4>6, <4>7, Zenon
    <3> QED BY <3>3, <3>4
  <2>6. missing = {} <=> MissingOf(p) = {}
    BY <2>4
  <2> HIDE DEF missing, first, busy
  <2>7. (p \in activePieces) = busy
    BY <2>1, <2>3 DEF PieceIndexed, busy
  <2>8. requestable[p] = IF busy /\ missing # {} THEN first ELSE 0
    BY <2>1, <2>3, <2>5, <2>6 DEF PieceIndexed
  <2> QED BY <2>5, <2>7, <2>8 DEF missing, first, busy
<1>2. OwnershipInv => IndexesExact
  BY <1>1 DEF IndexesExact
<1> QED BY <1>2, OwnershipInvariant, PTL

-----------------------------------------------------------------------------
(* Type correctness: the types of the request tables are part of Shape;    *)
(* the rest, part by part, are those of the peers' view, the counters, the  *)
(* senders and the storage jobs.                                            *)

PeerTypes ==
  /\ choking \in [Conn -> BOOLEAN] /\ initial \in [Conn -> BOOLEAN]
  /\ avail \in [Conn -> SUBSET Piece] /\ allowedFast \in [Conn -> SUBSET Piece]
PieceTypes == wanted \subseteq Piece /\ have \subseteq Piece /\ revision \in Nat
\* the histories are finite, so that a block has a latest attempt of a connection
SenderTypes ==
  /\ source \in [Block -> Conn \cup {NoConn}] /\ evidence \in [Block -> Nat]
  /\ \A b \in Block : IsFiniteSet(attempts[b])
LedgerTypes ==
  /\ requests \in [Conn -> Int] /\ contributions \in [Conn -> Int]
  /\ count \in [Status -> Int] /\ outstanding \in Int /\ IsFiniteSet(active)
RouteTypes == routes \subseteq Conn /\ banned \subseteq Conn
JobTypes ==
  /\ writes \subseteq [block : Block, generation : Nat, content : Content]
  /\ written \subseteq [block : Block, generation : Nat, ok : BOOLEAN]
  /\ hashes \subseteq [piece : Piece, generation : Nat]
  /\ hashed \subseteq [piece : Piece, generation : Nat, ok : BOOLEAN]
  /\ disk \in [Block -> Content]

-----------------------------------------------------------------------------
(* Finite sets. *)

\* The image of a finite set is finite.
LEMMA ImageFinite ==
  ASSUME NEW S, IsFiniteSet(S), NEW f, NEW T, T = {f[x] : x \in S}
  PROVE  IsFiniteSet(T)
<1> DEFINE g == [x \in S |-> f[x]]
<1>1. g \in [S -> T] /\ \A t \in T : \E x \in S : g[x] = t
  OBVIOUS
<1>2. g \in Surjection(S, T)
  <2> HIDE DEF g
  <2> QED BY <1>1, Fun_IsSurj
<1> HIDE DEF g
<1> QED BY <1>2, FS_Surjection

\* A torrent has finitely many blocks, and so has every set of them.
LEMMA BlockFinite ==
  IsFiniteSet(Block) /\ \A B \in SUBSET Block : IsFiniteSet(B) /\ Cardinality(B) \in Nat
<1> DEFINE f == [p \in Piece |-> BlocksOf(p)]
           all == {BlocksOf(p) : p \in Piece}
<1>1. all = {f[p] : p \in Piece}
  OBVIOUS
<1>2. \A T \in all : IsFiniteSet(T)
  BY BlocksFinite
<1>3. IsFiniteSet(all)
  <2> HIDE DEF f, all
  <2> QED BY <1>1, PieceAssumption, ImageFinite
<1>4. IsFiniteSet(Block)
  <2>1. Block = UNION all
    BY DEF Block
  <2> HIDE DEF all
  <2> QED BY <1>2, <1>3, <2>1, FS_UNION
<1> QED BY <1>4, FS_Subset, FS_CardinalityType

\* The attempts that a block retains once requests have ended are finitely many.
LEMMA EndedFinite ==
  ASSUME NEW b \in Block, NEW T, IsFiniteSet(attempts[b])
  PROVE  IsFiniteSet(Ended(b, T))
<1> DEFINE f == [r \in attempts[b] |-> IF \E a \in T : a.id = r.id
                                       THEN [r EXCEPT !.disposition = "Released"] ELSE r]
           all == {IF \E a \in T : a.id = r.id
                   THEN [r EXCEPT !.disposition = "Released"] ELSE r : r \in attempts[b]}
<1>1. all = {f[r] : r \in attempts[b]}
  OBVIOUS
<1>2. Ended(b, T) = Trim(all, MaxTerminal, 0) \/ Ended(b, T) = attempts[b]
  BY DEF Ended
<1> HIDE DEF f, all
<1>3. IsFiniteSet(all)
  BY <1>1, ImageFinite
<1>4. Trim(all, MaxTerminal, 0) \in SUBSET all
  BY TrimFacts
<1> QED BY <1>2, <1>3, <1>4, FS_Subset

\* The latest attempt of a connection that has one is among the retained ones.
LEMMA LatestFacts ==
  ASSUME Shape, NEW b \in Block, NEW c, IsFiniteSet(attempts[b]), From(b, c) # {}
  PROVE  /\ LatestFrom(b, c) \in attempts[b] /\ LatestFrom(b, c).id \in Nat
         /\ LatestFrom(b, c).conn = c
<1> DEFINE f == [r \in From(b, c) |-> r.id]
           ids == {r.id : r \in From(b, c)}
<1>1. From(b, c) \in SUBSET attempts[b] /\ \A r \in From(b, c) : r.id \in Nat
  BY DEF From, Shape, AttemptRecord
<1>2. IsFiniteSet(From(b, c))
  BY <1>1, FS_Subset
<1>3. ids = {f[r] : r \in From(b, c)}
  OBVIOUS
<1>4. IsFiniteSet(ids)
  <2> HIDE DEF f, ids
  <2> QED BY <1>2, <1>3, ImageFinite
<1>5. ids \in SUBSET Nat /\ ids # {}
  BY <1>1
<1>6. Max(ids) \in ids /\ \A y \in ids : y <= Max(ids)
  <2> HIDE DEF ids
  <2> QED BY <1>4, <1>5, MaxOfNaturals
<1>7. PICK r \in From(b, c) : \A s \in From(b, c) : s.id <= r.id
  <2> DEFINE m == Max(ids)
  <2>1. m \in ids /\ \A s \in From(b, c) : s.id <= m
    BY <1>6
  <2> HIDE DEF m
  <2> QED BY <2>1
<1>8. LatestFrom(b, c) \in From(b, c)
  BY <1>7 DEF LatestFrom
<1> QED BY <1>1, <1>8 DEF From

-----------------------------------------------------------------------------
(* Each part is kept by every step. *)

\* What peers announced is changed by their messages and by their departure.
LEMMA PeerTypesStep ==
  ASSUME PeerTypes, [Next]_vars
  PROVE  PeerTypes'
<1> USE DEF PeerTypes
<1>1. ASSUME UNCHANGED <<choking, initial, avail, allowedFast>> PROVE PeerTypes'
  BY <1>1
<1>2. ASSUME PeerNext PROVE PeerTypes'
  <2>1. ASSUME NEW c \in Conn, AddConnection(c) \/ Disconnect(c) \/ Choke(c) \/ Unchoke(c)
        PROVE  PeerTypes'
    BY <2>1 DEF AddConnection, Disconnect, Choke, Unchoke
  <2>2. ASSUME NEW c \in Conn, NEW P \in SUBSET Piece, SetAvailability(c, P) PROVE PeerTypes'
    <3> DEFINE fast == c \in FastConn
    <3>1. fast \in BOOLEAN /\ initial' = [initial EXCEPT ![c] = fast]
      BY <2>2 DEF SetAvailability
    <3>2. initial' \in [Conn -> BOOLEAN]
      <4> HIDE DEF fast
      <4> QED BY <3>1
    <3> QED BY <2>2, <3>2 DEF SetAvailability
  <2>3. ASSUME NEW c \in Conn, NEW p \in Piece, PeerHas(c, p) \/ AllowedFast(c, p) PROVE PeerTypes'
    BY <2>3 DEF PeerHas, AllowedFast
  <2>4. ASSUME NEW c, NEW b, NEW content, ReceiveBlock(c, b, content) PROVE PeerTypes'
    BY <1>1, <2>4 DEF ReceiveBlock, connVars
  <2>5. ASSUME NEW a \in active, RejectRequest(a) PROVE PeerTypes'
    BY <2>5 DEF RejectRequest
  <2> QED BY <1>2, <2>1, <2>2, <2>3, <2>4, <2>5 DEF PeerNext, RemoveConnection, CloseBanned
<1>3. ASSUME ScheduleNext PROVE PeerTypes'
  <2>1. ASSUME NEW P, NEW Q, Plan(P, Q) PROVE PeerTypes'
    BY <1>1, <2>1 DEF Plan, connVars
  <2>2. ASSUME NEW c, NEW b, NEW purpose, Assign(c, b, purpose) PROVE PeerTypes'
    BY <1>1, <2>2 DEF Assign, connVars
  <2>3. ASSUME NEW c, NEW b, NEW purpose,
               AssignPrimary(c, b, purpose) \/ AssignDuplicate(c, b, purpose)
        PROVE  PeerTypes'
    BY <2>2, <2>3 DEF AssignPrimary, AssignDuplicate
  <2>4. ASSUME NEW p, PlanPiece(p) \/ \E fits \in BOOLEAN : PlanForStreaming(p, fits) PROVE PeerTypes'
    BY <2>1, <2>4 DEF PlanPiece, PlanForStreaming
  <2>5. ASSUME NEW c, \/ ScheduleActive(c) \/ ScheduleEndgame(c)
                      \/ \E p \in Piece : ScheduleInactive(c, p) \/ ScheduleStreaming(c, p)
                      \/ \E b \in Block : ScheduleStreamingDuplicate(c, b)
        PROVE  PeerTypes'
    BY <2>3, <2>5 DEF ScheduleActive, ScheduleEndgame, ScheduleInactive, ScheduleStreaming,
                      ScheduleStreamingDuplicate
  <2>6. ASSUME \E T \in SUBSET active : ExpireRequests(T)
        PROVE  PeerTypes'
    BY <1>1, <2>6 DEF ExpireRequests, connVars
  <2> QED BY <1>3, <2>4, <2>5, <2>6 DEF ScheduleNext
<1>4. ASSUME StorageNext PROVE PeerTypes'
  <2>1. ASSUME NEW r, ExecuteWrite(r) \/ ExecuteHash(r) \/ WriteStored(r) \/ WriteFailed(r)
                      \/ PieceVerified(r) \/ PieceHashFailed(r) \/ BeginDiagnosis(r)
                      \/ HashFatal(r) \/ FinishDiagnosis(r)
        PROVE  PeerTypes'
    BY <1>1, <2>1 DEF ExecuteWrite, ExecuteHash, WriteStored, WriteFailed, PieceVerified,
                      PieceHashFailed, ResetBlocks, BeginDiagnosis, HashFatal, FinishDiagnosis, connVars
  <2> QED BY <1>4, <2>1 DEF StorageNext
<1>5. ASSUME RunNext PROVE PeerTypes'
  BY <1>1, <1>5 DEF RunNext, ReplaceWanted, Kept, ReplacePriorities, ResetBlocks, BeginStop, CancelAll,
                    StopStorage, Stopped, vars, connVars
<1>6. ASSUME UNCHANGED vars PROVE PeerTypes'
  BY <1>1, <1>6 DEF vars, connVars
<1> QED BY <1>2, <1>3, <1>4, <1>5, <1>6 DEF Next

\* Pieces are wanted, and published, out of the pieces of the torrent.
LEMMA PieceTypesStep ==
  ASSUME OwnershipInv, PieceTypes, [Next]_vars
  PROVE  PieceTypes'
<1> USE DEF PieceTypes
<1>1. ASSUME UNCHANGED <<wanted, have, revision>> PROVE PieceTypes'
  BY <1>1
<1>2. ASSUME PeerNext PROVE PieceTypes'
  <2>1. ASSUME NEW c, RemoveConnection(c) \/ CloseBanned(c) PROVE PieceTypes'
    BY <1>1, <2>1 DEF RemoveConnection, CloseBanned, Disconnect, planVars, storeVars, runVars
  <2>2. ASSUME NEW c, AddConnection(c) \/ Choke(c) \/ Unchoke(c) \/ RejectRequest(c) PROVE PieceTypes'
    BY <1>1, <2>2 DEF AddConnection, Choke, Unchoke, RejectRequest, planVars, storeVars, runVars
  <2>3. ASSUME NEW c, NEW x, SetAvailability(c, x) \/ PeerHas(c, x) \/ AllowedFast(c, x)
        PROVE  PieceTypes'
    BY <1>1, <2>3 DEF SetAvailability, PeerHas, AllowedFast, planVars, storeVars, runVars
  <2>4. ASSUME NEW c, NEW b, NEW content, ReceiveBlock(c, b, content) PROVE PieceTypes'
    BY <1>1, <2>4 DEF ReceiveBlock, planVars, runVars
  <2> QED BY <1>2, <2>1, <2>2, <2>3, <2>4 DEF PeerNext
<1>3. ASSUME ScheduleNext PROVE PieceTypes'
  <2>1. ASSUME NEW P, NEW Q, Plan(P, Q) PROVE PieceTypes'
    BY <1>1, <2>1 DEF Plan, storeVars, runVars
  <2>2. ASSUME NEW c, NEW b, NEW purpose, Assign(c, b, purpose) PROVE PieceTypes'
    BY <1>1, <2>2 DEF Assign, planVars, storeVars, runVars
  <2>3. ASSUME NEW c, NEW b, NEW purpose,
               AssignPrimary(c, b, purpose) \/ AssignDuplicate(c, b, purpose)
        PROVE  PieceTypes'
    BY <2>2, <2>3 DEF AssignPrimary, AssignDuplicate
  <2>4. ASSUME NEW p, PlanPiece(p) \/ \E fits \in BOOLEAN : PlanForStreaming(p, fits) PROVE PieceTypes'
    BY <2>1, <2>4 DEF PlanPiece, PlanForStreaming
  <2>5. ASSUME NEW c, \/ ScheduleActive(c) \/ ScheduleEndgame(c)
                      \/ \E p \in Piece : ScheduleInactive(c, p) \/ ScheduleStreaming(c, p)
                      \/ \E b \in Block : ScheduleStreamingDuplicate(c, b)
        PROVE  PieceTypes'
    BY <2>3, <2>5 DEF ScheduleActive, ScheduleEndgame, ScheduleInactive, ScheduleStreaming,
                      ScheduleStreamingDuplicate
  <2>6. ASSUME \E T \in SUBSET active : ExpireRequests(T)
        PROVE  PieceTypes'
    BY <1>1, <2>6 DEF ExpireRequests, planVars, storeVars, runVars
  <2> QED BY <1>3, <2>4, <2>5, <2>6 DEF ScheduleNext
<1>4. ASSUME StorageNext PROVE PieceTypes'
  <2>1. ASSUME NEW h, PieceVerified(h) PROVE PieceTypes'
    <3>1. h.piece \in Piece
      BY <2>1 DEF PieceVerified, Current, OwnershipInv, Shape
    <3> QED BY <2>1, <3>1 DEF PieceVerified, runVars
  <2>2. ASSUME NEW r, ExecuteWrite(r) \/ ExecuteHash(r) \/ WriteStored(r) \/ WriteFailed(r)
                      \/ PieceHashFailed(r) \/ BeginDiagnosis(r) \/ HashFatal(r) \/ FinishDiagnosis(r)
        PROVE  PieceTypes'
    BY <1>1, <2>2 DEF ExecuteWrite, ExecuteHash, WriteStored, WriteFailed, PieceHashFailed,
                      ResetBlocks, BeginDiagnosis, HashFatal, FinishDiagnosis, planVars, runVars
  <2> QED BY <1>4, <2>1, <2>2 DEF StorageNext
<1>5. ASSUME RunNext PROVE PieceTypes'
  <2>1. ASSUME NEW W \in SUBSET Piece, NEW lost, ReplaceWanted(W, lost) PROVE PieceTypes'
    BY <2>1 DEF ReplaceWanted, Kept
  <2>2. ASSUME ReplacePriorities PROVE PieceTypes'
    BY <2>2 DEF ReplacePriorities, ResetBlocks, planVars, storeVars
  <2>3. ASSUME BeginStop \/ CancelAll \/ StopStorage \/ Stopped PROVE PieceTypes'
    BY <1>1, <2>3 DEF BeginStop, CancelAll, StopStorage, Stopped, vars, planVars, storeVars, runVars
  <2> QED BY <1>5, <2>1, <2>2, <2>3 DEF RunNext
<1>6. ASSUME UNCHANGED vars PROVE PieceTypes'
  BY <1>1, <1>6 DEF vars, planVars, storeVars, runVars
<1> QED BY <1>2, <1>3, <1>4, <1>5, <1>6 DEF Next

\* Senders and evidence are set by an accepted payload and cleared with it.
LEMMA SenderTypesStep ==
  ASSUME OwnershipInv, SenderTypes, JobsNamed, [Next]_vars
  PROVE  SenderTypes'
<1> USE DEF SenderTypes
<1>1. ASSUME UNCHANGED <<source, evidence, attempts>> PROVE SenderTypes'
  BY <1>1
<1>2. ASSUME NEW T, Terminate(T) PROVE SenderTypes'
  BY <1>2, EndedFinite DEF Terminate
<1>3. ASSUME NEW b \in Block, NEW A, A \subseteq attempts[b], attempts' = [attempts EXCEPT ![b] = A]
      PROVE  \A d \in Block : IsFiniteSet(attempts'[d])
  <2>1. A \in SUBSET attempts[b] /\ IsFiniteSet(attempts[b])
    BY <1>3
  <2>2. IsFiniteSet(A)
    BY <2>1, FS_Subset
  <2> QED BY <1>3, <2>2 DEF OwnershipInv, Shape
<1>4. ASSUME PeerNext PROVE SenderTypes'
  <2>1. ASSUME NEW c \in Conn, NEW b \in Block, NEW content, ReceiveBlock(c, b, content)
        PROVE  SenderTypes'
    <3> DEFINE e == LatestFrom(b, c)
               settle(r) == IF r.id = e.id THEN [r EXCEPT !.disposition = "PayloadReceived"]
                            ELSE IF IsActive(r) THEN [r EXCEPT !.disposition = "Released"]
                            ELSE r
               f == [r \in attempts[b] |-> settle(r)]
               all == {settle(r) : r \in attempts[b]}
               A == Trim(all, MaxTerminal, e.id)
    <3>1. /\ attempts' = [attempts EXCEPT ![b] = A] /\ evidence' = [evidence EXCEPT ![b] = e.id]
          /\ source' = [source EXCEPT ![b] = c] /\ From(b, c) # {}
      BY <2>1 DEF ReceiveBlock
    <3>2. e.id \in Nat
      BY <3>1, LatestFacts DEF OwnershipInv
    <3>3. all = {f[r] : r \in attempts[b]}
      <4> HIDE DEF settle
      <4> QED OBVIOUS
    <3>4. IsFiniteSet(all)
      <4> HIDE DEF f, all
      <4> QED BY <3>3, ImageFinite
    <3>5. IsFiniteSet(A)
      <4> HIDE DEF all, e
      <4>1. A \in SUBSET all
        BY TrimFacts
      <4> HIDE DEF A
      <4> QED BY <3>4, <4>1, FS_Subset
    <3> HIDE DEF A, e
    <3>6. \A d \in Block : IsFiniteSet(attempts'[d])
      BY <3>1, <3>5 DEF OwnershipInv, Shape
    <3> QED BY <3>1, <3>2, <3>6
  <2>2. ASSUME NEW c, Disconnect(c) \/ Choke(c) \/ RejectRequest(c) PROVE SenderTypes'
    BY <1>2, <2>2 DEF Disconnect, Choke, RejectRequest
  <2>3. ASSUME NEW c, NEW x, AddConnection(c) \/ Unchoke(c) \/ SetAvailability(c, x)
                             \/ PeerHas(c, x) \/ AllowedFast(c, x)
        PROVE  SenderTypes'
    BY <1>1, <2>3 DEF AddConnection, Unchoke, SetAvailability, PeerHas, AllowedFast, blockVars
  <2> QED BY <1>4, <2>1, <2>2, <2>3 DEF PeerNext, RemoveConnection, CloseBanned
<1>5. ASSUME ScheduleNext PROVE SenderTypes'
  <2>1. ASSUME NEW P, NEW Q, Plan(P, Q) PROVE SenderTypes'
    <3>1. /\ UNCHANGED <<source, evidence>>
          /\ \A b \in Block : attempts'[b] = {} \/ attempts'[b] = attempts[b]
      BY <2>1 DEF Plan
    <3> QED BY <3>1, FS_EmptySet
  <2>2. ASSUME NEW c, NEW b, NEW purpose, Assign(c, b, purpose) PROVE SenderTypes'
    <3> DEFINE r0 == [id |-> nextId, conn |-> c, disposition |-> "Requested"]
               A == Trim(attempts[b], MaxTerminal - 1, 0)
    <3>1. UNCHANGED <<source, evidence>> /\ attempts' = [attempts EXCEPT ![b] = A \cup {r0}]
      BY <2>2 DEF Assign
    <3>2. A \in SUBSET attempts[b]
      BY TrimFacts
    <3> HIDE DEF A, r0
    <3>3. CASE b \in Block
      <4>1. IsFiniteSet(A \cup {r0})
        BY <3>2, <3>3, FS_Subset, FS_AddElement
      <4>2. \A d \in Block : attempts'[d] = A \cup {r0} \/ attempts'[d] = attempts[d]
        BY <3>1 DEF OwnershipInv, Shape
      <4> QED BY <3>1, <4>1, <4>2
    <3>4. CASE b \notin Block
      BY <3>1, <3>4 DEF OwnershipInv, Shape
    <3> QED BY <3>3, <3>4
  <2>3. ASSUME NEW c, NEW b, NEW purpose,
               AssignPrimary(c, b, purpose) \/ AssignDuplicate(c, b, purpose)
        PROVE  SenderTypes'
    BY <2>2, <2>3 DEF AssignPrimary, AssignDuplicate
  <2>4. ASSUME NEW p, PlanPiece(p) \/ \E fits \in BOOLEAN : PlanForStreaming(p, fits) PROVE SenderTypes'
    BY <2>1, <2>4 DEF PlanPiece, PlanForStreaming
  <2>5. ASSUME NEW c, \/ ScheduleActive(c) \/ ScheduleEndgame(c)
                      \/ \E p \in Piece : ScheduleInactive(c, p) \/ ScheduleStreaming(c, p)
                      \/ \E b \in Block : ScheduleStreamingDuplicate(c, b)
        PROVE  SenderTypes'
    BY <2>3, <2>5 DEF ScheduleActive, ScheduleEndgame, ScheduleInactive, ScheduleStreaming,
                      ScheduleStreamingDuplicate
  <2>6. ASSUME \E T \in SUBSET active : ExpireRequests(T)
        PROVE  SenderTypes'
    BY <1>2, <2>6 DEF ExpireRequests
  <2> QED BY <1>5, <2>4, <2>5, <2>6 DEF ScheduleNext
<1>6. ASSUME NEW p, NEW bad, ResetBlocks(p, bad) PROVE SenderTypes'
  BY <1>6 DEF ResetBlocks
<1>7. ASSUME StorageNext PROVE SenderTypes'
  <2>1. ASSUME NEW r \in written, WriteStored(r) \/ WriteFailed(r) PROVE SenderTypes'
    <3> DEFINE b == r.block
               A == Trim(attempts[b], MaxTerminal, evidence[b])
               B == Trim(attempts[b], MaxTerminal, 0)
    <3>1. A \subseteq attempts[b] /\ B \subseteq attempts[b] /\ b \in Block
      BY TrimFacts DEF JobsNamed
    <3>2. /\ attempts' = [attempts EXCEPT ![b] = A] \/ attempts' = [attempts EXCEPT ![b] = B]
          /\ source' = source \/ source' = [source EXCEPT ![b] = NoConn]
          /\ evidence' = evidence \/ evidence' = [evidence EXCEPT ![b] = 0]
      BY <2>1 DEF WriteStored, WriteFailed
    <3> HIDE DEF A, B, b
    <3>3. \A d \in Block : IsFiniteSet(attempts'[d])
      BY <1>3, <3>1, <3>2
    <3>4. source' \in [Block -> Conn \cup {NoConn}] /\ evidence' \in [Block -> Nat]
      BY <3>2
    <3> QED BY <3>3, <3>4
  <2>2. ASSUME NEW h, PieceVerified(h) PROVE SenderTypes'
    <3>1. /\ source' \in [Block -> Conn \cup {NoConn}] /\ evidence' \in [Block -> Nat]
          /\ \A b \in Block : attempts'[b] = {} \/ attempts'[b] = attempts[b]
      BY <2>2 DEF PieceVerified
    <3> QED BY <3>1, FS_EmptySet
  <2>3. ASSUME NEW r, ExecuteWrite(r) \/ ExecuteHash(r) \/ BeginDiagnosis(r) \/ HashFatal(r)
        PROVE  SenderTypes'
    BY <1>1, <2>3 DEF ExecuteWrite, ExecuteHash, BeginDiagnosis, HashFatal, blockVars
  <2> QED BY <1>6, <1>7, <2>1, <2>2, <2>3 DEF StorageNext, PieceHashFailed, FinishDiagnosis
<1>8. ASSUME RunNext PROVE SenderTypes'
  <2>1. ASSUME NEW W, NEW lost, ReplaceWanted(W, lost) PROVE SenderTypes'
    BY <2>1, FS_EmptySet DEF ReplaceWanted
  <2>2. ASSUME CancelAll PROVE SenderTypes'
    BY <2>2, EndedFinite DEF CancelAll
  <2>3. ASSUME ReplacePriorities \/ BeginStop \/ StopStorage \/ Stopped PROVE SenderTypes'
    BY <1>1, <1>6, <2>3 DEF ReplacePriorities, BeginStop, StopStorage, Stopped, vars, blockVars
  <2> QED BY <1>8, <2>1, <2>2, <2>3 DEF RunNext
<1>9. ASSUME UNCHANGED vars PROVE SenderTypes'
  BY <1>1, <1>9 DEF vars, blockVars
<1> QED BY <1>4, <1>5, <1>7, <1>8, <1>9 DEF Next

\* Routes and bans name connections.
LEMMA RouteTypesStep ==
  ASSUME RouteTypes, [Next]_vars
  PROVE  RouteTypes'
<1> USE DEF RouteTypes
<1>1. ASSUME UNCHANGED <<routes, banned>> PROVE RouteTypes'
  BY <1>1
<1>2. ASSUME PeerNext PROVE RouteTypes'
  <2>1. ASSUME NEW c, RemoveConnection(c) \/ CloseBanned(c) PROVE RouteTypes'
    BY <2>1 DEF RemoveConnection, CloseBanned, Disconnect, Prune, runVars
  <2>2. ASSUME NEW c, AddConnection(c) \/ Choke(c) \/ Unchoke(c) \/ RejectRequest(c) PROVE RouteTypes'
    BY <1>1, <2>2 DEF AddConnection, Choke, Unchoke, RejectRequest, ledgerVars, runVars
  <2>3. ASSUME NEW c, NEW x, SetAvailability(c, x) \/ PeerHas(c, x) \/ AllowedFast(c, x)
        PROVE  RouteTypes'
    BY <1>1, <2>3 DEF SetAvailability, PeerHas, AllowedFast, ledgerVars, runVars
  <2>4. ASSUME NEW c \in Conn, NEW b, NEW content, ReceiveBlock(c, b, content) PROVE RouteTypes'
    BY <2>4 DEF ReceiveBlock, runVars
  <2> QED BY <1>2, <2>1, <2>2, <2>3, <2>4 DEF PeerNext
<1>3. ASSUME ScheduleNext PROVE RouteTypes'
  <2>1. ASSUME NEW P, NEW Q, Plan(P, Q) PROVE RouteTypes'
    BY <1>1, <2>1 DEF Plan, runVars
  <2>2. ASSUME NEW c, NEW b, NEW purpose, Assign(c, b, purpose) PROVE RouteTypes'
    BY <1>1, <2>2 DEF Assign, runVars
  <2>3. ASSUME NEW c, NEW b, NEW purpose,
               AssignPrimary(c, b, purpose) \/ AssignDuplicate(c, b, purpose)
        PROVE  RouteTypes'
    BY <2>2, <2>3 DEF AssignPrimary, AssignDuplicate
  <2>4. ASSUME NEW p, PlanPiece(p) \/ \E fits \in BOOLEAN : PlanForStreaming(p, fits) PROVE RouteTypes'
    BY <2>1, <2>4 DEF PlanPiece, PlanForStreaming
  <2>5. ASSUME NEW c, \/ ScheduleActive(c) \/ ScheduleEndgame(c)
                      \/ \E p \in Piece : ScheduleInactive(c, p) \/ ScheduleStreaming(c, p)
                      \/ \E b \in Block : ScheduleStreamingDuplicate(c, b)
        PROVE  RouteTypes'
    BY <2>3, <2>5 DEF ScheduleActive, ScheduleEndgame, ScheduleInactive, ScheduleStreaming,
                      ScheduleStreamingDuplicate
  <2>6. ASSUME \E T \in SUBSET active : ExpireRequests(T)
        PROVE  RouteTypes'
    BY <1>1, <2>6 DEF ExpireRequests, runVars
  <2> QED BY <1>3, <2>4, <2>5, <2>6 DEF ScheduleNext
<1>4. ASSUME NEW p, NEW bad, ResetBlocks(p, bad) PROVE routes' \subseteq Conn
  BY <1>4 DEF ResetBlocks, Prune
<1>5. ASSUME NEW bad, Ban(bad) PROVE banned' \subseteq Conn
  BY <1>5 DEF Ban, Open
<1>6. ASSUME StorageNext PROVE RouteTypes'
  <2>1. ASSUME NEW r, WriteStored(r) \/ WriteFailed(r) \/ PieceVerified(r) PROVE RouteTypes'
    BY <2>1 DEF WriteStored, WriteFailed, PieceVerified, Prune, runVars
  <2>2. ASSUME NEW r, ExecuteWrite(r) \/ ExecuteHash(r) \/ BeginDiagnosis(r) \/ HashFatal(r)
        PROVE  RouteTypes'
    BY <1>1, <2>2 DEF ExecuteWrite, ExecuteHash, BeginDiagnosis, HashFatal, ledgerVars, runVars
  <2>3. ASSUME NEW r, PieceHashFailed(r) \/ FinishDiagnosis(r) PROVE RouteTypes'
    BY <1>4, <1>5, <2>3 DEF PieceHashFailed, FinishDiagnosis
  <2> QED BY <1>6, <2>1, <2>2, <2>3 DEF StorageNext
<1>7. ASSUME RunNext PROVE RouteTypes'
  <2>1. ASSUME ReplacePriorities PROVE RouteTypes'
    BY <1>4, <2>1 DEF ReplacePriorities, ledgerVars
  <2>2. ASSUME NEW W, NEW lost, ReplaceWanted(W, lost) PROVE RouteTypes'
    BY <2>2 DEF ReplaceWanted
  <2>3. ASSUME BeginStop \/ CancelAll \/ StopStorage \/ Stopped PROVE RouteTypes'
    BY <1>1, <2>3 DEF BeginStop, CancelAll, StopStorage, Stopped, vars, ledgerVars, runVars
  <2> QED BY <1>7, <2>1, <2>2, <2>3 DEF RunNext
<1>8. ASSUME UNCHANGED vars PROVE RouteTypes'
  BY <1>1, <1>8 DEF vars, ledgerVars, runVars
<1> QED BY <1>2, <1>3, <1>6, <1>7, <1>8 DEF Next

\* One entry of an integer table changes.
LEMMA TableUpdate ==
  ASSUME NEW D, NEW f \in [D -> Int], NEW x, NEW v, x \in D => v \in Int
  PROVE  [f EXCEPT ![x] = v] \in [D -> Int]
<1> DEFINE g == [f EXCEPT ![x] = v]
<1>1. g = [y \in D |-> g[y]] /\ \A y \in D : g[y] \in Int
  OBVIOUS
<1> HIDE DEF g
<1>2. g \in [D -> Int]
  BY <1>1
<1> QED BY <1>2 DEF g

\* The amounts the counters move by are numbers.
LEMMA Amounts ==
  ASSUME LedgerTypes
  PROVE  /\ \A T \in SUBSET active : IsFiniteSet(T) /\ Cardinality(T) \in Nat
                                     /\ Release(T) \in [Conn -> Int]
         /\ \A B \in SUBSET Block : Uncredit(B) \in [Conn -> Int] /\ Cardinality(B) \in Nat
         /\ \A s, t \in Status : \A n \in Int : Move(s, t, n) \in [Status -> Int]
<1> USE DEF LedgerTypes
<1>1. \A T \in SUBSET active : IsFiniteSet(T) /\ Cardinality(T) \in Nat
  BY FS_Subset, FS_CardinalityType
<1>2. ASSUME NEW T \in SUBSET active PROVE Release(T) \in [Conn -> Int]
  <2>1. \A c \in Conn : Cardinality({a \in T : a.conn = c}) \in Nat
    <3> TAKE c \in Conn
    <3>1. {a \in T : a.conn = c} \in SUBSET active
      OBVIOUS
    <3> QED BY <1>1, <3>1
  <2> QED BY <2>1 DEF Release
<1>3. ASSUME NEW B \in SUBSET Block PROVE Uncredit(B) \in [Conn -> Int]
  <2>1. \A c \in Conn : Cardinality({b \in B : source[b] = c}) \in Nat
    <3> TAKE c \in Conn
    <3>1. {b \in B : source[b] = c} \in SUBSET Block
      OBVIOUS
    <3> QED BY <3>1, BlockFinite
  <2> QED BY <2>1 DEF Uncredit
<1>4. \A s, t \in Status : \A n \in Int : Move(s, t, n) \in [Status -> Int]
  BY DEF Move
<1> QED BY <1>1, <1>2, <1>3, <1>4, BlockFinite

\* The counters stay integers.
LEMMA LedgerTypesStep ==
  ASSUME OwnershipInv, LedgerTypes, JobsNamed, [Next]_vars
  PROVE  LedgerTypes'
<1> USE DEF LedgerTypes
<1>1. ASSUME UNCHANGED <<requests, contributions, count, outstanding, active>> PROVE LedgerTypes'
  BY <1>1
<1>2. /\ {"Missing", "Requested", "Writing", "Received"} \subseteq Status
      /\ \A T : Orphaned(T) \in SUBSET Block
      /\ GivenUp \in SUBSET Block
  BY DEF Status, Orphaned, GivenUp
<1>3. ASSUME NEW T \in SUBSET active, Terminate(T) PROVE LedgerTypes'
  <2>1. /\ requests' = Release(T) /\ outstanding' = outstanding - Cardinality(T)
        /\ count' = Move("Requested", "Missing", Cardinality(Orphaned(T)))
        /\ active' = active \ T /\ contributions' = contributions
    BY <1>3 DEF Terminate
  <2>2. Cardinality(T) \in Nat /\ Cardinality(Orphaned(T)) \in Nat /\ Release(T) \in [Conn -> Int]
    BY <1>2, Amounts
  <2>3. active \ T \in SUBSET active
    OBVIOUS
  <2>4. IsFiniteSet(active \ T)
    BY <2>3, Amounts
  <2>5. count' \in [Status -> Int]
    BY <1>2, <2>1, <2>2, Amounts
  <2> QED BY <2>1, <2>2, <2>4, <2>5
<1>4. ASSUME PeerNext PROVE LedgerTypes'
  <2>1. ASSUME NEW c \in Conn, NEW b \in Block, NEW content, ReceiveBlock(c, b, content)
        PROVE  LedgerTypes'
    <3> DEFINE T == {a \in active : a.block = b}
    <3>1. /\ requests' = Release(T) /\ outstanding' = outstanding - Cardinality(T)
          /\ count' = Move("Requested", "Writing", 1) /\ active' = active \ T
          /\ contributions' = [contributions EXCEPT ![c] = @ + 1]
      BY <2>1 DEF ReceiveBlock
    <3>2. T \in SUBSET active /\ active \ T \in SUBSET active
      OBVIOUS
    <3> HIDE DEF T
    <3>3. Cardinality(T) \in Nat /\ Release(T) \in [Conn -> Int] /\ IsFiniteSet(active \ T)
      BY <3>2, Amounts
    <3>4. count' \in [Status -> Int]
      BY <1>2, <3>1, Amounts
    <3>5. contributions' \in [Conn -> Int]
      BY <3>1
    <3> QED BY <3>1, <3>3, <3>4, <3>5
  <2>2. ASSUME NEW c, Disconnect(c) \/ Choke(c) PROVE LedgerTypes'
    <3>1. Owned(c) \in SUBSET active /\ {} \in SUBSET active
      BY DEF Owned
    <3> QED BY <1>3, <2>2, <3>1 DEF Disconnect, Choke
  <2>3. ASSUME NEW a \in active, RejectRequest(a) PROVE LedgerTypes'
    <3>1. {a} \in SUBSET active /\ Terminate({a})
      BY <2>3 DEF RejectRequest
    <3> QED BY <1>3, <3>1
  <2>4. ASSUME NEW c, NEW x, AddConnection(c) \/ Unchoke(c) \/ SetAvailability(c, x)
                             \/ PeerHas(c, x) \/ AllowedFast(c, x)
        PROVE  LedgerTypes'
    BY <1>1, <2>4 DEF AddConnection, Unchoke, SetAvailability, PeerHas, AllowedFast, blockVars,
                      ledgerVars
  <2> QED BY <1>4, <2>1, <2>2, <2>3, <2>4 DEF PeerNext, RemoveConnection, CloseBanned
<1>5. ASSUME ScheduleNext PROVE LedgerTypes'
  <2>1. ASSUME NEW P, NEW Q, Plan(P, Q) PROVE LedgerTypes'
    <3> DEFINE gone == {b \in Block : b[1] \in Q}
               new == {b \in Block : b[1] \in P}
               sum == count["Missing"] + Cardinality(new) - Cardinality(gone)
    <3>1. /\ count' = [count EXCEPT !["Missing"] = sum]
          /\ UNCHANGED <<requests, contributions, outstanding, active>>
      BY <2>1 DEF Plan
    <3>2. gone \in SUBSET Block /\ new \in SUBSET Block
      OBVIOUS
    <3> HIDE DEF gone, new
    <3>3. Cardinality(gone) \in Nat /\ Cardinality(new) \in Nat /\ count["Missing"] \in Int
      BY <1>2, <3>2, BlockFinite
    <3>4. sum \in Int
      BY <3>3
    <3> HIDE DEF sum
    <3> QED BY <3>1, <3>4
  <2>2. ASSUME NEW c, NEW b, NEW purpose, Assign(c, b, purpose),
               count' = count \/ count' = Move("Missing", "Requested", 1)
        PROVE  LedgerTypes'
    <3> DEFINE a0 == [id |-> nextId, conn |-> c, block |-> b, purpose |-> purpose]
    <3>1. /\ active' = active \cup {a0} /\ requests' = [requests EXCEPT ![c] = @ + 1]
          /\ outstanding' = outstanding + 1 /\ contributions' = contributions
      BY <2>2 DEF Assign
    <3> HIDE DEF a0
    <3>2. IsFiniteSet(active')
      BY <3>1, FS_AddElement
    <3>3. count' \in [Status -> Int]
      <4> DEFINE moved == Move("Missing", "Requested", 1)
      <4>1. moved \in [Status -> Int]
        <5>1. \A n \in Int : Move("Missing", "Requested", n) \in [Status -> Int]
          BY <1>2, Amounts
        <5>2. 1 \in Int
          OBVIOUS
        <5> QED BY <5>1, <5>2, Zenon
      <4>2. count' = count \/ count' = moved
        BY <2>2
      <4> HIDE DEF moved
      <4> QED BY <4>1, <4>2
    <3>4. requests' \in [Conn -> Int] /\ outstanding' \in Int
      <4> DEFINE v == requests[c] + 1
      <4>1. requests' = [requests EXCEPT ![c] = v] /\ (c \in Conn => v \in Int)
        BY <3>1
      <4> HIDE DEF v
      <4>2. requests' \in [Conn -> Int]
        BY <4>1, TableUpdate
      <4> QED BY <3>1, <4>2
    <3> QED BY <3>1, <3>2, <3>3, <3>4
  <2>3. ASSUME NEW c, NEW b, NEW purpose,
               AssignPrimary(c, b, purpose) \/ AssignDuplicate(c, b, purpose)
        PROVE  LedgerTypes'
    BY <2>2, <2>3 DEF AssignPrimary, AssignDuplicate
  <2>4. ASSUME NEW p, PlanPiece(p) \/ \E fits \in BOOLEAN : PlanForStreaming(p, fits) PROVE LedgerTypes'
    BY <2>1, <2>4 DEF PlanPiece, PlanForStreaming
  <2>5. ASSUME NEW c, \/ ScheduleActive(c) \/ ScheduleEndgame(c)
                      \/ \E p \in Piece : ScheduleInactive(c, p) \/ ScheduleStreaming(c, p)
                      \/ \E b \in Block : ScheduleStreamingDuplicate(c, b)
        PROVE  LedgerTypes'
    BY <2>3, <2>5 DEF ScheduleActive, ScheduleEndgame, ScheduleInactive, ScheduleStreaming,
                      ScheduleStreamingDuplicate
  <2>6. ASSUME NEW T \in SUBSET active, ExpireRequests(T) PROVE LedgerTypes'
    BY <1>3, <2>6 DEF ExpireRequests
  <2> QED BY <1>5, <2>4, <2>5, <2>6 DEF ScheduleNext
<1>6. ASSUME NEW p, NEW bad \in SUBSET Block, ResetBlocks(p, bad) PROVE LedgerTypes'
  <2>1. /\ count' = Move("Received", "Missing", Cardinality(bad)) /\ contributions' = Uncredit(bad)
        /\ UNCHANGED <<requests, outstanding, active>>
    BY <1>6 DEF ResetBlocks
  <2>2. Cardinality(bad) \in Nat /\ Uncredit(bad) \in [Conn -> Int]
    BY Amounts
  <2>3. count' \in [Status -> Int]
    BY <1>2, <2>1, <2>2, Amounts
  <2> QED BY <2>1, <2>2, <2>3
<1>7. ASSUME StorageNext PROVE LedgerTypes'
  <2>1. ASSUME NEW r, WriteStored(r) PROVE LedgerTypes'
    <3>1. /\ count' = Move("Writing", "Received", 1)
          /\ UNCHANGED <<requests, contributions, outstanding, active>>
      BY <2>1 DEF WriteStored
    <3>2. count' \in [Status -> Int]
      BY <1>2, <3>1, Amounts
    <3> QED BY <3>1, <3>2
  <2>2. ASSUME NEW r, WriteFailed(r) PROVE LedgerTypes'
    <3>1. /\ count' = Move("Writing", "Missing", 1) /\ UNCHANGED <<requests, outstanding, active>>
          /\ contributions' = [contributions EXCEPT ![source[r.block]] = @ - 1]
      BY <2>2 DEF WriteFailed
    <3>2. count' \in [Status -> Int]
      BY <1>2, <3>1, Amounts
    <3>3. contributions' \in [Conn -> Int]
      <4> DEFINE c == source[r.block]
                 v == contributions[c] - 1
      <4>1. contributions' = [contributions EXCEPT ![c] = v] /\ (c \in Conn => v \in Int)
        BY <3>1
      <4> HIDE DEF c, v
      <4> QED BY <4>1, TableUpdate
    <3> QED BY <3>1, <3>2, <3>3
  <2>3. ASSUME NEW h, PieceVerified(h) PROVE LedgerTypes'
    <3> DEFINE B == BlocksOf(h.piece)
    <3>1. /\ count' = [count EXCEPT !["Received"] = @ - Cardinality(B)]
          /\ contributions' = Uncredit(B) /\ UNCHANGED <<requests, outstanding, active>>
      BY <2>3 DEF PieceVerified
    <3>2. h.piece \in Piece
      BY <2>3 DEF PieceVerified, Current, OwnershipInv, Shape
    <3>3. B \in SUBSET Block
      BY <3>2, BlockFacts
    <3> HIDE DEF B
    <3>4. Cardinality(B) \in Nat /\ Uncredit(B) \in [Conn -> Int]
      BY <3>3, Amounts
    <3>5. count' \in [Status -> Int]
      <4> DEFINE v == count["Received"] - Cardinality(B)
      <4>1. count' = [count EXCEPT !["Received"] = v] /\ v \in Int
        BY <1>2, <3>1, <3>4
      <4> HIDE DEF v
      <4> QED BY <4>1, TableUpdate
    <3> QED BY <3>1, <3>4, <3>5
  <2>4. ASSUME NEW h, PieceHashFailed(h) PROVE LedgerTypes'
    <3>1. h.piece \in Piece /\ ResetBlocks(h.piece, BlocksOf(h.piece))
      BY <2>4 DEF PieceHashFailed, Current, OwnershipInv, Shape
    <3>2. BlocksOf(h.piece) \in SUBSET Block
      BY <3>1, BlockFacts
    <3> QED BY <1>6, <3>1, <3>2
  <2>5. ASSUME NEW bad \in SUBSET Block, FinishDiagnosis(bad) PROVE LedgerTypes'
    BY <1>6, <2>5 DEF FinishDiagnosis
  <2>6. ASSUME NEW r, ExecuteWrite(r) \/ ExecuteHash(r) \/ BeginDiagnosis(r) \/ HashFatal(r)
        PROVE  LedgerTypes'
    BY <1>1, <2>6 DEF ExecuteWrite, ExecuteHash, BeginDiagnosis, HashFatal, blockVars, ledgerVars
  <2> QED BY <1>7, <2>1, <2>2, <2>3, <2>4, <2>5, <2>6 DEF StorageNext
<1>8. ASSUME RunNext PROVE LedgerTypes'
  <2>1. ASSUME NEW W, NEW lost, ReplaceWanted(W, lost) PROVE LedgerTypes'
    BY <2>1, FS_EmptySet DEF ReplaceWanted
  <2>2. ASSUME ReplacePriorities PROVE LedgerTypes'
    <3>1. CASE diagnosis = NoPiece
      BY <1>1, <2>2, <3>1 DEF ReplacePriorities, blockVars, ledgerVars
    <3>2. CASE diagnosis # NoPiece
      <4>1. diagnosis \in Piece /\ ResetBlocks(diagnosis, BlocksOf(diagnosis))
        BY <2>2, <3>2 DEF ReplacePriorities, OwnershipInv, Shape
      <4>2. BlocksOf(diagnosis) \in SUBSET Block
        BY <4>1, BlockFacts
      <4> QED BY <1>6, <4>1, <4>2
    <3> QED BY <3>1, <3>2
  <2>3. ASSUME CancelAll PROVE LedgerTypes'
    <3> DEFINE n == Cardinality(Orphaned(active))
               w == Cardinality(GivenUp)
               f == Cardinality(Orphaned(active) \cup GivenUp)
    <3>1. /\ requests' = Release(active) /\ outstanding' = outstanding - Cardinality(active)
          /\ contributions' = Uncredit(GivenUp) /\ active' = {}
          /\ count' = [count EXCEPT !["Requested"] = @ - n, !["Writing"] = @ - w, !["Missing"] = @ + f]
      BY <2>3 DEF CancelAll
    <3>2. Orphaned(active) \cup GivenUp \in SUBSET Block
      BY <1>2
    <3>3. n \in Nat /\ w \in Nat /\ f \in Nat
      BY <1>2, <3>2, BlockFinite
    <3>4. /\ Cardinality(active) \in Nat /\ Release(active) \in [Conn -> Int]
          /\ Uncredit(GivenUp) \in [Conn -> Int]
      BY <1>2, Amounts
    <3> HIDE DEF n, w, f
    <3>5. count' \in [Status -> Int]
      BY <1>2, <3>1, <3>3
    <3> QED BY <3>1, <3>4, <3>5, FS_EmptySet
  <2>4. ASSUME BeginStop \/ StopStorage \/ Stopped PROVE LedgerTypes'
    BY <1>1, <2>4 DEF BeginStop, StopStorage, Stopped, vars, blockVars, ledgerVars
  <2> QED BY <1>8, <2>1, <2>2, <2>3, <2>4 DEF RunNext
<1>9. ASSUME UNCHANGED vars PROVE LedgerTypes'
  BY <1>1, <1>9 DEF vars, blockVars, ledgerVars
<1> QED BY <1>4, <1>5, <1>7, <1>8, <1>9 DEF Next

\* Storage jobs name blocks and pieces of the torrent, and the disk holds contents.
LEMMA JobTypesStep ==
  ASSUME OwnershipInv, JobTypes, [Next]_vars
  PROVE  JobTypes'
<1> USE DEF JobTypes
<1>1. ASSUME UNCHANGED <<writes, written, hashes, hashed, disk>> PROVE JobTypes'
  BY <1>1
<1>2. \A p \in Piece : join[p].generation \in Nat
  BY DEF OwnershipInv, Shape, JoinRecord
<1>3. ASSUME writes' \subseteq writes, written' \subseteq written, hashes' \subseteq hashes,
             hashed' \subseteq hashed, disk' = disk
      PROVE  JobTypes'
  BY <1>3
<1>4. ASSUME PeerNext PROVE JobTypes'
  <2>1. ASSUME NEW c \in Conn, NEW b \in Block, NEW content \in {"good", "bad"},
               ReceiveBlock(c, b, content)
        PROVE  JobTypes'
    <3> DEFINE w == [block |-> b, generation |-> join[b[1]].generation, content |-> content]
    <3>1. b[1] \in Piece /\ content \in Content
      BY BlockFacts DEF Content
    <3>2. w \in [block : Block, generation : Nat, content : Content]
      BY <1>2, <3>1
    <3>3. writes' = writes \cup {w} /\ UNCHANGED <<written, hashes, hashed, disk>>
      BY <2>1 DEF ReceiveBlock
    <3> HIDE DEF w
    <3> QED BY <3>2, <3>3
  <2>2. ASSUME NEW c, Disconnect(c) \/ Choke(c) \/ RejectRequest(c) PROVE JobTypes'
    BY <1>1, <2>2 DEF Disconnect, Choke, RejectRequest, storeVars, jobVars
  <2>3. ASSUME NEW c, NEW x, AddConnection(c) \/ Unchoke(c) \/ SetAvailability(c, x)
                             \/ PeerHas(c, x) \/ AllowedFast(c, x)
        PROVE  JobTypes'
    BY <1>1, <2>3 DEF AddConnection, Unchoke, SetAvailability, PeerHas, AllowedFast, storeVars, jobVars
  <2> QED BY <1>4, <2>1, <2>2, <2>3 DEF PeerNext, RemoveConnection, CloseBanned
<1>5. ASSUME ScheduleNext PROVE JobTypes'
  <2>1. ASSUME NEW P, NEW Q, Plan(P, Q) PROVE JobTypes'
    BY <1>1, <2>1 DEF Plan, storeVars, jobVars
  <2>2. ASSUME NEW c, NEW b, NEW purpose, Assign(c, b, purpose) PROVE JobTypes'
    BY <1>1, <2>2 DEF Assign, storeVars, jobVars
  <2>3. ASSUME NEW c, NEW b, NEW purpose,
               AssignPrimary(c, b, purpose) \/ AssignDuplicate(c, b, purpose)
        PROVE  JobTypes'
    BY <2>2, <2>3 DEF AssignPrimary, AssignDuplicate
  <2>4. ASSUME NEW p, PlanPiece(p) \/ \E fits \in BOOLEAN : PlanForStreaming(p, fits) PROVE JobTypes'
    BY <2>1, <2>4 DEF PlanPiece, PlanForStreaming
  <2>5. ASSUME NEW c, \/ ScheduleActive(c) \/ ScheduleEndgame(c)
                      \/ \E p \in Piece : ScheduleInactive(c, p) \/ ScheduleStreaming(c, p)
                      \/ \E b \in Block : ScheduleStreamingDuplicate(c, b)
        PROVE  JobTypes'
    BY <2>3, <2>5 DEF ScheduleActive, ScheduleEndgame, ScheduleInactive, ScheduleStreaming,
                      ScheduleStreamingDuplicate
  <2>6. ASSUME \E T \in SUBSET active : ExpireRequests(T)
        PROVE  JobTypes'
    BY <1>1, <2>6 DEF ExpireRequests, storeVars, jobVars
  <2> QED BY <1>5, <2>4, <2>5, <2>6 DEF ScheduleNext
<1>6. ASSUME NEW p, NEW bad, ResetBlocks(p, bad), hashed' \subseteq hashed PROVE JobTypes'
  BY <1>3, <1>6 DEF ResetBlocks
<1>7. ASSUME StorageNext PROVE JobTypes'
  <2>1. ASSUME NEW w \in writes, ExecuteWrite(w) PROVE JobTypes'
    <3> DEFINE good == [block |-> w.block, generation |-> w.generation, ok |-> TRUE]
               failed == [block |-> w.block, generation |-> w.generation, ok |-> FALSE]
    <3>1. w.block \in Block /\ w.generation \in Nat /\ w.content \in Content
      OBVIOUS
    <3>2. {good, failed} \subseteq [block : Block, generation : Nat, ok : BOOLEAN]
      BY <3>1
    <3>3. /\ writes' \subseteq writes /\ UNCHANGED <<hashes, hashed>>
          /\ \/ written' = written \cup {good} /\ disk' = [disk EXCEPT ![w.block] = w.content]
             \/ /\ written' = written \cup {failed}
                /\ \E content \in {disk[w.block], "bad"} : disk' = [disk EXCEPT ![w.block] = content]
      BY <2>1 DEF ExecuteWrite
    <3> HIDE DEF good, failed
    <3>4. disk' \in [Block -> Content]
      <4>1. disk[w.block] \in Content /\ "bad" \in Content
        BY <3>1 DEF Content
      <4> QED BY <3>1, <3>3, <4>1
    <3>5. written' \subseteq [block : Block, generation : Nat, ok : BOOLEAN]
      BY <3>2, <3>3
    <3> QED BY <3>3, <3>4, <3>5
  <2>2. ASSUME NEW h \in hashes, ExecuteHash(h) PROVE JobTypes'
    <3> DEFINE good == \A b \in BlocksOf(h.piece) : disk[b] = "good"
               r == [piece |-> h.piece, generation |-> h.generation, ok |-> good]
    <3>1. h.piece \in Piece /\ h.generation \in Nat /\ good \in BOOLEAN
      OBVIOUS
    <3>2. hashed' = hashed \cup {r} /\ hashes' \subseteq hashes /\ UNCHANGED <<writes, written, disk>>
      BY <2>2 DEF ExecuteHash
    <3> HIDE DEF good
    <3>3. r \in [piece : Piece, generation : Nat, ok : BOOLEAN]
      BY <3>1
    <3> HIDE DEF r
    <3> QED BY <3>2, <3>3
  <2>3. ASSUME NEW r, WriteStored(r) PROVE JobTypes'
    <3> DEFINE p == r.block[1]
               j == WriteCompleted(join[p], TRUE)
               h == [piece |-> p, generation |-> j.generation]
    <3>1. /\ p \in planned /\ written' \subseteq written /\ UNCHANGED <<writes, hashed, disk>>
          /\ hashes' = hashes \cup {h} \/ hashes' = hashes
      BY <2>3 DEF WriteStored
    <3>2. p \in Piece /\ join[p] \in JoinRecord
      BY <3>1 DEF OwnershipInv, Shape
    <3>3. j.generation \in Nat
      <4>1. j \in JoinRecord
        <5> HIDE DEF p
        <5> QED BY <3>2, JoinTypes
      <4> HIDE DEF j
      <4> QED BY <4>1 DEF JoinRecord
    <3> HIDE DEF p, j
    <3>4. h \in [piece : Piece, generation : Nat]
      BY <3>2, <3>3
    <3> HIDE DEF h
    <3> QED BY <3>1, <3>4
  <2>4. ASSUME NEW r, WriteFailed(r) \/ PieceVerified(r) \/ BeginDiagnosis(r) \/ HashFatal(r)
        PROVE  JobTypes'
    BY <1>3, <2>4 DEF WriteFailed, PieceVerified, BeginDiagnosis, HashFatal
  <2>5. ASSUME NEW r, PieceHashFailed(r) \/ FinishDiagnosis(r) PROVE JobTypes'
    BY <1>6, <2>5 DEF PieceHashFailed, FinishDiagnosis
  <2> QED BY <1>7, <2>1, <2>2, <2>3, <2>4, <2>5 DEF StorageNext
<1>8. ASSUME RunNext PROVE JobTypes'
  <2>1. ASSUME NEW W, NEW lost, ReplaceWanted(W, lost) PROVE JobTypes'
    <3>1. "none" \in Content
      BY DEF Content
    <3> QED BY <2>1, <3>1 DEF ReplaceWanted, Kept
  <2>2. ASSUME ReplacePriorities PROVE JobTypes'
    BY <1>1, <1>6, <2>2 DEF ReplacePriorities, storeVars, jobVars
  <2>3. ASSUME BeginStop \/ CancelAll \/ StopStorage \/ Stopped PROVE JobTypes'
    BY <1>3, <2>3 DEF BeginStop, CancelAll, StopStorage, Stopped, vars, storeVars, jobVars
  <2> QED BY <1>8, <2>1, <2>2, <2>3 DEF RunNext
<1>9. ASSUME UNCHANGED vars PROVE JobTypes'
  BY <1>1, <1>9 DEF vars, storeVars, jobVars
<1> QED BY <1>4, <1>5, <1>7, <1>8, <1>9 DEF Next

-----------------------------------------------------------------------------
AllTypes == /\ OwnershipInv /\ JobsNamed
            /\ PeerTypes /\ PieceTypes /\ SenderTypes /\ LedgerTypes /\ RouteTypes /\ JobTypes

\* The initial state has the right types.
LEMMA TypesInit == Init => AllTypes
<1> SUFFICES ASSUME Init PROVE AllTypes
  OBVIOUS
<1>1. OwnershipInv /\ JobsNamed
  BY OwnershipInit DEF Init, JobsNamed
<1>2. PeerTypes /\ PieceTypes /\ RouteTypes
  BY DEF Init, PeerTypes, PieceTypes, RouteTypes
<1>3. SenderTypes
  BY FS_EmptySet DEF Init, SenderTypes
<1>4. LedgerTypes
  BY FS_EmptySet DEF Init, LedgerTypes
<1>5. JobTypes
  BY DEF Init, JobTypes, Content
<1> QED BY <1>1, <1>2, <1>3, <1>4, <1>5 DEF AllTypes

\* Every step keeps them.
LEMMA TypesStep ==
  ASSUME AllTypes, [Next]_vars
  PROVE  AllTypes'
<1> USE DEF AllTypes
<1>1. OwnershipInv' /\ JobsNamed'
  BY PeerStep, ScheduleStep, StorageStep, RunStep, StutterStep, JobsStep DEF Next
<1>2. PeerTypes' /\ PieceTypes' /\ SenderTypes'
  BY PeerTypesStep, PieceTypesStep, SenderTypesStep
<1>3. LedgerTypes' /\ RouteTypes' /\ JobTypes'
  BY LedgerTypesStep, RouteTypesStep, JobTypesStep
<1> QED BY <1>1, <1>2, <1>3

\* Every variable of Swarm keeps the shape of the Rust field it stands for: no
\* handler files a request, a job or a counter under a name that is not one of the
\* torrent's peers, pieces or blocks, whatever their number and the limits.
THEOREM SwarmTypes == Spec => []TypeOK
<1>1. AllTypes /\ [Next]_vars => AllTypes'
  BY TypesStep
<1>2. AllTypes => TypeOK
  <2> SUFFICES ASSUME AllTypes PROVE TypeOK
    OBVIOUS
  <2>1. Shape /\ PeerTypes /\ PieceTypes /\ SenderTypes /\ LedgerTypes /\ RouteTypes /\ JobTypes
    BY DEF AllTypes, OwnershipInv
  <2>2. cursor \in [Piece -> Int] /\ requestable \in [Piece -> Int]
    BY <2>1 DEF Shape
  <2> QED BY <2>1, <2>2 DEF TypeOK, Shape, PeerTypes, PieceTypes, SenderTypes, LedgerTypes,
                            RouteTypes, JobTypes
<1> QED BY <1>1, <1>2, TypesInit, PTL DEF Spec

-----------------------------------------------------------------------------
(* The storage jobs of the run. *)

\* a block is Writing exactly while one write of it is with the storage owner
WritesOwned ==
  /\ \A w \in writes \cup written :
       phase[w.block] = "Writing" /\ w.generation = join[w.block[1]].generation
  /\ \A b \in Block : phase[b] = "Writing" => \E w \in writes \cup written : w.block = b
  /\ \A v, w \in writes : v.block = w.block => v = w
  /\ \A v, w \in written : v.block = w.block => v = w
  /\ \A v \in writes, w \in written : v.block # w.block

\* a hash runs exactly while one hash job of the piece exists
HashesOwned ==
  /\ \A h \in hashes \cup hashed :
       join[h.piece].hash = "Running" /\ h.generation = join[h.piece].generation
  /\ \A p \in Piece : join[p].hash = "Running" => \E h \in hashes \cup hashed : h.piece = p
  /\ \A g, h \in hashes : g.piece = h.piece => g = h
  /\ \A g, h \in hashed : g.piece = h.piece => g = h
  /\ \A g \in hashes, h \in hashed : g.piece # h.piece

\* a hash that matched still matches, and a hash that did not is under diagnosis
HashesTrue == \A h \in hashed : h.ok => \A b \in BlocksOf(h.piece) : disk[b] = "good"
FailedIsDiagnosed == \A p \in Piece : join[p].hash = "Failed" => diagnosis = p

JobsOwned == mode = "running" => WritesOwned /\ HashesOwned /\ HashesTrue /\ FailedIsDiagnosed

\* what is published is neither wanted nor planned, and no write is on its way to it
Published ==
  /\ wanted \cap have = {} /\ planned \cap have = {}
  /\ \A w \in writes : w.block[1] \notin have
  /\ HaveIsGood

JobInv == JobsOwned /\ Published

\* A block with a write is Writing, its piece is planned and its hash has not begun.
LEMMA WritingFacts ==
  ASSUME OwnershipInv, mode = "running", NEW b \in Block, phase[b] = "Writing"
  PROVE  b[1] \in Piece /\ b[1] \in planned /\ join[b[1]].hash = "NotStarted"
<1>1. b[1] \in Piece /\ b \in BlocksOf(b[1])
  BY BlockFacts
<1>2. b[1] \in planned
  BY <1>1 DEF OwnershipInv, PlansHavePhases
<1>3. ASSUME join[b[1]].hash # "NotStarted" PROVE FALSE
  BY <1>1, <1>3, HashedPieceFacts
<1> QED BY <1>1, <1>2, <1>3

\* A step that leaves the jobs, the joins and the files alone, and starts and ends no
\* write, keeps the invariant.
LEMMA JobsUntouched ==
  ASSUME AllTypes, JobInv,
         UNCHANGED <<writes, written, hashes, hashed, disk, have, join, diagnosis>>,
         wanted' \subseteq wanted, planned' \subseteq planned,
         mode' = "running" =>
           mode = "running" /\ \A b \in Block : phase'[b] = "Writing" <=> phase[b] = "Writing"
  PROVE  JobInv'
<1>1. Published'
  BY DEF JobInv, Published, HaveIsGood
<1>2. ASSUME mode' = "running" PROVE WritesOwned' /\ HashesOwned' /\ HashesTrue' /\ FailedIsDiagnosed'
  <2>1. WritesOwned /\ HashesOwned /\ HashesTrue /\ FailedIsDiagnosed
    BY <1>2 DEF JobInv, JobsOwned
  <2>2. \A w \in writes \cup written : w.block \in Block
    BY DEF AllTypes, JobsNamed
  <2>3. WritesOwned'
    BY <1>2, <2>1, <2>2 DEF WritesOwned
  <2> QED BY <2>1, <2>3 DEF HashesOwned, HashesTrue, FailedIsDiagnosed
<1> QED BY <1>1, <1>2 DEF JobInv, JobsOwned

\* receive_block: the accepted payload becomes the one write of its block.
LEMMA ReceiveJobs ==
  ASSUME AllTypes, JobInv, NEW c \in Conn, NEW b \in Block, NEW content, ReceiveBlock(c, b, content)
  PROVE  JobInv'
<1> DEFINE w == [block |-> b, generation |-> join[b[1]].generation, content |-> content]
<1>1. /\ mode = "running" /\ phase[b] = "Requested" /\ writes' = writes \cup {w}
      /\ phase' = [phase EXCEPT ![b] = "Writing"]
      /\ UNCHANGED <<written, hashes, hashed, disk, have, join, diagnosis, wanted, planned, mode>>
  BY DEF ReceiveBlock, Idle, planVars, runVars
<1>2. w.block = b /\ w.generation = join[b[1]].generation
  OBVIOUS
<1> HIDE DEF w
<1>3. WritesOwned /\ HashesOwned /\ HashesTrue /\ FailedIsDiagnosed /\ Published
  BY <1>1 DEF JobInv, JobsOwned
<1>4. phase \in [Block -> Phases] /\ b[1] \in planned /\ \A v \in writes \cup written : v.block \in Block
  <2>1. b[1] \in Piece /\ b \in BlocksOf(b[1])
    BY BlockFacts
  <2> QED BY <1>1, <2>1 DEF AllTypes, OwnershipInv, Shape, PlansHavePhases, JobsNamed
<1>5. \A v \in writes \cup written : v.block # b
  BY <1>1, <1>3 DEF WritesOwned
<1>6. phase'[b] = "Writing" /\ \A d \in Block : d # b => phase'[d] = phase[d]
  BY <1>1, <1>4
<1>7. WritesOwned'
  <2>1. \A v \in writes' \cup written' :
           phase'[v.block] = "Writing" /\ v.generation = join'[v.block[1]].generation
    BY <1>1, <1>2, <1>3, <1>4, <1>5, <1>6 DEF WritesOwned
  <2>2. \A d \in Block : phase'[d] = "Writing" => \E v \in writes' \cup written' : v.block = d
    BY <1>1, <1>2, <1>3, <1>6 DEF WritesOwned
  <2>3. /\ \A u, v \in writes' : u.block = v.block => u = v
        /\ \A u, v \in written' : u.block = v.block => u = v
        /\ \A u \in writes', v \in written' : u.block # v.block
    BY <1>1, <1>2, <1>3, <1>5 DEF WritesOwned
  <2> QED BY <2>1, <2>2, <2>3 DEF WritesOwned
<1>8. Published'
  BY <1>1, <1>2, <1>3, <1>4 DEF Published, HaveIsGood
<1>9. HashesOwned' /\ HashesTrue' /\ FailedIsDiagnosed'
  BY <1>1, <1>3 DEF HashesOwned, HashesTrue, FailedIsDiagnosed
<1> QED BY <1>7, <1>8, <1>9 DEF JobInv, JobsOwned

\* append_piece_plans: the pieces that start over have neither writes nor hashes.
LEMMA PlanJobs ==
  ASSUME AllTypes, JobInv, mode = "running", NEW P \in SUBSET Piece, NEW Q \in SUBSET planned,
         Plan(P, Q), P \cap planned = {}, P \subseteq wanted,
         \A q \in Q : \A b \in BlocksOf(q) : phase[b] = "Missing"
  PROVE  JobInv'
<1>1. /\ planned' = (planned \ Q) \cup P
      /\ phase' = [b \in Block |-> IF b[1] \in P THEN "Missing"
                                   ELSE IF b[1] \in Q THEN "None" ELSE phase[b]]
      /\ join' = [p \in Piece |-> IF p \in P \cup Q THEN NewJoin(BlockCount[p]) ELSE join[p]]
      /\ UNCHANGED <<writes, written, hashes, hashed, disk, have, diagnosis, wanted, mode>>
  BY DEF Plan, storeVars, jobVars, runVars
<1>2. WritesOwned /\ HashesOwned /\ HashesTrue /\ FailedIsDiagnosed /\ Published
  BY DEF JobInv, JobsOwned
<1>3. \A p \in P \cup Q : p \in Piece /\ join[p].hash = "NotStarted"
  <2> SUFFICES ASSUME NEW p \in P \cup Q, p \in Piece, join[p].hash # "NotStarted" PROVE FALSE
    BY DEF AllTypes, OwnershipInv, Shape
  <2>1. p \in planned /\ \A b \in BlocksOf(p) : phase[b] = "Received"
    BY HashedPieceFacts DEF AllTypes
  <2>2. BlocksOf(p) # {}
    BY BlocksFinite
  <2> QED BY <2>1, <2>2
<1>4. \A b \in Block : b[1] \in P \cup Q => phase[b] # "Writing"
  <2> SUFFICES ASSUME NEW b \in Block, b[1] \in P \cup Q, phase[b] = "Writing" PROVE FALSE
    OBVIOUS
  <2>1. b[1] \in Piece /\ b[1] \in planned /\ b \in BlocksOf(b[1])
    BY WritingFacts, BlockFacts DEF AllTypes
  <2> QED BY <2>1
<1>5. \A b \in Block : /\ phase'[b] = "Writing" <=> phase[b] = "Writing"
                       /\ phase[b] = "Writing" => join'[b[1]] = join[b[1]]
  <2> TAKE b \in Block
  <2>1. b[1] \in Piece
    BY BlockFacts
  <2> QED BY <1>1, <1>4, <2>1
<1>6. \A v \in writes \cup written : v.block \in Block
  BY DEF AllTypes, JobsNamed
<1>7. WritesOwned'
  BY <1>1, <1>2, <1>5, <1>6 DEF WritesOwned
<1>8. \A p \in Piece : /\ join'[p].hash = join[p].hash
                       /\ join[p].hash # "NotStarted" => join'[p] = join[p]
  BY <1>1, <1>3 DEF NewJoin
<1>9. \A h \in hashes \cup hashed : h.piece \in Piece
  BY DEF AllTypes, JobTypes
<1>10. HashesOwned' /\ FailedIsDiagnosed' /\ HashesTrue'
  BY <1>1, <1>2, <1>8, <1>9 DEF HashesOwned, FailedIsDiagnosed, HashesTrue
<1>11. Published'
  BY <1>1, <1>2 DEF Published, HaveIsGood
<1> QED BY <1>7, <1>10, <1>11 DEF JobInv, JobsOwned

\* The storage owner executes a write: the block is Writing, so no hash that has been
\* computed read it, and its piece is not published.
LEMMA ExecuteWriteJobs ==
  ASSUME AllTypes, JobInv, NEW w \in writes, ExecuteWrite(w)
  PROVE  JobInv'
<1>1. /\ writes' = writes \ {w}
      /\ UNCHANGED <<phase, join, hashes, hashed, have, diagnosis, wanted, planned, mode>>
  BY DEF ExecuteWrite, planVars, blockVars, runVars
<1>2. PICK r : /\ written' = written \cup {r}
               /\ r.block = w.block /\ r.generation = w.generation
  <2> DEFINE good == [block |-> w.block, generation |-> w.generation, ok |-> TRUE]
             failed == [block |-> w.block, generation |-> w.generation, ok |-> FALSE]
  <2>1. written' = written \cup {good} \/ written' = written \cup {failed}
    BY DEF ExecuteWrite
  <2>2. \A r \in {good, failed} : r.block = w.block /\ r.generation = w.generation
    OBVIOUS
  <2> HIDE DEF good, failed
  <2> QED BY <2>1, <2>2
<1>3. w.block \in Block /\ disk \in [Block -> Content]
  BY DEF AllTypes, JobsNamed, JobTypes
<1>4. \A b \in Block : b # w.block => disk'[b] = disk[b]
  BY <1>3 DEF ExecuteWrite
<1>5. Published'
  <2>1. HaveIsGood'
    <3> SUFFICES ASSUME NEW p \in have, NEW b \in BlocksOf(p) PROVE disk'[b] = "good"
      BY <1>1 DEF HaveIsGood
    <3>1. p \in Piece /\ b \in Block /\ b[1] = p
      <4>1. p \in Piece
        BY DEF AllTypes, PieceTypes
      <4> QED BY <4>1, BlockFacts
    <3>2. b # w.block
      BY <3>1 DEF JobInv, Published
    <3> QED BY <1>4, <3>1, <3>2 DEF JobInv, Published, HaveIsGood
  <2> QED BY <1>1, <2>1 DEF JobInv, Published
<1>6. ASSUME mode' = "running" PROVE WritesOwned' /\ HashesOwned' /\ HashesTrue' /\ FailedIsDiagnosed'
  <2>1. WritesOwned /\ HashesOwned /\ HashesTrue /\ FailedIsDiagnosed /\ mode = "running"
    BY <1>1, <1>6 DEF JobInv, JobsOwned
  <2>2. WritesOwned'
    <3>1. \A v \in writes' \cup written' :
             phase'[v.block] = "Writing" /\ v.generation = join'[v.block[1]].generation
      BY <1>1, <1>2, <2>1 DEF WritesOwned
    <3>2. \A b \in Block : phase'[b] = "Writing" => \E v \in writes' \cup written' : v.block = b
      BY <1>1, <1>2, <2>1 DEF WritesOwned
    <3>3. /\ \A u, v \in writes' : u.block = v.block => u = v
          /\ \A u, v \in written' : u.block = v.block => u = v
          /\ \A u \in writes', v \in written' : u.block # v.block
      BY <1>1, <1>2, <2>1 DEF WritesOwned
    <3> QED BY <3>1, <3>2, <3>3 DEF WritesOwned
  <2>3. HashesTrue'
    <3> SUFFICES ASSUME NEW h \in hashed, h.ok, NEW b \in BlocksOf(h.piece) PROVE disk'[b] = "good"
      BY <1>1 DEF HashesTrue
    <3>1. h.piece \in Piece /\ join[h.piece].hash = "Running"
      BY <2>1 DEF AllTypes, JobTypes, HashesOwned
    <3>2. phase[b] = "Received" /\ b \in Block
      BY <2>1, <3>1, HashedPieceFacts, BlockFacts DEF AllTypes
    <3>3. b # w.block
      BY <2>1, <3>2 DEF WritesOwned
    <3> QED BY <1>4, <2>1, <3>2, <3>3 DEF HashesTrue
  <2> QED BY <1>1, <2>1, <2>2, <2>3 DEF HashesOwned, FailedIsDiagnosed
<1> QED BY <1>5, <1>6 DEF JobInv, JobsOwned

\* The storage owner executes a hash: the answer is what is on disk.
LEMMA ExecuteHashJobs ==
  ASSUME AllTypes, JobInv, NEW h \in hashes, ExecuteHash(h)
  PROVE  JobInv'
<1> DEFINE good == \A b \in BlocksOf(h.piece) : disk[b] = "good"
           r == [piece |-> h.piece, generation |-> h.generation, ok |-> good]
<1>1. /\ hashes' = hashes \ {h} /\ hashed' = hashed \cup {r}
      /\ UNCHANGED <<phase, join, writes, written, disk, have, diagnosis, wanted, planned, mode>>
  BY DEF ExecuteHash, planVars, blockVars, runVars
<1>2. r.piece = h.piece /\ r.generation = h.generation /\ (r.ok => good)
  OBVIOUS
<1> HIDE DEF r
<1>3. Published'
  BY <1>1 DEF JobInv, Published, HaveIsGood
<1>4. ASSUME mode' = "running" PROVE WritesOwned' /\ HashesOwned' /\ HashesTrue' /\ FailedIsDiagnosed'
  <2>1. WritesOwned /\ HashesOwned /\ HashesTrue /\ FailedIsDiagnosed /\ mode = "running"
    BY <1>1, <1>4 DEF JobInv, JobsOwned
  <2>2. WritesOwned' /\ FailedIsDiagnosed'
    BY <1>1, <2>1 DEF WritesOwned, FailedIsDiagnosed
  <2>3. HashesOwned'
    <3>1. \A g \in hashes' \cup hashed' :
             join'[g.piece].hash = "Running" /\ g.generation = join'[g.piece].generation
      BY <1>1, <1>2, <2>1 DEF HashesOwned
    <3>2. \A p \in Piece : join'[p].hash = "Running" => \E g \in hashes' \cup hashed' : g.piece = p
      BY <1>1, <1>2, <2>1 DEF HashesOwned
    <3>3. /\ \A f, g \in hashes' : f.piece = g.piece => f = g
          /\ \A f, g \in hashed' : f.piece = g.piece => f = g
          /\ \A f \in hashes', g \in hashed' : f.piece # g.piece
      BY <1>1, <1>2, <2>1 DEF HashesOwned
    <3> QED BY <3>1, <3>2, <3>3 DEF HashesOwned
  <2>4. HashesTrue'
    BY <1>1, <1>2, <2>1 DEF HashesTrue
  <2> QED BY <2>2, <2>3, <2>4
<1> QED BY <1>3, <1>4 DEF JobInv, JobsOwned

\* A write is stored: the block is no longer Writing, and the hash begins with the last one.
LEMMA WriteStoredJobs ==
  ASSUME AllTypes, JobInv, NEW r \in written, WriteStored(r)
  PROVE  JobInv'
<1> DEFINE b == r.block
           p == b[1]
           j == WriteCompleted(join[p], TRUE)
           h == [piece |-> p, generation |-> j.generation]
<1>1. /\ mode = "running" /\ p \in planned /\ phase[b] = "Writing" /\ written' = written \ {r}
      /\ phase' = [phase EXCEPT ![b] = "Received"]
      /\ join' = [join EXCEPT ![p] = IF HashEligible(j) THEN [j EXCEPT !.hash = "Running"] ELSE j]
      /\ hashes' = IF HashEligible(j) THEN hashes \cup {h} ELSE hashes
      /\ UNCHANGED <<writes, hashed, disk, have, diagnosis, wanted, planned, mode>>
  BY DEF WriteStored, Idle, planVars, runVars
<1>2. b \in Block /\ p \in Piece /\ join[p].hash = "NotStarted"
  <2>1. b \in Block
    BY DEF AllTypes, JobsNamed
  <2> QED BY <1>1, <2>1, WritingFacts DEF AllTypes
<1>3. join \in [Piece -> JoinRecord] /\ phase \in [Block -> Phases]
  BY DEF AllTypes, OwnershipInv, Shape
<1>4. j.generation = join[p].generation /\ j.hash = "NotStarted" /\ h.piece = p /\ h.generation = j.generation
  <2>1. join[p] \in JoinRecord
    BY <1>2, <1>3
  <2> HIDE DEF p
  <2> QED BY <1>2, <2>1 DEF WriteCompleted, JoinRecord
<1>5. /\ join'[p].generation = join[p].generation
      /\ join'[p].hash = IF HashEligible(j) THEN "Running" ELSE "NotStarted"
      /\ \A q \in Piece : q # p => join'[q] = join[q]
  <2>1. j \in JoinRecord
    <3>1. join[p] \in JoinRecord
      BY <1>2, <1>3
    <3> HIDE DEF p
    <3> QED BY <3>1, JoinTypes
  <2> HIDE DEF j, p
  <2> QED BY <1>1, <1>2, <1>3, <1>4, <2>1 DEF JoinRecord
<1> HIDE DEF h, j
<1>6. phase'[b] = "Received" /\ \A d \in Block : d # b => phase'[d] = phase[d]
  BY <1>1, <1>2, <1>3
<1>7. WritesOwned /\ HashesOwned /\ HashesTrue /\ FailedIsDiagnosed /\ Published
  BY <1>1 DEF JobInv, JobsOwned
<1>8. \A v \in writes \cup written : v.block \in Block /\ v.block[1] \in Piece
  BY BlockFacts DEF AllTypes, JobsNamed
<1> HIDE DEF p, b
<1>9. \A v \in writes' \cup written' : v \in writes \cup written /\ v.block # b
  BY <1>1, <1>7 DEF WritesOwned, b
<1>10. WritesOwned'
  <2>1. \A v \in writes' \cup written' :
           phase'[v.block] = "Writing" /\ v.generation = join'[v.block[1]].generation
    BY <1>5, <1>6, <1>7, <1>8, <1>9 DEF WritesOwned
  <2>2. \A d \in Block : phase'[d] = "Writing" => \E v \in writes' \cup written' : v.block = d
    <3> SUFFICES ASSUME NEW d \in Block, phase'[d] = "Writing"
                 PROVE  \E v \in writes' \cup written' : v.block = d
      OBVIOUS
    <3>1. d # b /\ phase[d] = "Writing"
      BY <1>6
    <3>2. PICK v \in writes \cup written : v.block = d
      BY <1>7, <3>1 DEF WritesOwned
    <3>3. v # r
      BY <3>1, <3>2 DEF b
    <3> QED BY <1>1, <3>2, <3>3
  <2>3. /\ \A u, v \in writes' : u.block = v.block => u = v
        /\ \A u, v \in written' : u.block = v.block => u = v
        /\ \A u \in writes', v \in written' : u.block # v.block
    BY <1>1, <1>7 DEF WritesOwned
  <2> QED BY <2>1, <2>2, <2>3 DEF WritesOwned
<1>11. \A g \in hashes \cup hashed : g.piece # p /\ g.piece \in Piece
  BY <1>2, <1>7 DEF HashesOwned, AllTypes, JobTypes
<1>12. HashesOwned'
  <2>1. \A g \in hashes' \cup hashed' :
           join'[g.piece].hash = "Running" /\ g.generation = join'[g.piece].generation
    BY <1>1, <1>4, <1>5, <1>7, <1>11 DEF HashesOwned
  <2>2. \A q \in Piece : join'[q].hash = "Running" => \E g \in hashes' \cup hashed' : g.piece = q
    BY <1>1, <1>4, <1>5, <1>7 DEF HashesOwned
  <2>3. /\ \A f, g \in hashes' : f.piece = g.piece => f = g
        /\ \A f, g \in hashed' : f.piece = g.piece => f = g
        /\ \A f \in hashes', g \in hashed' : f.piece # g.piece
    BY <1>1, <1>4, <1>7, <1>11 DEF HashesOwned
  <2> QED BY <2>1, <2>2, <2>3 DEF HashesOwned
<1>13. HashesTrue' /\ FailedIsDiagnosed'
  BY <1>1, <1>5, <1>7 DEF HashesTrue, FailedIsDiagnosed
<1>14. Published'
  BY <1>1, <1>7 DEF Published, HaveIsGood
<1> QED BY <1>10, <1>12, <1>13, <1>14 DEF JobInv, JobsOwned

\* The end of a hash: the completion is taken, and the piece starts over with the blocks
\* bad, or retires.  In either case it has neither writes nor hashes any more.
LEMMA HashTaken ==
  ASSUME AllTypes, JobInv, mode = "running", NEW p \in Piece, join[p].hash # "NotStarted",
         hashed' = {h \in hashed : h.piece # p}, \A h \in hashes : h.piece # p,
         \A b \in Block : b \notin BlocksOf(p) => phase'[b] = phase[b],
         \A b \in BlocksOf(p) : phase'[b] # "Writing",
         \A q \in Piece : q # p => join'[q] = join[q],
         join'[p].hash \notin {"Running", "Failed"},
         diagnosis' = diagnosis \/ diagnosis = p,
         UNCHANGED <<writes, written, hashes, disk>>
  PROVE  WritesOwned' /\ HashesOwned' /\ HashesTrue' /\ FailedIsDiagnosed'
<1>1. WritesOwned /\ HashesOwned /\ HashesTrue /\ FailedIsDiagnosed
  BY DEF JobInv, JobsOwned
<1>2. \A b \in BlocksOf(p) : phase[b] = "Received"
  BY HashedPieceFacts DEF AllTypes
<1>3. \A b \in Block : b \notin BlocksOf(p) => b[1] # p /\ b[1] \in Piece
  BY BlockFacts
<1>4. \A v \in writes \cup written : v.block \in Block /\ v.block \notin BlocksOf(p)
  BY <1>1, <1>2 DEF AllTypes, JobsNamed, WritesOwned
<1>5. WritesOwned'
  <2>1. \A v \in writes' \cup written' :
           phase'[v.block] = "Writing" /\ v.generation = join'[v.block[1]].generation
    BY <1>1, <1>3, <1>4 DEF WritesOwned
  <2>2. \A d \in Block : phase'[d] = "Writing" => \E v \in writes' \cup written' : v.block = d
    BY <1>1 DEF WritesOwned
  <2> QED BY <1>1, <2>1, <2>2 DEF WritesOwned
<1>6. \A h \in hashes \cup hashed : h.piece \in Piece
  BY DEF AllTypes, JobTypes
<1>7. HashesOwned'
  <2>1. \A g \in hashes' \cup hashed' :
           join'[g.piece].hash = "Running" /\ g.generation = join'[g.piece].generation
    BY <1>1, <1>6 DEF HashesOwned
  <2>2. \A q \in Piece : join'[q].hash = "Running" => \E g \in hashes' \cup hashed' : g.piece = q
    BY <1>1 DEF HashesOwned
  <2>3. /\ \A f, g \in hashes' : f.piece = g.piece => f = g
        /\ \A f, g \in hashed' : f.piece = g.piece => f = g
        /\ \A f \in hashes', g \in hashed' : f.piece # g.piece
    BY <1>1 DEF HashesOwned
  <2> QED BY <2>1, <2>2, <2>3 DEF HashesOwned
<1>8. HashesTrue'
  BY <1>1 DEF HashesTrue
<1>9. FailedIsDiagnosed'
  BY <1>1 DEF FailedIsDiagnosed
<1> QED BY <1>5, <1>7, <1>8, <1>9

\* The completion of a running hash is the piece's only hash job.
LEMMA CurrentFacts ==
  ASSUME AllTypes, JobInv, NEW h, Current(h)
  PROVE  /\ mode = "running" /\ h.piece \in Piece /\ h.piece \in planned
         /\ h \in hashed /\ join[h.piece].hash = "Running"
         /\ hashed \ {h} = {g \in hashed : g.piece # h.piece} /\ \A g \in hashes : g.piece # h.piece
<1>1. mode = "running" /\ h \in hashed /\ h.piece \in planned /\ join[h.piece].hash = "Running"
  BY DEF Current, Idle
<1>2. h.piece \in Piece
  BY <1>1 DEF AllTypes, OwnershipInv, Shape
<1>3. HashesOwned
  BY <1>1 DEF JobInv, JobsOwned
<1> QED BY <1>1, <1>2, <1>3 DEF HashesOwned

\* A verified piece is published: what was hashed is what is on disk.
LEMMA PieceVerifiedJobs ==
  ASSUME AllTypes, JobInv, NEW h, PieceVerified(h)
  PROVE  JobInv'
<1> DEFINE p == h.piece
<1>1. /\ Current(h) /\ h.ok /\ hashed' = hashed \ {h} /\ wanted' = wanted \ {p}
      /\ planned' = planned \ {p} /\ have' = have \cup {p}
      /\ phase' = [b \in Block |-> IF b \in BlocksOf(p) THEN "None" ELSE phase[b]]
      /\ join' = [join EXCEPT ![p] = NewJoin(BlockCount[p])]
      /\ UNCHANGED <<writes, written, hashes, disk, diagnosis, mode>>
  BY DEF PieceVerified, runVars
<1>2. /\ mode = "running" /\ p \in Piece /\ h \in hashed /\ join[p].hash = "Running"
      /\ hashed' = {g \in hashed : g.piece # p} /\ \A g \in hashes : g.piece # p
  BY <1>1, CurrentFacts
<1> HIDE DEF p
<1>3. \A b \in BlocksOf(p) : b \in Block
  BY <1>2, BlockFacts
<1>4. /\ \A q \in Piece : q # p => join'[q] = join[q]
      /\ join'[p].hash = "NotStarted"
  BY <1>1, <1>2 DEF AllTypes, OwnershipInv, Shape, NewJoin
<1>5. WritesOwned' /\ HashesOwned' /\ HashesTrue' /\ FailedIsDiagnosed'
  BY <1>1, <1>2, <1>3, <1>4, HashTaken
<1>6. Published'
  <2>1. WritesOwned /\ HashesTrue /\ Published
    BY <1>2 DEF JobInv, JobsOwned
  <2>2. \A b \in BlocksOf(p) : disk[b] = "good" /\ phase[b] = "Received"
    BY <1>1, <1>2, <2>1, HashedPieceFacts DEF HashesTrue, AllTypes, p
  <2>3. \A w \in writes : w.block[1] # p
    <3> TAKE w \in writes
    <3>1. w.block \in Block /\ phase[w.block] = "Writing"
      BY <2>1 DEF AllTypes, JobsNamed, WritesOwned
    <3> QED BY <2>2, <3>1, BlockFacts
  <2> QED BY <1>1, <2>1, <2>2, <2>3 DEF Published, HaveIsGood
<1> QED BY <1>5, <1>6 DEF JobInv, JobsOwned

\* The failed piece starts over: the blocks in doubt become missing.
LEMMA ResetJobs ==
  ASSUME AllTypes, JobInv, mode = "running", NEW p \in Piece, NEW bad \in SUBSET BlocksOf(p),
         join[p].hash # "NotStarted", ResetBlocks(p, bad), diagnosis' = diagnosis \/ diagnosis = p,
         hashed' = {h \in hashed : h.piece # p}, \A h \in hashes : h.piece # p
  PROVE  JobInv'
<1>1. /\ phase' = [b \in Block |-> IF b \in bad THEN "Missing" ELSE phase[b]]
      /\ join' = [join EXCEPT ![p] = ResetForWrites(@, Cardinality(bad))]
      /\ UNCHANGED <<writes, written, hashes, disk, have, wanted, planned>>
  BY DEF ResetBlocks, planVars
<1>2. /\ \A q \in Piece : q # p => join'[q] = join[q]
      /\ join'[p].hash = "NotStarted"
  BY <1>1 DEF AllTypes, OwnershipInv, Shape, ResetForWrites, NewJoin
<1>3. \A b \in BlocksOf(p) : phase'[b] # "Writing"
  BY <1>1, HashedPieceFacts, BlockFacts DEF AllTypes
<1>4. \A b \in Block : b \notin BlocksOf(p) => phase'[b] = phase[b]
  BY <1>1
<1>5. WritesOwned' /\ HashesOwned' /\ HashesTrue' /\ FailedIsDiagnosed'
  BY <1>1, <1>2, <1>3, <1>4, HashTaken
<1>6. Published'
  BY <1>1 DEF JobInv, Published, HaveIsGood
<1> QED BY <1>5, <1>6 DEF JobInv, JobsOwned

\* A step out of the run may end jobs, and publishes nothing.
LEMMA LeavingJobs ==
  ASSUME JobInv, mode' # "running", writes' \subseteq writes, UNCHANGED <<disk, have, wanted, planned>>
  PROVE  JobInv'
BY DEF JobInv, JobsOwned, Published, HaveIsGood

\* A failed piece waits for its leaf hashes.
LEMMA BeginDiagnosisJobs ==
  ASSUME AllTypes, JobInv, NEW h, BeginDiagnosis(h)
  PROVE  JobInv'
<1> DEFINE p == h.piece
<1>1. /\ Current(h) /\ diagnosis = NoPiece /\ hashed' = hashed \ {h} /\ diagnosis' = p
      /\ join' = [join EXCEPT ![p].hash = "Failed"]
      /\ UNCHANGED <<phase, writes, written, hashes, disk, have, wanted, planned, mode>>
  BY DEF BeginDiagnosis, planVars, blockVars, runVars
<1>2. /\ mode = "running" /\ p \in Piece /\ join[p].hash = "Running"
      /\ hashed' = {g \in hashed : g.piece # p} /\ \A g \in hashes : g.piece # p
  BY <1>1, CurrentFacts
<1> HIDE DEF p
<1>3. join \in [Piece -> JoinRecord]
  BY DEF AllTypes, OwnershipInv, Shape
<1>4. /\ \A q \in Piece : q # p => join'[q] = join[q]
      /\ join'[p].hash = "Failed" /\ join'[p].generation = join[p].generation
  BY <1>1, <1>2, <1>3 DEF JoinRecord
<1>5. WritesOwned /\ HashesOwned /\ HashesTrue /\ FailedIsDiagnosed /\ Published
  BY <1>2 DEF JobInv, JobsOwned
<1>6. \A v \in writes \cup written : v.block[1] \in Piece
  BY BlockFacts DEF AllTypes, JobsNamed
<1>7. WritesOwned'
  <2>1. \A v \in writes' \cup written' : v.generation = join'[v.block[1]].generation
    BY <1>1, <1>4, <1>5, <1>6 DEF WritesOwned
  <2> QED BY <1>1, <1>5, <2>1 DEF WritesOwned
<1>8. \A g \in hashes \cup hashed : g.piece \in Piece
  BY DEF AllTypes, JobTypes
<1>9. HashesOwned'
  <2>1. \A g \in hashes' \cup hashed' :
           join'[g.piece].hash = "Running" /\ g.generation = join'[g.piece].generation
    BY <1>1, <1>2, <1>4, <1>5, <1>8 DEF HashesOwned
  <2>2. \A q \in Piece : join'[q].hash = "Running" => \E g \in hashes' \cup hashed' : g.piece = q
    BY <1>1, <1>2, <1>4, <1>5 DEF HashesOwned
  <2>3. /\ \A f, g \in hashes' : f.piece = g.piece => f = g
        /\ \A f, g \in hashed' : f.piece = g.piece => f = g
        /\ \A f \in hashes', g \in hashed' : f.piece # g.piece
    BY <1>1, <1>5 DEF HashesOwned
  <2> QED BY <2>1, <2>2, <2>3 DEF HashesOwned
<1>10. HashesTrue' /\ FailedIsDiagnosed'
  BY <1>1, <1>4, <1>5, PieceAssumption DEF HashesTrue, FailedIsDiagnosed
<1>11. Published'
  BY <1>1, <1>5 DEF Published, HaveIsGood
<1> QED BY <1>7, <1>9, <1>10, <1>11 DEF JobInv, JobsOwned

\* A diagnosis ends, or is abandoned because the priorities changed: its piece starts over.
LEMMA EndDiagnosisJobs ==
  ASSUME AllTypes, JobInv, mode = "running", diagnosis # NoPiece,
         NEW bad \in SUBSET BlocksOf(diagnosis),
         ResetBlocks(diagnosis, bad), UNCHANGED hashed
  PROVE  JobInv'
<1> DEFINE p == diagnosis
<1>1. p \in Piece /\ join[p].hash = "Failed"
  BY DEF AllTypes, OwnershipInv, Shape, Joined
<1>2. \A g \in hashes \cup hashed : g.piece # p
  BY <1>1 DEF JobInv, JobsOwned, HashesOwned
<1>3. hashed' = {g \in hashed : g.piece # p}
  BY <1>2
<1> QED BY <1>1, <1>2, <1>3, ResetJobs

\* A new selection: storage is drained, what it invalidated is published no more.
LEMMA ReplaceWantedJobs ==
  ASSUME AllTypes, JobInv, NEW W \in SUBSET Piece, NEW lost, ReplaceWanted(W, lost)
  PROVE  JobInv'
<1>1. /\ W \cap (have \ lost) = {} /\ wanted' = W /\ planned' = {} /\ have' = have \ lost
      /\ writes' = {} /\ written' = {} /\ hashes' = {} /\ hashed' = {}
      /\ disk' = [b \in Block |-> IF b[1] \in lost THEN "none" ELSE disk[b]]
      /\ phase' = [b \in Block |-> "None"]
      /\ join' = [p \in Piece |-> NewJoin(BlockCount[p])]
  BY DEF ReplaceWanted, Drained, Kept
<1>2. \A p \in Piece : join'[p].hash = "NotStarted"
  BY <1>1 DEF NewJoin
<1>3. WritesOwned' /\ HashesOwned' /\ HashesTrue' /\ FailedIsDiagnosed'
  BY <1>1, <1>2 DEF WritesOwned, HashesOwned, HashesTrue, FailedIsDiagnosed
<1>4. HaveIsGood'
  <2> SUFFICES ASSUME NEW p \in have \ lost, NEW b \in BlocksOf(p) PROVE disk'[b] = "good"
    BY <1>1 DEF HaveIsGood
  <2>1. b \in Block /\ b[1] = p
    BY BlockFacts DEF AllTypes, PieceTypes
  <2> QED BY <1>1, <2>1 DEF JobInv, Published, HaveIsGood
<1> QED BY <1>1, <1>3, <1>4 DEF JobInv, JobsOwned, Published

\* Every step keeps the storage jobs, the joins and the files in agreement.
LEMMA JobStep ==
  ASSUME AllTypes, JobInv, [Next]_vars
  PROVE  JobInv'
<1>0. OwnershipInv
  BY DEF AllTypes
<1>1. ASSUME UNCHANGED <<planVars, join, storeVars, mode>>,
             \A b \in Block : phase'[b] = "Writing" <=> phase[b] = "Writing"
      PROVE  JobInv'
  BY <1>1, JobsUntouched DEF planVars, storeVars, jobVars
<1>2. ASSUME NEW T \in SUBSET active, Terminate(T), UNCHANGED <<planVars, join, storeVars, mode>>
      PROVE  JobInv'
  <2>1. phase' = [b \in Block |-> IF b \in Orphaned(T) THEN "Missing" ELSE phase[b]]
    BY <1>2 DEF Terminate
  <2>2. \A b \in Orphaned(T) : phase[b] = "Requested"
    BY <1>0, OrphanedWasRequested
  <2> QED BY <1>1, <1>2, <2>1, <2>2
<1>3. ASSUME PeerNext PROVE JobInv'
  <2>1. ASSUME NEW c \in Conn, RemoveConnection(c) \/ CloseBanned(c) PROVE JobInv'
    BY <1>2, <2>1 DEF RemoveConnection, CloseBanned, Disconnect, Owned, runVars
  <2>2. ASSUME NEW c \in Conn, Choke(c) PROVE JobInv'
    BY <1>2, <2>2 DEF Choke, Owned, runVars
  <2>3. ASSUME NEW a \in active, RejectRequest(a) PROVE JobInv'
    BY <1>2, <2>3 DEF RejectRequest, runVars
  <2>4. ASSUME NEW c \in Conn, NEW b \in Block, NEW content, ReceiveBlock(c, b, content) PROVE JobInv'
    BY <2>4, ReceiveJobs
  <2>5. ASSUME NEW c, NEW x, AddConnection(c) \/ Unchoke(c) \/ SetAvailability(c, x)
                             \/ PeerHas(c, x) \/ AllowedFast(c, x)
        PROVE  JobInv'
    BY <1>1, <2>5 DEF AddConnection, Unchoke, SetAvailability, PeerHas, AllowedFast, blockVars, runVars
  <2> QED BY <1>3, <2>1, <2>2, <2>3, <2>4, <2>5 DEF PeerNext
<1>4. ASSUME ScheduleNext PROVE JobInv'
  <2>1. ASSUME NEW p \in Piece, PlanPiece(p) PROVE JobInv'
    <3>1. mode = "running" /\ p \in wanted \ planned /\ Plan({p}, {})
      BY <2>1 DEF PlanPiece, Idle
    <3>2. {p} \in SUBSET Piece /\ {} \in SUBSET planned /\ {p} \cap planned = {} /\ {p} \subseteq wanted
      BY <3>1
    <3> QED BY <3>1, <3>2, PlanJobs
  <2>2. ASSUME NEW p \in Piece, NEW fits \in BOOLEAN, PlanForStreaming(p, fits) PROVE JobInv'
    <3>1. mode = "running" /\ p \in wanted \ planned
      BY <2>2 DEF PlanForStreaming, Idle
    <3>2. CASE Cardinality(planned) < MaxPlanned
      <4>1. Plan({p}, {})
        BY <2>2, <3>2 DEF PlanForStreaming
      <4>2. {p} \in SUBSET Piece /\ {} \in SUBSET planned /\ {p} \cap planned = {} /\ {p} \subseteq wanted
        BY <3>1
      <4> QED BY <3>1, <4>1, <4>2, PlanJobs
    <3>3. CASE ~(Cardinality(planned) < MaxPlanned)
      <4> DEFINE untouched == {q \in planned \ Demand : \A b \in BlocksOf(q) : phase[b] = "Missing"}
                 P == IF fits THEN {p} ELSE {}
      <4>1. untouched # {} /\ Plan(P, {Max(untouched)})
        BY <2>2, <3>3 DEF PlanForStreaming
      <4>2. Max(untouched) \in untouched
        <5>1. untouched \in SUBSET Nat /\ untouched \in SUBSET Piece
          BY <1>0, PieceAssumption DEF OwnershipInv, Shape
        <5>2. IsFiniteSet(untouched)
          BY <5>1, PieceAssumption, FS_Subset
        <5> HIDE DEF untouched
        <5> QED BY <4>1, <5>1, <5>2, MaxOfNaturals
      <4>3. /\ P \in SUBSET Piece /\ {Max(untouched)} \in SUBSET planned
            /\ P \cap planned = {} /\ P \subseteq wanted
            /\ \A q \in {Max(untouched)} : \A b \in BlocksOf(q) : phase[b] = "Missing"
        <5> DEFINE m == Max(untouched)
        <5>1. m \in planned /\ \A b \in BlocksOf(m) : phase[b] = "Missing"
          BY <4>2
        <5> HIDE DEF m, untouched
        <5> QED BY <3>1, <5>1 DEF m
      <4> HIDE DEF P, untouched
      <4> QED BY <3>1, <4>1, <4>3, PlanJobs
    <3> QED BY <3>2, <3>3
  <2>3. ASSUME NEW c, NEW b, NEW purpose, AssignPrimary(c, b, purpose) PROVE JobInv'
    <3>1. /\ phase[b] = "Missing" /\ phase' = [phase EXCEPT ![b] = "Requested"]
          /\ UNCHANGED <<planVars, join, storeVars, mode>>
      BY <2>3 DEF AssignPrimary, Assign, runVars
    <3>2. \A d \in Block : phase'[d] = "Writing" <=> phase[d] = "Writing"
      BY <1>0, <3>1 DEF OwnershipInv, Shape
    <3> QED BY <1>1, <3>1, <3>2
  <2>4. ASSUME NEW c, NEW b, NEW purpose, AssignDuplicate(c, b, purpose) PROVE JobInv'
    BY <1>1, <2>4 DEF AssignDuplicate, Assign, runVars
  <2>5. ASSUME NEW c, \/ ScheduleActive(c) \/ ScheduleEndgame(c)
                      \/ \E p \in Piece : ScheduleInactive(c, p) \/ ScheduleStreaming(c, p)
                      \/ \E b \in Block : ScheduleStreamingDuplicate(c, b)
        PROVE  JobInv'
    BY <2>3, <2>4, <2>5 DEF ScheduleActive, ScheduleEndgame, ScheduleInactive, ScheduleStreaming,
                            ScheduleStreamingDuplicate
  <2>6. ASSUME NEW T \in SUBSET active, ExpireRequests(T) PROVE JobInv'
    BY <1>2, <2>6 DEF ExpireRequests, runVars
  <2> QED BY <1>4, <2>1, <2>2, <2>5, <2>6 DEF ScheduleNext
<1>5. ASSUME StorageNext PROVE JobInv'
  <2>1. ASSUME NEW h \in hashed, PieceHashFailed(h) PROVE JobInv'
    <3>1. /\ Current(h) /\ hashed' = hashed \ {h} /\ diagnosis' = diagnosis
          /\ ResetBlocks(h.piece, BlocksOf(h.piece))
      BY <2>1 DEF PieceHashFailed
    <3> QED BY <3>1, CurrentFacts, ResetJobs
  <2>2. ASSUME NEW h, HashFatal(h) PROVE JobInv'
    BY <2>2, LeavingJobs DEF HashFatal, planVars
  <2>3. ASSUME NEW r, WriteFailed(r) PROVE JobInv'
    BY <2>3, LeavingJobs DEF WriteFailed, planVars
  <2>4. ASSUME NEW bad, FinishDiagnosis(bad) PROVE JobInv'
    BY <2>4, EndDiagnosisJobs DEF FinishDiagnosis, Idle
  <2> QED BY <1>5, <2>1, <2>2, <2>3, <2>4, ExecuteWriteJobs, ExecuteHashJobs, WriteStoredJobs,
             PieceVerifiedJobs, BeginDiagnosisJobs DEF StorageNext
<1>6. ASSUME RunNext PROVE JobInv'
  <2>1. ASSUME ReplacePriorities PROVE JobInv'
    <3>1. CASE diagnosis = NoPiece
      BY <1>1, <2>1, <3>1 DEF ReplacePriorities, blockVars
    <3>2. CASE diagnosis # NoPiece
      BY <2>1, <3>2, EndDiagnosisJobs DEF ReplacePriorities, Idle
    <3> QED BY <3>1, <3>2
  <2>2. ASSUME BeginStop \/ CancelAll \/ StopStorage PROVE JobInv'
    BY <2>2, LeavingJobs DEF BeginStop, CancelAll, StopStorage, planVars, storeVars, jobVars
  <2>3. ASSUME Stopped PROVE JobInv'
    BY <1>1, <2>3 DEF Stopped, vars, blockVars, runVars
  <2> QED BY <1>6, <2>1, <2>2, <2>3, ReplaceWantedJobs DEF RunNext
<1>7. ASSUME UNCHANGED vars PROVE JobInv'
  BY <1>1, <1>7 DEF vars, blockVars, runVars
<1> QED BY <1>3, <1>4, <1>5, <1>6, <1>7 DEF Next

\* Nothing runs at first, and what is published is on disk.
LEMMA JobInit == Init => JobInv
<1> SUFFICES ASSUME Init PROVE JobInv
  OBVIOUS
<1>1. \A p \in Piece : join[p].hash = "NotStarted"
  BY DEF Init, NewJoin
<1>2. WritesOwned /\ HashesOwned /\ HashesTrue /\ FailedIsDiagnosed
  BY <1>1 DEF Init, WritesOwned, HashesOwned, HashesTrue, FailedIsDiagnosed
<1>3. HaveIsGood
  <2> SUFFICES ASSUME NEW p \in have, NEW b \in BlocksOf(p) PROVE disk[b] = "good"
    BY DEF HaveIsGood
  <2>1. p \in Piece
    BY DEF Init
  <2>2. b \in Block /\ b[1] = p
    BY <2>1, BlockFacts
  <2> QED BY <2>2 DEF Init
<1> QED BY <1>2, <1>3 DEF Init, JobInv, JobsOwned, Published

\* The invariant of the storage jobs holds in every reachable state.
THEOREM JobInvariant == Spec => [](AllTypes /\ JobInv)
<1>1. Init => AllTypes /\ JobInv
  BY TypesInit, JobInit
<1>2. AllTypes /\ JobInv /\ [Next]_vars => (AllTypes /\ JobInv)'
  BY TypesStep, JobStep
<1> QED BY <1>1, <1>2, PTL DEF Spec

\* No unverified piece becomes authoritative: for any number of peers, pieces and blocks, a
\* published piece is good on disk, whatever corrupt payloads, failed writes, late blocks,
\* new selections and teardowns happened (driver.rs handle_storage_completion).
THEOREM HaveIsGoodHolds == Spec => []HaveIsGood
<1>1. JobInv => HaveIsGood
  BY DEF JobInv, Published
<1> QED BY <1>1, JobInvariant, PTL

\* The write/hash join of PieceStorageJoin: a block is Writing exactly while one write of
\* the current generation is with the storage owner, a hash runs exactly while one hash job
\* of the current generation exists and only over received blocks, and the join counts the
\* writes still to come; so no completion that a running torrent handles is stale.
THEOREM StorageJoinSoundHolds == Spec => []StorageJoinSound
<1>1. ASSUME AllTypes, JobInv, mode = "running" PROVE StorageJoinSound
  <2>1. OwnershipInv /\ WritesOwned /\ HashesOwned /\ FailedIsDiagnosed
    BY <1>1 DEF AllTypes, JobInv, JobsOwned
  <2>2. Cardinality({}) = 0 /\ \A x : Cardinality({x}) = 1
    BY FS_EmptySet, FS_Singleton, Zenon
  <2>3. ASSUME NEW b \in Block
        PROVE  /\ Cardinality(WritesOf(b)) = IF phase[b] = "Writing" THEN 1 ELSE 0
               /\ \A w \in WritesOf(b) : w.generation = join[b[1]].generation
    <3>1. \A w \in WritesOf(b) : w \in writes \cup written /\ w.block = b
      BY DEF WritesOf
    <3>2. CASE phase[b] = "Writing"
      <4>1. PICK w \in writes \cup written : w.block = b
        BY <2>1, <3>2 DEF WritesOwned
      <4>2. WritesOf(b) = {w}
        BY <2>1, <4>1 DEF WritesOwned, WritesOf
      <4> QED BY <2>1, <2>2, <3>1, <3>2, <4>2 DEF WritesOwned
    <3>3. CASE phase[b] # "Writing"
      <4>1. WritesOf(b) = {}
        BY <2>1, <3>1, <3>3 DEF WritesOwned
      <4> QED BY <2>2, <3>3, <4>1
    <3> QED BY <3>2, <3>3
  <2>4. ASSUME NEW p \in Piece
        PROVE  /\ Cardinality(HashesOf(p)) = IF join[p].hash = "Running" THEN 1 ELSE 0
               /\ \A h \in HashesOf(p) : h.generation = join[p].generation
    <3>1. \A h \in HashesOf(p) : h \in hashes \cup hashed /\ h.piece = p
      BY DEF HashesOf
    <3>2. CASE join[p].hash = "Running"
      <4>1. PICK h \in hashes \cup hashed : h.piece = p
        BY <2>1, <3>2 DEF HashesOwned
      <4>2. HashesOf(p) = {h}
        BY <2>1, <4>1 DEF HashesOwned, HashesOf
      <4> QED BY <2>1, <2>2, <3>1, <3>2, <4>2 DEF HashesOwned
    <3>3. CASE join[p].hash # "Running"
      <4>1. HashesOf(p) = {}
        BY <2>1, <3>1, <3>3 DEF HashesOwned
      <4> QED BY <2>2, <3>3, <4>1
    <3> QED BY <3>2, <3>3
  <2>5. ASSUME NEW p \in Piece, join[p].hash # "NotStarted"
        PROVE  /\ p \in planned /\ \A b \in BlocksOf(p) : phase[b] = "Received"
               /\ join[p].hash = "Failed" => diagnosis = p
    BY <1>1, <2>1, <2>5, HashedPieceFacts DEF FailedIsDiagnosed
  <2>6. ASSUME NEW p \in Piece, p \in planned
        PROVE  join[p].expected - join[p].completed =
                 Cardinality(InPhase({"Missing", "Requested", "Writing"}) \cap BlocksOf(p))
    <3>1. InPhase({"Missing", "Requested", "Writing"}) \cap BlocksOf(p) = UnwrittenOf(p)
      BY BlockFacts DEF InPhase, UnwrittenOf, InPiece
    <3>2. join[p].expected - join[p].completed = Cardinality(UnwrittenOf(p))
      BY <1>1, <2>1, <2>6 DEF OwnershipInv, Joined
    <3> QED BY <3>1, <3>2
  <2> QED BY <2>3, <2>4, <2>5, <2>6 DEF StorageJoinSound
<1>2. AllTypes /\ JobInv => StorageJoinSound
  BY <1>1 DEF StorageJoinSound
<1> QED BY <1>2, JobInvariant, PTL

-----------------------------------------------------------------------------
(* What a step may never do. *)

\* A peer that closes or starts to choke takes along its own requests only: whatever the
\* other steps do, the requests of every other connection survive it (swarm.rs
\* remove_connection and set_choking release the attempts of that connection).
THEOREM ReleaseIsLocalHolds == Spec => ReleaseIsLocal
<1> DEFINE Local == \A c \in Conn :
             (conn[c] = "open" /\ conn'[c] = "closed") \/ (~choking[c] /\ choking'[c])
               => {a \in active : a.conn # c} \subseteq active'
<1>1. ASSUME AllTypes, Next PROVE Local
  <2>1. conn \in [Conn -> {"new", "open", "closed"}] /\ choking \in [Conn -> BOOLEAN]
    BY <1>1 DEF AllTypes, OwnershipInv, Shape, PeerTypes
  <2>2. ASSUME UNCHANGED <<conn, choking>> PROVE Local
    BY <2>2
  <2>3. ASSUME PeerNext PROVE Local
    <3>1. ASSUME NEW c \in Conn, AddConnection(c) \/ Unchoke(c) PROVE Local
      BY <2>1, <3>1 DEF AddConnection, Unchoke
    <3>2. ASSUME NEW c \in Conn, Disconnect(c) PROVE Local
      <4>1. /\ conn' = [conn EXCEPT ![c] = "closed"] /\ choking' = choking
            /\ active' = active \ Owned(c)
        BY <3>2 DEF Disconnect, Terminate
      <4> QED BY <2>1, <4>1 DEF Owned
    <3>3. ASSUME NEW c \in Conn, Choke(c) PROVE Local
      <4>1. /\ choking' = [choking EXCEPT ![c] = TRUE] /\ conn' = conn
            /\ active' = active \ (IF c \in FastConn THEN {} ELSE Owned(c))
        BY <3>3 DEF Choke, Terminate
      <4> QED BY <2>1, <4>1 DEF Owned
    <3>4. ASSUME NEW c, NEW x, NEW y, \/ SetAvailability(c, x) \/ PeerHas(c, x) \/ AllowedFast(c, x)
                                      \/ ReceiveBlock(c, x, y) \/ RejectRequest(c)
          PROVE  Local
      BY <2>2, <3>4 DEF SetAvailability, PeerHas, AllowedFast, ReceiveBlock, RejectRequest, connVars
    <3> HIDE DEF Local
    <3> QED BY <2>3, <3>1, <3>2, <3>3, <3>4 DEF PeerNext, RemoveConnection, CloseBanned
  <2>4. ASSUME ScheduleNext \/ StorageNext \/ RunNext PROVE UNCHANGED <<conn, choking>>
    <3>1. ASSUME NEW c, NEW b, NEW purpose,
                 AssignPrimary(c, b, purpose) \/ AssignDuplicate(c, b, purpose)
          PROVE  UNCHANGED <<conn, choking>>
      BY <3>1 DEF AssignPrimary, AssignDuplicate, Assign, connVars
    <3>2. ASSUME ScheduleNext PROVE UNCHANGED <<conn, choking>>
      <4>1. ASSUME NEW c, \/ ScheduleActive(c) \/ ScheduleEndgame(c)
                          \/ \E p \in Piece : ScheduleInactive(c, p) \/ ScheduleStreaming(c, p)
                          \/ \E b \in Block : ScheduleStreamingDuplicate(c, b)
            PROVE  UNCHANGED <<conn, choking>>
        BY <3>1, <4>1 DEF ScheduleActive, ScheduleEndgame, ScheduleInactive, ScheduleStreaming,
                          ScheduleStreamingDuplicate
      <4>2. ASSUME NEW p, PlanPiece(p) \/ \E fits \in BOOLEAN : PlanForStreaming(p, fits)
            PROVE  UNCHANGED <<conn, choking>>
        BY <4>2 DEF PlanPiece, PlanForStreaming, Plan, connVars
      <4>3. ASSUME NEW T, ExpireRequests(T) PROVE UNCHANGED <<conn, choking>>
        BY <4>3 DEF ExpireRequests, connVars
      <4> QED BY <3>2, <4>1, <4>2, <4>3 DEF ScheduleNext
    <3>3. ASSUME StorageNext PROVE UNCHANGED <<conn, choking>>
      BY <3>3 DEF StorageNext, ExecuteWrite, ExecuteHash, WriteStored, WriteFailed, PieceVerified,
         PieceHashFailed, ResetBlocks, BeginDiagnosis, HashFatal, FinishDiagnosis, connVars
    <3>4. ASSUME RunNext PROVE UNCHANGED <<conn, choking>>
      BY <3>4 DEF RunNext, ReplaceWanted, ReplacePriorities, ResetBlocks, BeginStop, CancelAll,
         StopStorage, Stopped, vars, connVars
    <3> QED BY <2>4, <3>2, <3>3, <3>4
  <2> HIDE DEF Local
  <2> QED BY <1>1, <2>2, <2>3, <2>4 DEF Next
<1>2. AllTypes /\ [Next]_vars => [Local]_vars
  BY <1>1
<1> QED BY <1>2, JobInvariant, PTL DEF Spec, ReleaseIsLocal

\* what an accepted write stores is a payload, and a write that reports success stored it
DiskInv ==
  /\ \A w \in writes : w.content # "none"
  /\ \A r \in written : r.ok => disk[r.block] # "none"

\* Only the storage owner and a new selection change the disk, and a new selection waits
\* until no write is left.
LEMMA DiskStep ==
  ASSUME AllTypes, DiskInv, [Next]_vars
  PROVE  DiskInv'
<1> USE DEF DiskInv
<1>1. ASSUME writes' \subseteq writes, written' \subseteq written, disk' = disk PROVE DiskInv'
  BY <1>1
<1>2. ASSUME NEW c \in Conn, NEW b \in Block, NEW content \in {"good", "bad"},
             ReceiveBlock(c, b, content)
      PROVE  DiskInv'
  <2> DEFINE w == [block |-> b, generation |-> join[b[1]].generation, content |-> content]
  <2>1. writes' = writes \cup {w} /\ UNCHANGED <<written, disk>> /\ w.content # "none"
    BY <1>2 DEF ReceiveBlock
  <2> HIDE DEF w
  <2> QED BY <2>1
<1>3. ASSUME NEW w \in writes, ExecuteWrite(w) PROVE DiskInv'
  <2>1. w.block \in Block /\ disk \in [Block -> Content] /\ w.content # "none"
    BY <1>3 DEF AllTypes, JobsNamed, JobTypes
  <2>2. \A r \in written : r.block \in Block
    BY DEF AllTypes, JobsNamed
  <2> DEFINE good == [block |-> w.block, generation |-> w.generation, ok |-> TRUE]
             failed == [block |-> w.block, generation |-> w.generation, ok |-> FALSE]
  <2>3. good.block = w.block /\ ~failed.ok
    OBVIOUS
  <2>4. writes' \subseteq writes
    BY <1>3 DEF ExecuteWrite
  <2>5. \/ disk' = [disk EXCEPT ![w.block] = w.content] /\ written' = written \cup {good}
        \/ /\ \E content \in {disk[w.block], "bad"} : disk' = [disk EXCEPT ![w.block] = content]
           /\ written' = written \cup {failed}
    BY <1>3 DEF ExecuteWrite
  <2> HIDE DEF good, failed
  <2>6. \A b \in Block : disk[b] # "none" => disk'[b] # "none"
    BY <2>1, <2>5
  <2> QED BY <2>1, <2>2, <2>3, <2>4, <2>5, <2>6
<1>4. ASSUME NEW W, NEW lost, ReplaceWanted(W, lost) PROVE DiskInv'
  BY <1>4 DEF ReplaceWanted, Drained
<1>5. ASSUME NEW c, NEW b, NEW purpose,
             AssignPrimary(c, b, purpose) \/ AssignDuplicate(c, b, purpose)
      PROVE  DiskInv'
  BY <1>1, <1>5 DEF AssignPrimary, AssignDuplicate, Assign, storeVars, jobVars
<1>6. ASSUME PeerNext PROVE DiskInv'
  <2>1. ASSUME NEW c, NEW x, \/ AddConnection(c) \/ Unchoke(c) \/ SetAvailability(c, x)
                             \/ PeerHas(c, x) \/ AllowedFast(c, x) \/ Disconnect(c)
                             \/ Choke(c) \/ RejectRequest(c)
        PROVE  DiskInv'
    BY <1>1, <2>1 DEF AddConnection, Unchoke, SetAvailability, PeerHas, AllowedFast, Disconnect,
                      Choke, RejectRequest, storeVars, jobVars
  <2> HIDE DEF DiskInv
  <2> QED BY <1>2, <1>6, <2>1 DEF PeerNext, RemoveConnection, CloseBanned
<1>7. ASSUME ScheduleNext PROVE DiskInv'
  <2>1. ASSUME NEW c, \/ ScheduleActive(c) \/ ScheduleEndgame(c)
                      \/ \E p \in Piece : ScheduleInactive(c, p) \/ ScheduleStreaming(c, p)
                      \/ \E b \in Block : ScheduleStreamingDuplicate(c, b)
        PROVE  DiskInv'
    BY <1>5, <2>1 DEF ScheduleActive, ScheduleEndgame, ScheduleInactive, ScheduleStreaming,
                      ScheduleStreamingDuplicate
  <2>2. ASSUME NEW P, NEW Q, Plan(P, Q) PROVE DiskInv'
    BY <1>1, <2>2 DEF Plan, storeVars, jobVars
  <2>3. ASSUME NEW p, PlanPiece(p) \/ \E fits \in BOOLEAN : PlanForStreaming(p, fits) PROVE DiskInv'
    BY <2>2, <2>3 DEF PlanPiece, PlanForStreaming
  <2>4. ASSUME NEW T, ExpireRequests(T) PROVE DiskInv'
    BY <1>1, <2>4 DEF ExpireRequests, storeVars, jobVars
  <2> HIDE DEF DiskInv
  <2> QED BY <1>7, <2>1, <2>3, <2>4 DEF ScheduleNext
<1>8. ASSUME StorageNext PROVE DiskInv'
  <2>1. ASSUME NEW r, \/ ExecuteHash(r) \/ WriteStored(r) \/ WriteFailed(r) \/ PieceVerified(r)
                      \/ PieceHashFailed(r) \/ BeginDiagnosis(r) \/ HashFatal(r)
                      \/ FinishDiagnosis(r)
        PROVE  DiskInv'
    BY <1>1, <2>1 DEF ExecuteHash, WriteStored, WriteFailed, PieceVerified, PieceHashFailed,
                      ResetBlocks, BeginDiagnosis, HashFatal, FinishDiagnosis
  <2> HIDE DEF DiskInv
  <2> QED BY <1>3, <1>8, <2>1 DEF StorageNext
<1>9. ASSUME RunNext PROVE DiskInv'
  <2>1. ASSUME ReplacePriorities \/ BeginStop \/ CancelAll \/ StopStorage \/ Stopped PROVE DiskInv'
    BY <1>1, <2>1 DEF ReplacePriorities, ResetBlocks, BeginStop, CancelAll, StopStorage, Stopped,
                      vars, storeVars, jobVars
  <2> HIDE DEF DiskInv
  <2> QED BY <1>4, <1>9, <2>1 DEF RunNext
<1>10. ASSUME UNCHANGED vars PROVE DiskInv'
  BY <1>1, <1>10 DEF vars, storeVars, jobVars
<1> HIDE DEF DiskInv
<1> QED BY <1>6, <1>7, <1>8, <1>9, <1>10 DEF Next

\* A block that is stored stays stored until its piece starts over, is published or the
\* selection changes, and it gets there only through a write that put a payload on disk
\* (swarm.rs finish_write_for_generation, mark_piece_hash_failed_blocks_for_generation).
THEOREM ReceivedIsStableHolds == Spec => ReceivedIsStable
<1> DEFINE Stable == \A b \in Block :
             LET p == b[1]
             IN /\ (phase[b] = "Received" /\ phase'[b] # "Received") =>
                     \/ join'[p].generation = join[p].generation + 1
                     \/ p \in have' \ have
                     \/ revision' # revision
                /\ (phase[b] # "Received" /\ phase'[b] = "Received") =>
                     phase[b] = "Writing" /\ disk[b] # "none"
<1>1. ASSUME AllTypes, JobInv, DiskInv, Next PROVE Stable
  <2>0. OwnershipInv /\ Shape /\ phase \in [Block -> Phases]
    BY <1>1 DEF AllTypes, OwnershipInv, Shape
  <2>1. ASSUME \A b \in Block : phase'[b] = "Received" <=> phase[b] = "Received" PROVE Stable
    BY <2>1
  <2>2. ASSUME NEW F \in SUBSET Block, \A b \in F : phase[b] # "Received",
               NEW new, new # "Received",
               phase' = [b \in Block |-> IF b \in F THEN new ELSE phase[b]]
        PROVE  Stable
    BY <2>1, <2>2
  <2>3. ASSUME NEW T \in SUBSET active, Terminate(T) PROVE Stable
    <3>1. phase' = [b \in Block |-> IF b \in Orphaned(T) THEN "Missing" ELSE phase[b]]
      BY <2>3 DEF Terminate
    <3>2. \A b \in Orphaned(T) : phase[b] = "Requested"
      BY <2>0, OrphanedWasRequested
    <3>3. Orphaned(T) \in SUBSET Block
      BY DEF Orphaned
    <3> QED BY <2>2, <3>1, <3>2, <3>3
  <2>4. ASSUME NEW b, NEW new, phase[b] # "Received", new # "Received",
               phase' = [phase EXCEPT ![b] = new]
        PROVE  Stable
    BY <2>0, <2>1, <2>4
  <2>5. ASSUME NEW p \in Piece, NEW bad \in SUBSET BlocksOf(p), ResetBlocks(p, bad) PROVE Stable
    <3>1. /\ phase' = [b \in Block |-> IF b \in bad THEN "Missing" ELSE phase[b]]
          /\ join' = [join EXCEPT ![p] = ResetForWrites(@, Cardinality(bad))]
      BY <2>5 DEF ResetBlocks
    <3>2. join'[p].generation = join[p].generation + 1
      BY <2>0, <3>1 DEF Shape, ResetForWrites, NewJoin
    <3>3. \A b \in bad : b[1] = p
      BY BlockFacts
    <3> QED BY <3>1, <3>2, <3>3
  <2>6. ASSUME PeerNext PROVE Stable
    <3>1. ASSUME NEW c \in Conn, Disconnect(c) \/ Choke(c) PROVE Stable
      <4>1. Owned(c) \in SUBSET active /\ {} \in SUBSET active
        BY DEF Owned
      <4> HIDE DEF Stable
      <4> QED BY <2>3, <3>1, <4>1 DEF Disconnect, Choke
    <3>2. ASSUME NEW a \in active, RejectRequest(a) PROVE Stable
      <4>1. {a} \in SUBSET active /\ Terminate({a})
        BY <3>2 DEF RejectRequest
      <4> HIDE DEF Stable
      <4> QED BY <2>3, <4>1
    <3>3. ASSUME NEW c, NEW b, NEW content, ReceiveBlock(c, b, content) PROVE Stable
      <4>1. phase[b] = "Requested" /\ phase' = [phase EXCEPT ![b] = "Writing"]
        BY <3>3 DEF ReceiveBlock
      <4> HIDE DEF Stable
      <4> QED BY <2>4, <4>1
    <3>4. ASSUME NEW c, NEW x, \/ AddConnection(c) \/ Unchoke(c) \/ SetAvailability(c, x)
                               \/ PeerHas(c, x) \/ AllowedFast(c, x)
          PROVE  Stable
      <4>1. phase' = phase
        BY <3>4 DEF AddConnection, Unchoke, SetAvailability, PeerHas, AllowedFast, blockVars
      <4> QED BY <2>1, <4>1
    <3> HIDE DEF Stable
    <3> QED BY <2>6, <3>1, <3>2, <3>3, <3>4 DEF PeerNext, RemoveConnection, CloseBanned
  <2>7. ASSUME ScheduleNext PROVE Stable
    <3>1. ASSUME NEW c, NEW b, NEW purpose,
                 AssignPrimary(c, b, purpose) \/ AssignDuplicate(c, b, purpose)
          PROVE  Stable
      <4>1. \/ phase' = phase
            \/ phase[b] = "Missing" /\ phase' = [phase EXCEPT ![b] = "Requested"]
        BY <3>1 DEF AssignPrimary, AssignDuplicate
      <4>2. CASE phase' = phase
        BY <2>1, <4>2
      <4>3. CASE phase[b] = "Missing" /\ phase' = [phase EXCEPT ![b] = "Requested"]
        <5> HIDE DEF Stable
        <5> QED BY <2>4, <4>3
      <4> QED BY <4>1, <4>2, <4>3
    <3>2. ASSUME NEW c, \/ ScheduleActive(c) \/ ScheduleEndgame(c)
                        \/ \E p \in Piece : ScheduleInactive(c, p) \/ ScheduleStreaming(c, p)
                        \/ \E b \in Block : ScheduleStreamingDuplicate(c, b)
          PROVE  Stable
      <4> HIDE DEF Stable
      <4> QED BY <3>1, <3>2 DEF ScheduleActive, ScheduleEndgame, ScheduleInactive,
                                ScheduleStreaming, ScheduleStreamingDuplicate
    <3>3. ASSUME NEW P, P \cap planned = {}, NEW Q, Plan(P, Q),
                 \A q \in Q : \A b \in BlocksOf(q) : phase[b] = "Missing"
          PROVE  Stable
      <4>1. phase' = [b \in Block |-> IF b[1] \in P THEN "Missing"
                                      ELSE IF b[1] \in Q THEN "None" ELSE phase[b]]
        BY <3>3 DEF Plan
      <4>2. \A b \in Block : b[1] \in P \cup Q => phase[b] # "Received"
        <5> SUFFICES ASSUME NEW b \in Block, b[1] \in P \cup Q PROVE phase[b] # "Received"
          OBVIOUS
        <5>1. b[1] \in Piece /\ b \in BlocksOf(b[1])
          BY BlockFacts
        <5> QED BY <2>0, <3>3, <5>1 DEF OwnershipInv, PlansHavePhases
      <4> QED BY <2>1, <4>1, <4>2
    <3>4. ASSUME NEW p \in Piece, PlanPiece(p) \/ \E fits \in BOOLEAN : PlanForStreaming(p, fits)
          PROVE  Stable
      <4>1. p \notin planned
        BY <3>4 DEF PlanPiece, PlanForStreaming
      <4>2. CASE Plan({p}, {})
        <5> HIDE DEF Stable
        <5> QED BY <3>3, <4>1, <4>2
      <4>3. CASE ~Plan({p}, {})
        <5> DEFINE untouched == {q \in planned \ Demand : \A b \in BlocksOf(q) : phase[b] = "Missing"}
        <5>1. PICK fits \in BOOLEAN :
                untouched # {} /\ Plan(IF fits THEN {p} ELSE {}, {Max(untouched)})
          BY <3>4, <4>3 DEF PlanPiece, PlanForStreaming
        <5>2. Max(untouched) \in untouched
          <6>1. untouched \in SUBSET Nat /\ untouched \in SUBSET Piece
            BY <2>0, PieceAssumption DEF Shape
          <6>2. IsFiniteSet(untouched)
            BY <6>1, PieceAssumption, FS_Subset
          <6> HIDE DEF untouched
          <6> QED BY <5>1, <6>1, <6>2, MaxOfNaturals
        <5> DEFINE m == Max(untouched)
                   P == IF fits THEN {p} ELSE {}
        <5>3. \A b \in BlocksOf(m) : phase[b] = "Missing"
          BY <5>2
        <5>4. P \cap planned = {} /\ Plan(P, {m})
          BY <4>1, <5>1
        <5> HIDE DEF m, P, Stable
        <5> QED BY <3>3, <5>3, <5>4
      <4> QED BY <4>2, <4>3
    <3>5. ASSUME NEW T \in SUBSET active, ExpireRequests(T) PROVE Stable
      <4> HIDE DEF Stable
      <4> QED BY <2>3, <3>5 DEF ExpireRequests
    <3> HIDE DEF Stable
    <3> QED BY <2>7, <3>2, <3>4, <3>5 DEF ScheduleNext
  <2>8. ASSUME StorageNext PROVE Stable
    <3>1. ASSUME NEW r \in written, WriteStored(r) PROVE Stable
      <4>1. r.ok /\ phase[r.block] = "Writing" /\ phase' = [phase EXCEPT ![r.block] = "Received"]
        BY <3>1 DEF WriteStored
      <4>2. disk[r.block] # "none"
        BY <1>1, <4>1 DEF DiskInv
      <4> QED BY <2>0, <4>1, <4>2
    <3>2. ASSUME NEW r, WriteFailed(r) PROVE Stable
      <4>1. phase[r.block] = "Writing" /\ phase' = [phase EXCEPT ![r.block] = "Missing"]
        BY <3>2 DEF WriteFailed
      <4> HIDE DEF Stable
      <4> QED BY <2>4, <4>1
    <3>3. ASSUME NEW h, PieceVerified(h) PROVE Stable
      <4>1. /\ phase' = [b \in Block |-> IF b \in BlocksOf(h.piece) THEN "None" ELSE phase[b]]
            /\ have' = have \cup {h.piece} /\ h.piece \in planned
        BY <3>3 DEF PieceVerified, Current
      <4>2. h.piece \in Piece /\ h.piece \notin have
        BY <1>1, <2>0, <4>1 DEF Shape, JobInv, Published
      <4>3. \A b \in BlocksOf(h.piece) : b[1] = h.piece
        BY <4>2, BlockFacts
      <4> QED BY <4>1, <4>2, <4>3
    <3>4. ASSUME NEW h, PieceHashFailed(h) PROVE Stable
      <4>1. h.piece \in Piece /\ ResetBlocks(h.piece, BlocksOf(h.piece))
        BY <2>0, <3>4 DEF PieceHashFailed, Current, Shape
      <4> HIDE DEF Stable
      <4> QED BY <2>5, <4>1
    <3>5. ASSUME NEW bad, FinishDiagnosis(bad) PROVE Stable
      <4>1. diagnosis \in Piece /\ bad \in SUBSET BlocksOf(diagnosis) /\ ResetBlocks(diagnosis, bad)
        BY <2>0, <3>5 DEF FinishDiagnosis, Shape
      <4> HIDE DEF Stable
      <4> QED BY <2>5, <4>1
    <3>6. ASSUME NEW r, ExecuteWrite(r) \/ ExecuteHash(r) \/ BeginDiagnosis(r) \/ HashFatal(r)
          PROVE  Stable
      <4>1. phase' = phase
        BY <3>6 DEF ExecuteWrite, ExecuteHash, BeginDiagnosis, HashFatal, blockVars
      <4> QED BY <2>1, <4>1
    <3> HIDE DEF Stable
    <3> QED BY <2>8, <3>1, <3>2, <3>3, <3>4, <3>5, <3>6 DEF StorageNext
  <2>9. ASSUME RunNext PROVE Stable
    <3>1. ASSUME NEW W, NEW lost, ReplaceWanted(W, lost) \/ ReplacePriorities PROVE Stable
      <4>1. revision' # revision
        BY <1>1, <3>1 DEF ReplaceWanted, ReplacePriorities, AllTypes, PieceTypes
      <4>2. \A b \in Block : phase'[b] = "Received" => phase[b] = "Received"
        <5>1. CASE phase' = phase
          BY <5>1
        <5>2. CASE ReplaceWanted(W, lost)
          BY <5>2 DEF ReplaceWanted
        <5>3. CASE ResetBlocks(diagnosis, BlocksOf(diagnosis))
          BY <5>3 DEF ResetBlocks
        <5> QED BY <3>1, <5>1, <5>2, <5>3 DEF ReplacePriorities, blockVars
      <4> QED BY <4>1, <4>2
    <3>2. ASSUME CancelAll PROVE Stable
      <4>1. phase' = [b \in Block |-> IF b \in Orphaned(active) \cup GivenUp THEN "Missing" ELSE phase[b]]
        BY <3>2 DEF CancelAll
      <4>2. \A b \in Orphaned(active) \cup GivenUp : b \in Block /\ phase[b] # "Received"
        <5>1. \A b \in Orphaned(active) : b \in Block /\ phase[b] = "Requested"
          BY <2>0, OrphanedWasRequested DEF Orphaned
        <5> QED BY <5>1 DEF GivenUp
      <4> QED BY <2>1, <4>1, <4>2
    <3>3. ASSUME BeginStop \/ StopStorage \/ Stopped PROVE Stable
      <4>1. phase' = phase
        BY <3>3 DEF BeginStop, StopStorage, Stopped, vars, blockVars
      <4> QED BY <2>1, <4>1
    <3> HIDE DEF Stable
    <3> QED BY <2>9, <3>1, <3>2, <3>3 DEF RunNext
  <2> HIDE DEF Stable
  <2> QED BY <1>1, <2>6, <2>7, <2>8, <2>9 DEF Next
<1>2. AllTypes /\ JobInv /\ DiskInv /\ [Next]_vars => [Stable]_vars
  BY <1>1
<1>3. Init => DiskInv
  BY DEF Init, DiskInv
<1>4. AllTypes /\ DiskInv /\ [Next]_vars => DiskInv'
  BY DiskStep
<1> QED BY <1>2, <1>3, <1>4, JobInvariant, PTL DEF Spec, ReceivedIsStable

-----------------------------------------------------------------------------
(* The invariant. *)

\* the phases of a block whose payload has arrived
Stored == {"Writing", "Received"}

\* the table k counts the blocks in every phase of f
Counted(f, k) == \A s \in Status : k[s] = Cardinality({b \in Block : f[b] = s})

\* n and req count the requests A, all of them and those of every connection
Ledger(A, req, n) ==
  n = Cardinality(A) /\ \A c \in Conn : req[c] = Cardinality({a \in A : a.conn = c})

\* the table k counts the unverified blocks of every sender
Credited(f, src, k) ==
  \A c \in Conn : k[c] = Cardinality({b \in Block : f[b] \in Stored /\ src[b] = c})

\* the attempts A of a block have their own identifiers, below n, and the terminal
\* ones are at most as many as the limit
UniqueIds(A) == \A r, s \in A : r.id = s.id => r = s
Terminal(A) == {r \in A : ~IsActive(r)}
History(A, n) == /\ UniqueIds(A) /\ \A r \in A : r.id \in Nat /\ 0 < r.id /\ r.id < n
                 /\ Cardinality(Terminal(A)) <= MaxTerminal

Histories == 0 < nextId /\ \A b \in Block : History(attempts[b], nextId)
PiecesCounted ==
  \A p \in Piece : /\ pieceMissing[p] = Cardinality(MissingOf(p))
                   /\ pieceActive[p] = Cardinality(BusyOf(p))

BooksInv ==
  /\ Counted(phase, count) /\ Ledger(active, requests, outstanding)
  /\ Credited(phase, source, contributions) /\ Histories /\ EvidenceRetained

\* a run that was cancelled has no request and no write left
TornDown ==
  mode \in {"cancelled", "stopped"} =>
    active = {} /\ \A b \in Block : phase[b] \notin {"Requested", "Writing"}

Ceilings ==
  /\ outstanding <= MaxOutstanding
  /\ \A c \in Conn : requests[c] <= MaxRequests
  /\ Cardinality(activePieces) <= MaxActivePieces
  /\ Cardinality(planned) <= MaxPlanned
  /\ IsFiniteSet(Open) /\ Cardinality(Open) <= MaxConns

-----------------------------------------------------------------------------
(* Counting. *)

\* n blocks more in one phase and n fewer in another; the blocks F change to a phase
Moved(k, l, from, to, n) ==
  \A s \in Status : /\ s = from => l[s] = k[s] - n
                    /\ s = to => l[s] = k[s] + n
                    /\ s \notin {from, to} => l[s] = k[s]
Shifted(f, g, F, to) == \A b \in Block : g[b] = IF b \in F THEN to ELSE f[b]

\* The blocks F move from one phase to another, and the table with them.
LEMMA CountMove ==
  ASSUME NEW f \in [Block -> Phases], NEW k, Counted(f, k), NEW F \in SUBSET Block,
         NEW from, NEW to, from # to, \A b \in F : f[b] = from,
         NEW g, Shifted(f, g, F, to), NEW l, Moved(k, l, from, to, Cardinality(F))
  PROVE  Counted(g, l)
<1> USE DEF Shifted, Moved
<1> SUFFICES ASSUME NEW s \in Status PROVE l[s] = Cardinality({b \in Block : g[b] = s})
  BY DEF Counted
<1> DEFINE old == {b \in Block : f[b] = s}
           new == {b \in Block : g[b] = s}
<1>1. k[s] = Cardinality(old)
  BY DEF Counted
<1>2. IsFiniteSet(old) /\ IsFiniteSet(F)
  <2>1. old \in SUBSET Block
    OBVIOUS
  <2> QED BY <2>1, BlockFinite
<1>3. CASE s = from
  <2>1. new = old \ F /\ old \cap F = F
    BY <1>3
  <2>2. Cardinality(new) = Cardinality(old) - Cardinality(F)
    BY <1>2, <2>1, CardDifference
  <2> QED BY <1>1, <1>3, <2>2
<1>4. CASE s = to
  <2>1. new = old \cup F /\ old \cap F = {}
    BY <1>4
  <2>2. Cardinality(new) = Cardinality(old) + Cardinality(F)
    BY <1>2, <2>1, CardUnion
  <2> QED BY <1>1, <1>4, <2>2
<1>5. CASE s \notin {from, to}
  <2>1. new = old
    BY <1>5
  <2> QED BY <1>1, <1>5, <2>1
<1> QED BY <1>3, <1>4, <1>5

\* The same for two of the counted phases.
LEMMA CountMoved ==
  ASSUME NEW f \in [Block -> Phases], NEW k \in [Status -> Int], Counted(f, k), NEW F \in SUBSET Block,
         NEW from \in Status, NEW to \in Status, from # to, \A b \in F : f[b] = from,
         NEW g, g = [b \in Block |-> IF b \in F THEN to ELSE f[b]],
         NEW n, n = Cardinality(F), NEW l, l = [k EXCEPT ![from] = @ - n, ![to] = @ + n]
  PROVE  Counted(g, l)
<1>1. n \in Nat
  BY BlockFinite
<1>2. Moved(k, l, from, to, Cardinality(F)) /\ Shifted(f, g, F, to)
  BY <1>1 DEF Moved, Shifted
<1> QED BY <1>2, CountMove

\* The same for one block.
LEMMA CountOne ==
  ASSUME NEW f \in [Block -> Phases], NEW k \in [Status -> Int], Counted(f, k), NEW b \in Block,
         NEW to \in Status, f[b] \in Status, f[b] # to,
         NEW l, l = [k EXCEPT ![f[b]] = @ - 1, ![to] = @ + 1]
  PROVE  Counted([f EXCEPT ![b] = to], l)
<1> DEFINE F == {b}
           n == Cardinality(F)
           from == f[b]
           g == [f EXCEPT ![b] = to]
<1>1. n = 1
  BY FS_Singleton, Zenon
<1>2. Shifted(f, g, F, to) /\ F \in SUBSET Block /\ from # to /\ \A d \in F : f[d] = from
  BY DEF Shifted
<1> HIDE DEF F, g, n
<1>3. Moved(k, l, from, to, n)
  BY <1>1 DEF Moved
<1> HIDE DEF from
<1>4. Moved(k, l, from, to, Cardinality(F))
  BY <1>3 DEF n
<1>5. Counted(g, l)
  BY <1>2, <1>4, CountMove
<1> QED BY <1>5 DEF g

\* every connection is debited for its requests in T
Debited(req, new, T) == \A c \in Conn : new[c] = req[c] - Cardinality({a \in T : a.conn = c})

\* The requests T end.
LEMMA LedgerRelease ==
  ASSUME NEW A, IsFiniteSet(A), NEW T \in SUBSET A, NEW req, NEW n, Ledger(A, req, n),
         NEW m, m = n - Cardinality(T), NEW new, Debited(req, new, T)
  PROVE  Ledger(A \ T, new, m)
<1>1. Cardinality(A \ T) = Cardinality(A) - Cardinality(T)
  <2>1. A \cap T = T
    OBVIOUS
  <2> QED BY <2>1, CardDifference
<1>2. ASSUME NEW c \in Conn PROVE new[c] = Cardinality({a \in A \ T : a.conn = c})
  <2> DEFINE S == {a \in A : a.conn = c}
             R == {a \in T : a.conn = c}
             D == {a \in A \ T : a.conn = c}
  <2>1. S \in SUBSET A /\ S \cap R = R /\ D = S \ R
    OBVIOUS
  <2>2. IsFiniteSet(S)
    BY <2>1, FS_Subset
  <2>3. Cardinality(D) = Cardinality(S) - Cardinality(R)
    <3> HIDE DEF S, R, D
    <3> QED BY <2>1, <2>2, CardDifference
  <2>4. req[c] = Cardinality(S)
    BY DEF Ledger
  <2> QED BY <2>3, <2>4 DEF Debited
<1> QED BY <1>1, <1>2 DEF Ledger

\* A request is issued.
LEMMA LedgerIssue ==
  ASSUME NEW A, IsFiniteSet(A), NEW x, x \notin A, x.conn \in Conn, NEW req, NEW n,
         Ledger(A, req, n), NEW m, m = n + 1,
         NEW new, \A c \in Conn : new[c] = IF c = x.conn THEN req[c] + 1 ELSE req[c]
  PROVE  Ledger(A \cup {x}, new, m)
<1>1. Cardinality(A \cup {x}) = Cardinality(A) + 1
  BY FS_AddElement
<1>2. ASSUME NEW c \in Conn PROVE new[c] = Cardinality({a \in A \cup {x} : a.conn = c})
  <2> DEFINE S == {a \in A : a.conn = c}
             D == {a \in A \cup {x} : a.conn = c}
  <2>1. S \in SUBSET A /\ x \notin S
    OBVIOUS
  <2>2. IsFiniteSet(S) /\ req[c] = Cardinality(S)
    BY <2>1, FS_Subset DEF Ledger
  <2>3. CASE c = x.conn
    <3>1. D = S \cup {x}
      BY <2>3
    <3> HIDE DEF S, D
    <3>2. Cardinality(D) = Cardinality(S) + 1
      BY <2>1, <2>2, <3>1, FS_AddElement
    <3> QED BY <2>2, <2>3, <3>2 DEF D
  <2>4. CASE c # x.conn
    <3>1. D = S
      BY <2>4
    <3> QED BY <2>2, <2>4, <3>1
  <2> QED BY <2>3, <2>4
<1> QED BY <1>1, <1>2 DEF Ledger

\* the blocks B are stored no more, and every sender is debited for its blocks in B
Dropped(f, g, src, new, B) ==
  \A b \in Block : /\ g[b] \in Stored <=> f[b] \in Stored /\ b \notin B
                   /\ b \notin B => new[b] = src[b]
Returned(k, l, src, B) == \A c \in Conn : l[c] = k[c] - Cardinality({b \in B : src[b] = c})

\* The payloads of the blocks B are given up.
LEMMA CreditReturn ==
  ASSUME NEW f, NEW src, NEW k, Credited(f, src, k), NEW B \in SUBSET Block,
         \A b \in B : f[b] \in Stored,
         NEW g, NEW new, Dropped(f, g, src, new, B), NEW l, Returned(k, l, src, B)
  PROVE  Credited(g, new, l)
<1> USE DEF Dropped, Returned
<1> SUFFICES ASSUME NEW c \in Conn
             PROVE  l[c] = Cardinality({b \in Block : g[b] \in Stored /\ new[b] = c})
  BY DEF Credited
<1> DEFINE S == {b \in Block : f[b] \in Stored /\ src[b] = c}
           R == {b \in B : src[b] = c}
           D == {b \in Block : g[b] \in Stored /\ new[b] = c}
<1>1. S \in SUBSET Block /\ S \cap R = R /\ D = S \ R
  OBVIOUS
<1>2. k[c] = Cardinality(S)
  BY DEF Credited
<1> HIDE DEF S, D
<1>3. IsFiniteSet(S)
  BY <1>1, BlockFinite
<1>4. Cardinality(D) = Cardinality(S) - Cardinality(R)
  BY <1>1, <1>3, CardDifference
<1> QED BY <1>2, <1>4 DEF D

\* A payload arrives from connection c.
LEMMA CreditGive ==
  ASSUME NEW f, NEW src, NEW k, Credited(f, src, k), NEW b \in Block, f[b] \notin Stored, NEW c \in Conn,
         NEW g, NEW new, \A d \in Block : IF d = b THEN g[d] \in Stored /\ new[d] = c
                                          ELSE g[d] = f[d] /\ new[d] = src[d],
         NEW l, \A d \in Conn : l[d] = IF d = c THEN k[d] + 1 ELSE k[d]
  PROVE  Credited(g, new, l)
<1> SUFFICES ASSUME NEW d \in Conn
             PROVE  l[d] = Cardinality({x \in Block : g[x] \in Stored /\ new[x] = d})
  BY DEF Credited
<1> DEFINE S == {x \in Block : f[x] \in Stored /\ src[x] = d}
           D == {x \in Block : g[x] \in Stored /\ new[x] = d}
<1>1. S \in SUBSET Block /\ b \notin S
  OBVIOUS
<1>2. k[d] = Cardinality(S)
  BY DEF Credited
<1>3. IsFiniteSet(S)
  BY <1>1, BlockFinite
<1>4. CASE d = c
  <2>1. D = S \cup {b}
    BY <1>4
  <2> HIDE DEF S, D
  <2>2. Cardinality(D) = Cardinality(S) + 1
    BY <1>1, <1>3, <2>1, FS_AddElement
  <2> QED BY <1>2, <1>4, <2>2 DEF D
<1>5. CASE d # c
  <2>1. D = S
    BY <1>5
  <2> QED BY <1>2, <1>5, <2>1
<1> QED BY <1>4, <1>5

\* A sender with an unverified block has a count that is not zero: it is not pruned.
LEMMA CreditKeeps ==
  ASSUME NEW f, NEW src, NEW k, Credited(f, src, k), NEW b \in Block, f[b] \in Stored, src[b] \in Conn
  PROVE  k[src[b]] # 0
<1> DEFINE S == {x \in Block : f[x] \in Stored /\ src[x] = src[b]}
<1>1. S \in SUBSET Block /\ b \in S
  OBVIOUS
<1>2. k[src[b]] = Cardinality(S)
  BY DEF Credited
<1> HIDE DEF S
<1>3. Cardinality(S) # 0
  BY <1>1, BlockFinite, FS_EmptySet
<1> QED BY <1>2, <1>3

-----------------------------------------------------------------------------
(* The attempts a block retains. *)

\* Of attempts with different identifiers, at most n have fewer than n later ones.
LEMMA LatestBound ==
  ASSUME NEW L, IsFiniteSet(L), UniqueIds(L), \A r \in L : r.id \in Nat, NEW n \in Nat, NEW k \in Nat,
         NEW X, X = {r \in L : Cardinality({s \in L : s.id > r.id}) + k < n}, X # {}
  PROVE  Cardinality(X) + k <= n
<1> DEFINE ids == {r.id : r \in X}
<1>1. ids \in SUBSET Nat /\ ids # {}
  OBVIOUS
<1>2. PICK m \in X : \A s \in X : m.id <= s.id
  <2>1. Min(ids) \in ids /\ \A y \in ids : Min(ids) <= y
    <3> HIDE DEF ids
    <3> QED BY <1>1, MinOfNaturals
  <2> DEFINE i == Min(ids)
  <2>2. i \in ids /\ \A s \in X : i <= s.id
    BY <2>1
  <2> HIDE DEF i
  <2> QED BY <2>2
<1> DEFINE later == {s \in L : s.id > m.id}
<1>3. later \in SUBSET L /\ X \in SUBSET L /\ X \ {m} \in SUBSET later
  <2>1. \A s \in X : s # m => s.id > m.id
    BY <1>2 DEF UniqueIds
  <2> QED BY <2>1
<1>4. Cardinality(later) + k < n
  OBVIOUS
<1> HIDE DEF later
<1>5. IsFiniteSet(later) /\ IsFiniteSet(X) /\ Cardinality(later) \in Nat /\ Cardinality(X) \in Nat
  BY <1>3, FS_Subset, FS_CardinalityType
<1>6. Cardinality(X \ {m}) <= Cardinality(later)
  BY <1>3, <1>5, FS_Subset
<1>7. Cardinality(X \ {m}) = Cardinality(X) - 1
  BY <1>5, FS_RemoveElement
<1> QED BY <1>4, <1>5, <1>6, <1>7

\* trim_terminal_attempts leaves at most limit terminal attempts: the newest, and the
\* protected one when there is one.
LEMMA TrimBound ==
  ASSUME NEW A, IsFiniteSet(A), UniqueIds(A), \A r \in A : r.id \in Nat,
         NEW limit \in Nat, NEW protected, limit # 0 \/ \A r \in A : r.id # protected
  PROVE  Cardinality(Terminal(Trim(A, limit, protected))) <= limit
<1> DEFINE terminal == {r \in A : ~IsActive(r)}
           loose == {r \in terminal : r.id # protected}
           fixed == terminal \ loose
           kept == Cardinality(fixed)
           X == {r \in loose : Cardinality({s \in loose : s.id > r.id}) + kept < limit}
<1>1. Terminal(Trim(A, limit, protected)) = X \cup fixed
  BY DEF Terminal, Trim
<1>2. loose \in SUBSET A /\ fixed \in SUBSET A /\ X \in SUBSET loose /\ X \cap fixed = {}
  OBVIOUS
<1>3. UniqueIds(loose) /\ (\A r \in loose : r.id \in Nat) /\ \A r, s \in fixed : r = s
  BY DEF UniqueIds
<1>4. limit = 0 => fixed = {}
  OBVIOUS
<1>5. X = {r \in loose : Cardinality({s \in loose : s.id > r.id}) + kept < limit}
  OBVIOUS
<1> HIDE DEF X, loose, fixed, terminal
<1>6. IsFiniteSet(loose) /\ IsFiniteSet(fixed) /\ IsFiniteSet(X) /\ kept \in Nat /\ Cardinality(X) \in Nat
  <2>1. IsFiniteSet(loose) /\ IsFiniteSet(fixed)
    BY <1>2, FS_Subset
  <2> QED BY <1>2, <2>1, FS_Subset, FS_CardinalityType
<1>7. kept <= limit
  <2>1. CASE fixed = {}
    <3>1. kept = 0
      BY <2>1, FS_EmptySet, Zenon
    <3> HIDE DEF kept
    <3> QED BY <3>1
  <2>2. CASE fixed # {}
    <3>0. PICK x \in fixed : TRUE
      BY <2>2
    <3>1. fixed = {x}
      BY <1>3
    <3>2. kept = 1
      BY <3>1, FS_Singleton, Zenon
    <3> HIDE DEF kept
    <3> QED BY <1>4, <2>2, <3>2
  <2> QED BY <2>1, <2>2
<1> HIDE DEF kept
<1>8. Cardinality(X \cup fixed) = Cardinality(X) + kept
  BY <1>2, <1>6, CardUnion DEF kept
<1>9. CASE X = {}
  <2>1. Cardinality(X) = 0
    BY <1>9, FS_EmptySet, Zenon
  <2> QED BY <1>1, <1>6, <1>7, <1>8, <2>1
<1>10. CASE X # {}
  <2>1. Cardinality(X) + kept <= limit
    BY <1>3, <1>5, <1>6, <1>10, LatestBound
  <2> QED BY <1>1, <1>8, <2>1
<1> QED BY <1>9, <1>10

\* Trimming to the limit, or below it when nothing is protected, makes a history.
LEMMA TrimHistory ==
  ASSUME NEW A, IsFiniteSet(A), UniqueIds(A), NEW n,
         \A r \in A : r.id \in Nat /\ 0 < r.id /\ r.id < n,
         NEW limit \in Nat, limit <= MaxTerminal, NEW protected, limit = MaxTerminal \/ protected = 0
  PROVE  History(Trim(A, limit, protected), n)
<1>1. MaxTerminal \in Nat \ {0}
  BY LimitAssumption
<1>2. limit # 0 \/ \A r \in A : r.id # protected
  BY <1>1
<1>3. Cardinality(Terminal(Trim(A, limit, protected))) <= limit
  BY <1>2, TrimBound
<1>4. Trim(A, limit, protected) \subseteq A
  BY TrimFacts
<1> DEFINE size == Cardinality(Terminal(Trim(A, limit, protected)))
<1>5. size \in Nat
  <2>1. Terminal(Trim(A, limit, protected)) \in SUBSET A
    BY <1>4 DEF Terminal
  <2> QED BY <2>1, FS_Subset, FS_CardinalityType
<1>6. size <= MaxTerminal
  <2> HIDE DEF size
  <2>1. size <= limit
    BY <1>3 DEF size
  <2> QED BY <1>1, <1>5, <2>1
<1> QED BY <1>4, <1>6 DEF History, UniqueIds

\* A protected attempt is never trimmed.
LEMMA TrimProtects ==
  ASSUME NEW A, NEW limit, NEW r \in A
  PROVE  r \in Trim(A, limit, r.id)
BY DEF Trim

\* The attempts of a block when requests end are a history.
LEMMA EndedHistory ==
  ASSUME AllTypes, Histories, NEW b \in Block, NEW T
  PROVE  History(Ended(b, T), nextId)
<1> DEFINE f == [r \in attempts[b] |-> IF \E a \in T : a.id = r.id
                                       THEN [r EXCEPT !.disposition = "Released"] ELSE r]
           all == {IF \E a \in T : a.id = r.id
                   THEN [r EXCEPT !.disposition = "Released"] ELSE r : r \in attempts[b]}
<1>1. History(attempts[b], nextId) /\ IsFiniteSet(attempts[b]) /\ attempts[b] \subseteq AttemptRecord
  BY DEF Histories, AllTypes, SenderTypes, OwnershipInv, Shape
<1>2. all = {f[r] : r \in attempts[b]}
  OBVIOUS
<1>3. \A r \in attempts[b] : f[r].id = r.id
  BY <1>1 DEF AttemptRecord
<1>4. Ended(b, T) = Trim(all, MaxTerminal, 0) \/ Ended(b, T) = attempts[b]
  BY DEF Ended
<1> HIDE DEF f, all
<1>5. IsFiniteSet(all)
  BY <1>1, <1>2, ImageFinite
<1>6. UniqueIds(all) /\ \A r \in all : r.id \in Nat /\ 0 < r.id /\ r.id < nextId
  BY <1>1, <1>2, <1>3 DEF History, UniqueIds
<1>7. History(Trim(all, MaxTerminal, 0), nextId)
  <2>1. MaxTerminal \in Nat /\ MaxTerminal <= MaxTerminal
    BY LimitAssumption
  <2> QED BY <1>5, <1>6, <2>1, TrimHistory
<1> QED BY <1>1, <1>4, <1>7

-----------------------------------------------------------------------------
(* Every step keeps the books. *)

\* The stored blocks and their senders stay as they are.
LEMMA CreditSame ==
  ASSUME NEW f, NEW src, NEW k, Credited(f, src, k),
         NEW g, NEW new, \A b \in Block : /\ g[b] \in Stored <=> f[b] \in Stored
                                          /\ f[b] \in Stored => new[b] = src[b]
  PROVE  Credited(g, new, k)
<1>1. \A c \in Conn : {b \in Block : g[b] \in Stored /\ new[b] = c} =
                      {b \in Block : f[b] \in Stored /\ src[b] = c}
  OBVIOUS
<1> QED BY <1>1 DEF Credited

\* Evidence is kept when the blocks that are still stored keep their attempts and their
\* sender, and only senders without an unverified block are pruned.
LEMMA EvidenceKept ==
  ASSUME AllTypes, EvidenceRetained, Credited(phase', source', contributions'),
         \A b \in Block : phase'[b] \in Stored =>
            /\ phase[b] \in Stored /\ source'[b] = source[b] /\ evidence'[b] = evidence[b]
            /\ \A r \in attempts[b] : r.id = evidence[b] => r \in attempts'[b],
         routes' = routes \/ routes' = {c \in routes : contributions'[c] # 0}
  PROVE  EvidenceRetained'
<1> SUFFICES ASSUME NEW b \in Block, phase'[b] \in Stored
             PROVE  /\ \E r \in attempts'[b] : /\ r.id = evidence'[b] /\ r.conn = source'[b]
                                               /\ r.disposition = "PayloadReceived"
                    /\ source'[b] \in routes'
  BY DEF EvidenceRetained, InPhase, Stored
<1>1. /\ \E r \in attempts[b] : /\ r.id = evidence[b] /\ r.conn = source[b]
                                /\ r.disposition = "PayloadReceived"
      /\ source[b] \in routes
  BY DEF EvidenceRetained, InPhase, Stored
<1>2. source'[b] \in routes /\ source'[b] \in Conn
  BY <1>1 DEF AllTypes, RouteTypes
<1>3. contributions'[source'[b]] # 0
  BY <1>2, CreditKeeps
<1> QED BY <1>1, <1>2, <1>3

\* The books stay exact in a step that changes no block and no counter.
LEMMA BooksUntouched ==
  ASSUME BooksInv, UNCHANGED <<blockVars, ledgerVars>>
  PROVE  BooksInv'
BY DEF BooksInv, Histories, EvidenceRetained, InPhase, blockVars, ledgerVars

\* terminate_requested, for any set of requests.
LEMMA TerminateBooks ==
  ASSUME AllTypes, BooksInv, NEW T \in SUBSET active, Terminate(T),
         routes' = routes \/ routes' = Prune(contributions)
  PROVE  BooksInv'
<1> DEFINE F == Orphaned(T)
<1>1. /\ attempts' = [b \in Block |-> Ended(b, T)]
      /\ phase' = [b \in Block |-> IF b \in F THEN "Missing" ELSE phase[b]]
      /\ active' = active \ T /\ requests' = Release(T)
      /\ outstanding' = outstanding - Cardinality(T)
      /\ count' = Move("Requested", "Missing", Cardinality(F))
      /\ UNCHANGED <<source, evidence, nextId, contributions>>
  BY DEF Terminate
<1>2. F \in SUBSET Block /\ \A b \in F : phase[b] = "Requested"
  BY OrphanedWasRequested DEF AllTypes
<1> HIDE DEF F
<1>3. /\ phase \in [Block -> Phases] /\ count \in [Status -> Int] /\ Cardinality(F) \in Nat
      /\ IsFiniteSet(active)
  BY <1>2, BlockFinite DEF AllTypes, OwnershipInv, Shape, LedgerTypes
<1>4. Counted(phase', count')
  <2>1. Counted(phase, count) /\ {"Requested", "Missing"} \subseteq Status
    BY DEF BooksInv, Status
  <2>2. count' = [count EXCEPT !["Requested"] = @ - Cardinality(F), !["Missing"] = @ + Cardinality(F)]
    BY <1>1 DEF Move
  <2> QED BY <1>1, <1>2, <1>3, <2>1, <2>2, CountMoved
<1>5. Ledger(active', requests', outstanding')
  <2>1. Debited(requests, requests', T)
    BY <1>1 DEF Release, Debited
  <2> QED BY <1>1, <1>3, <2>1, LedgerRelease DEF BooksInv
<1>6. Credited(phase', source', contributions')
  <2>1. \A b \in Block : phase'[b] \in Stored <=> phase[b] \in Stored
    BY <1>1, <1>2 DEF Stored
  <2>2. Credited(phase, source, contributions)
    BY DEF BooksInv
  <2> QED BY <1>1, <2>1, <2>2, CreditSame
<1>7. Histories'
  BY <1>1, EndedHistory DEF Histories, BooksInv
<1>8. EvidenceRetained'
  <2>1. \A a \in T : phase[a.block] = "Requested" /\ a.block \in Block
    BY DEF AllTypes, OwnershipInv, Shape, ActiveRecord, RequestOwnership, IndexAgrees, RequestedIsOwned
  <2>2. \A b \in Block : phase'[b] \in Stored => phase[b] \in Stored /\ attempts'[b] = attempts[b]
    BY <1>1, <1>2, <2>1 DEF Ended, Stored
  <2> QED BY <1>1, <1>6, <2>2, EvidenceKept DEF Prune, BooksInv
<1> QED BY <1>4, <1>5, <1>6, <1>7, <1>8 DEF BooksInv

\* receive_block: the payload is credited to its sender, and the attempt it answers is
\* protected from the trimming.
LEMMA ReceiveBooks ==
  ASSUME AllTypes, BooksInv, NEW c \in Conn, NEW b \in Block, NEW content, ReceiveBlock(c, b, content)
  PROVE  BooksInv'
<1> DEFINE e == LatestFrom(b, c)
           T == {a \in active : a.block = b}
           settle(r) == IF r.id = e.id THEN [r EXCEPT !.disposition = "PayloadReceived"]
                        ELSE IF IsActive(r) THEN [r EXCEPT !.disposition = "Released"]
                        ELSE r
           all == {settle(r) : r \in attempts[b]}
           A == Trim(all, MaxTerminal, e.id)
<1>1. /\ phase[b] = "Requested" /\ From(b, c) # {}
      /\ attempts' = [attempts EXCEPT ![b] = A] /\ evidence' = [evidence EXCEPT ![b] = e.id]
      /\ active' = active \ T /\ requests' = Release(T)
      /\ outstanding' = outstanding - Cardinality(T)
      /\ phase' = [phase EXCEPT ![b] = "Writing"] /\ source' = [source EXCEPT ![b] = c]
      /\ count' = Move("Requested", "Writing", 1)
      /\ contributions' = [contributions EXCEPT ![c] = @ + 1]
      /\ routes' = routes \cup {c} /\ nextId' = nextId
  BY DEF ReceiveBlock
<1>2. /\ phase \in [Block -> Phases] /\ count \in [Status -> Int] /\ IsFiniteSet(active)
      /\ source \in [Block -> Conn \cup {NoConn}] /\ evidence \in [Block -> Nat]
      /\ contributions \in [Conn -> Int] /\ attempts \in [Block -> SUBSET AttemptRecord]
      /\ IsFiniteSet(attempts[b])
  BY DEF AllTypes, OwnershipInv, Shape, LedgerTypes, SenderTypes
<1>3. e \in attempts[b] /\ e.id \in Nat /\ e.conn = c
  BY <1>1, <1>2, LatestFacts DEF AllTypes, OwnershipInv
<1>4. Counted(phase', count')
  <2>1. Counted(phase, count) /\ {"Requested", "Writing"} \subseteq Status
    BY DEF BooksInv, Status
  <2> QED BY <1>1, <1>2, <2>1, CountOne DEF Move
<1>5. Ledger(active', requests', outstanding')
  <2>1. Debited(requests, requests', T)
    BY <1>1 DEF Release, Debited
  <2>2. T \in SUBSET active /\ Ledger(active, requests, outstanding)
    BY DEF BooksInv
  <2> HIDE DEF T
  <2> QED BY <1>1, <1>2, <2>1, <2>2, LedgerRelease
<1>6. Credited(phase', source', contributions')
  <2>1. \A d \in Block : IF d = b THEN phase'[d] \in Stored /\ source'[d] = c
                         ELSE phase'[d] = phase[d] /\ source'[d] = source[d]
    BY <1>1, <1>2 DEF Stored
  <2>2. \A d \in Conn : contributions'[d] = IF d = c THEN contributions[d] + 1 ELSE contributions[d]
    BY <1>1, <1>2
  <2>3. phase[b] \notin Stored /\ Credited(phase, source, contributions)
    BY <1>1 DEF Stored, BooksInv
  <2> QED BY <2>1, <2>2, <2>3, CreditGive
<1> DEFINE f == [r \in attempts[b] |-> settle(r)]
<1>7. all = {f[r] : r \in attempts[b]} /\ settle(e) \in all
  BY <1>3
<1>8. \A r \in attempts[b] : f[r].id = r.id
  BY <1>2 DEF AttemptRecord
<1>9. settle(e).id = e.id /\ settle(e).conn = c /\ settle(e).disposition = "PayloadReceived"
  <2>1. e \in AttemptRecord
    BY <1>2, <1>3
  <2> HIDE DEF e
  <2> QED BY <1>3, <2>1 DEF AttemptRecord
<1> HIDE DEF f, all, settle, e
<1>10. Histories'
  <2>1. IsFiniteSet(all)
    BY <1>2, <1>7, ImageFinite
  <2>2. History(attempts[b], nextId)
    BY DEF BooksInv, Histories
  <2>3. UniqueIds(all) /\ \A r \in all : r.id \in Nat /\ 0 < r.id /\ r.id < nextId
    BY <1>7, <1>8, <2>2 DEF History, UniqueIds
  <2>4. MaxTerminal \in Nat /\ MaxTerminal <= MaxTerminal
    BY LimitAssumption
  <2>5. History(A, nextId)
    BY <2>1, <2>3, <2>4, TrimHistory
  <2> HIDE DEF A
  <2> QED BY <1>1, <1>2, <2>5 DEF BooksInv, Histories
<1>11. settle(e) \in A
  BY <1>7, <1>9, TrimProtects
<1>12. EvidenceRetained'
  <2> HIDE DEF A
  <2> SUFFICES ASSUME NEW d \in Block, phase'[d] \in Stored
               PROVE  /\ \E r \in attempts'[d] : /\ r.id = evidence'[d] /\ r.conn = source'[d]
                                                 /\ r.disposition = "PayloadReceived"
                      /\ source'[d] \in routes'
    BY DEF EvidenceRetained, InPhase, Stored
  <2>1. CASE d = b
    BY <1>1, <1>2, <1>9, <1>11, <2>1
  <2>2. CASE d # b
    BY <1>1, <1>2, <2>2 DEF BooksInv, EvidenceRetained, InPhase, Stored
  <2> QED BY <2>1, <2>2
<1> QED BY <1>4, <1>5, <1>6, <1>10, <1>12 DEF BooksInv

\* append_piece_plans, after plans without a request were dropped.
LEMMA PlanBooks ==
  ASSUME AllTypes, BooksInv, NEW P \in SUBSET Piece, NEW Q \in SUBSET planned, Plan(P, Q),
         P \cap planned = {}, \A q \in Q : \A b \in BlocksOf(q) : phase[b] = "Missing"
  PROVE  BooksInv'
<1> DEFINE gone == {b \in Block : b[1] \in Q}
           new == {b \in Block : b[1] \in P}
           mid == [b \in Block |-> IF b \in gone THEN "None" ELSE phase[b]]
           less == [count EXCEPT !["Missing"] = @ - Cardinality(gone)]
<1>1. /\ phase' = [b \in Block |-> IF b \in new THEN "Missing"
                                   ELSE IF b \in gone THEN "None" ELSE phase[b]]
      /\ attempts' = [b \in Block |-> IF b \in new \cup gone THEN {} ELSE attempts[b]]
      /\ count' = [count EXCEPT !["Missing"] = count["Missing"] + Cardinality(new) - Cardinality(gone)]
      /\ UNCHANGED <<source, evidence, active, nextId, requests, outstanding, contributions, routes>>
  BY DEF Plan
<1>2. phase \in [Block -> Phases] /\ count \in [Status -> Int]
  BY DEF AllTypes, OwnershipInv, Shape, LedgerTypes
<1>3. gone \in SUBSET Block /\ new \in SUBSET Block
  OBVIOUS
<1>4. (\A b \in gone : phase[b] = "Missing") /\ \A b \in new : phase[b] = "None" /\ b \notin gone
  <2> SUFFICES ASSUME NEW b \in Block
               PROVE  /\ b[1] \in Q => phase[b] = "Missing"
                      /\ b[1] \in P => phase[b] = "None" /\ b[1] \notin Q
    OBVIOUS
  <2>1. b[1] \in Piece /\ b \in BlocksOf(b[1])
    BY BlockFacts
  <2> QED BY <2>1 DEF AllTypes, OwnershipInv, PlansHavePhases
<1>5. Cardinality(gone) \in Nat /\ Cardinality(new) \in Nat
  BY <1>3, BlockFinite
<1> HIDE DEF gone, new
<1>6. Counted(phase', count')
  <2>1. Shifted(phase, mid, gone, "None") /\ mid \in [Block -> Phases]
    BY <1>2, <1>3 DEF Shifted, Phases
  <2>2. Moved(count, less, "Missing", "None", Cardinality(gone))
    BY <1>2, <1>5 DEF Moved, Status
  <2>3. Shifted(mid, phase', new, "Missing") /\ \A b \in new : mid[b] = "None"
    BY <1>1, <1>3, <1>4 DEF Shifted
  <2>4. Moved(less, count', "None", "Missing", Cardinality(new))
    BY <1>1, <1>2, <1>5 DEF Moved, Status
  <2>5. Counted(phase, count)
    BY DEF BooksInv
  <2> HIDE DEF mid, less
  <2>6. Counted(mid, less)
    BY <1>2, <1>3, <1>4, <2>1, <2>2, <2>5, CountMove
  <2> QED BY <1>3, <2>1, <2>3, <2>4, <2>6, CountMove
<1>7. Credited(phase', source', contributions')
  <2>1. \A b \in Block : phase'[b] \in Stored <=> phase[b] \in Stored
    BY <1>1, <1>4 DEF Stored
  <2>2. Credited(phase, source, contributions)
    BY DEF BooksInv
  <2> QED BY <1>1, <2>1, <2>2, CreditSame
<1>8. Histories'
  <2>1. History({}, nextId)
    <3>1. Terminal({}) = {} /\ UniqueIds({})
      BY DEF Terminal, UniqueIds
    <3>2. Cardinality(Terminal({})) = 0
      BY <3>1, FS_EmptySet, Zenon
    <3> QED BY <3>1, <3>2, LimitAssumption DEF History
  <2> QED BY <1>1, <2>1 DEF BooksInv, Histories
<1>9. EvidenceRetained'
  <2>1. \A b \in Block : phase'[b] \in Stored => phase[b] \in Stored /\ attempts'[b] = attempts[b]
    BY <1>1 DEF Stored
  <2> QED BY <1>1, <1>7, <2>1, EvidenceKept DEF BooksInv
<1> QED BY <1>1, <1>6, <1>7, <1>8, <1>9 DEF BooksInv

\* The history of a block with one more request.
LEMMA AssignHistory ==
  ASSUME AllTypes, Histories, NEW b \in Block, NEW x, x.id = nextId, IsActive(x)
  PROVE  History(Trim(attempts[b], MaxTerminal - 1, 0) \cup {x}, nextId + 1)
<1> DEFINE A == Trim(attempts[b], MaxTerminal - 1, 0)
<1>1. History(attempts[b], nextId) /\ IsFiniteSet(attempts[b]) /\ nextId \in Nat
  BY DEF Histories, AllTypes, SenderTypes, OwnershipInv, Shape
<1>2. MaxTerminal - 1 \in Nat /\ MaxTerminal - 1 <= MaxTerminal
  BY LimitAssumption
<1>3. History(A, nextId)
  BY <1>1, <1>2, TrimHistory DEF History
<1> HIDE DEF A
<1>4. UniqueIds(A \cup {x}) /\ \A r \in A \cup {x} : r.id \in Nat /\ 0 < r.id /\ r.id < nextId + 1
  <2>1. \A r \in A : r.id \in Nat /\ 0 < r.id /\ r.id < nextId
    BY <1>3 DEF History
  <2>2. 0 < nextId
    BY DEF Histories
  <2>3. UniqueIds(A \cup {x})
    BY <1>3, <1>1, <2>1 DEF History, UniqueIds
  <2> QED BY <1>1, <2>1, <2>2, <2>3
<1>5. Terminal(A \cup {x}) = Terminal(A)
  BY DEF Terminal
<1> QED BY <1>3, <1>4, <1>5 DEF History, A

\* assign: a request is issued for a block that is not stored.
LEMMA AssignBooks ==
  ASSUME AllTypes, BooksInv, NEW c \in Conn, NEW b \in Block, NEW purpose,
         AssignPrimary(c, b, purpose) \/ AssignDuplicate(c, b, purpose)
  PROVE  BooksInv'
<1> DEFINE x == [id |-> nextId, conn |-> c, disposition |-> "Requested"]
           y == [id |-> nextId, conn |-> c, block |-> b, purpose |-> purpose]
           A == Trim(attempts[b], MaxTerminal - 1, 0) \cup {x}
<1>1. /\ nextId' = nextId + 1 /\ attempts' = [attempts EXCEPT ![b] = A]
      /\ active' = active \cup {y} /\ requests' = [requests EXCEPT ![c] = @ + 1]
      /\ outstanding' = outstanding + 1
      /\ UNCHANGED <<source, evidence, contributions, routes>>
  BY DEF AssignPrimary, AssignDuplicate, Assign
<1>2. \/ /\ phase[b] = "Missing" /\ phase' = [phase EXCEPT ![b] = "Requested"]
         /\ count' = Move("Missing", "Requested", 1)
      \/ phase[b] = "Requested" /\ phase' = phase /\ count' = count
  BY DEF AssignPrimary, AssignDuplicate
<1>3. /\ phase \in [Block -> Phases] /\ count \in [Status -> Int] /\ IsFiniteSet(active)
      /\ requests \in [Conn -> Int] /\ attempts \in [Block -> SUBSET AttemptRecord] /\ nextId \in Nat
  BY DEF AllTypes, OwnershipInv, Shape, LedgerTypes
<1>4. x.id = nextId /\ IsActive(x) /\ y.id = nextId /\ y.conn = c
  BY DEF IsActive
<1> HIDE DEF x, y
<1>5. Counted(phase', count')
  <2>1. Counted(phase, count) /\ {"Requested", "Missing"} \subseteq Status
    BY DEF BooksInv, Status
  <2>2. CASE phase' = phase /\ count' = count
    BY <2>1, <2>2
  <2>3. CASE phase[b] = "Missing" /\ phase' = [phase EXCEPT ![b] = "Requested"]
             /\ count' = Move("Missing", "Requested", 1)
    BY <1>3, <2>1, <2>3, CountOne DEF Move
  <2> QED BY <1>2, <2>2, <2>3
<1>6. Ledger(active', requests', outstanding')
  <2>1. y \notin active
    BY <1>3, <1>4 DEF AllTypes, OwnershipInv, IdsFresh
  <2>2. \A d \in Conn : requests'[d] = IF d = y.conn THEN requests[d] + 1 ELSE requests[d]
    BY <1>1, <1>3, <1>4
  <2>3. Ledger(active, requests, outstanding)
    BY DEF BooksInv
  <2> QED BY <1>1, <1>3, <1>4, <2>1, <2>2, <2>3, LedgerIssue
<1>7. Credited(phase', source', contributions')
  <2>1. \A d \in Block : phase'[d] \in Stored <=> phase[d] \in Stored
    BY <1>2, <1>3 DEF Stored
  <2>2. Credited(phase, source, contributions)
    BY DEF BooksInv
  <2> QED BY <1>1, <2>1, <2>2, CreditSame
<1>8. Histories'
  <2>1. History(A, nextId + 1)
    BY <1>4, AssignHistory DEF BooksInv
  <2>2. \A d \in Block : History(attempts[d], nextId + 1) /\ 0 < nextId
    BY <1>3 DEF BooksInv, Histories, History
  <2> HIDE DEF A
  <2> QED BY <1>1, <1>3, <2>1, <2>2 DEF Histories
<1>9. EvidenceRetained'
  <2>1. \A d \in Block : phase'[d] \in Stored =>
           phase[d] \in Stored /\ attempts'[d] = attempts[d]
    BY <1>1, <1>2, <1>3 DEF Stored
  <2> QED BY <1>1, <1>7, <2>1, EvidenceKept DEF BooksInv
<1> QED BY <1>5, <1>6, <1>7, <1>8, <1>9 DEF BooksInv

\* A write is stored: the block stays credited, and its evidence is not trimmed.
LEMMA WriteStoredBooks ==
  ASSUME AllTypes, BooksInv, NEW r \in written, WriteStored(r)
  PROVE  BooksInv'
<1> DEFINE b == r.block
           A == Trim(attempts[b], MaxTerminal, evidence[b])
<1>1. /\ phase[b] = "Writing" /\ phase' = [phase EXCEPT ![b] = "Received"]
      /\ attempts' = [attempts EXCEPT ![b] = A] /\ count' = Move("Writing", "Received", 1)
      /\ UNCHANGED <<source, evidence, active, nextId, requests, outstanding, contributions, routes>>
  BY DEF WriteStored
<1>2. b \in Block
  BY DEF AllTypes, JobsNamed
<1> HIDE DEF b
<1>3. /\ phase \in [Block -> Phases] /\ count \in [Status -> Int] /\ IsFiniteSet(attempts[b])
      /\ attempts \in [Block -> SUBSET AttemptRecord]
  BY <1>2 DEF AllTypes, OwnershipInv, Shape, LedgerTypes, SenderTypes
<1>4. Counted(phase', count')
  <2>1. Counted(phase, count) /\ {"Writing", "Received"} \subseteq Status
    BY DEF BooksInv, Status
  <2> QED BY <1>1, <1>2, <1>3, <2>1, CountOne DEF Move
<1>5. Credited(phase', source', contributions')
  <2>1. \A d \in Block : phase'[d] \in Stored <=> phase[d] \in Stored
    BY <1>1, <1>2, <1>3 DEF Stored
  <2>2. Credited(phase, source, contributions)
    BY DEF BooksInv
  <2> QED BY <1>1, <2>1, <2>2, CreditSame
<1>6. Histories'
  <2>1. MaxTerminal \in Nat /\ MaxTerminal <= MaxTerminal
    BY LimitAssumption
  <2>2. History(attempts[b], nextId)
    BY <1>2 DEF BooksInv, Histories
  <2>3. History(A, nextId)
    BY <1>3, <2>1, <2>2, TrimHistory DEF History
  <2> HIDE DEF A
  <2> QED BY <1>1, <1>2, <1>3, <2>3 DEF BooksInv, Histories
<1>7. EvidenceRetained'
  <2>1. \A s \in attempts[b] : s.id = evidence[b] => s \in A
    BY TrimProtects
  <2> HIDE DEF A
  <2>2. \A d \in Block : phase'[d] \in Stored =>
           phase[d] \in Stored /\ \A s \in attempts[d] : s.id = evidence[d] => s \in attempts'[d]
    BY <1>1, <1>2, <1>3, <2>1 DEF Stored
  <2> QED BY <1>1, <1>5, <2>2, EvidenceKept DEF BooksInv
<1> QED BY <1>1, <1>4, <1>5, <1>6, <1>7 DEF BooksInv

\* A stored block has a sender among the connections.
LEMMA SenderKnown ==
  ASSUME AllTypes, BooksInv, NEW b \in Block, phase[b] \in Stored
  PROVE  source[b] \in Conn
BY DEF AllTypes, RouteTypes, BooksInv, EvidenceRetained, InPhase, Stored

\* A write failed: the payload is given up, and so is the claim to its sender.
LEMMA WriteFailedBooks ==
  ASSUME AllTypes, BooksInv, NEW r \in written, WriteFailed(r)
  PROVE  BooksInv'
<1> DEFINE b == r.block
           A == Trim(attempts[b], MaxTerminal, 0)
<1>1. /\ phase[b] = "Writing" /\ phase' = [phase EXCEPT ![b] = "Missing"]
      /\ source' = [source EXCEPT ![b] = NoConn] /\ evidence' = [evidence EXCEPT ![b] = 0]
      /\ attempts' = [attempts EXCEPT ![b] = A] /\ count' = Move("Writing", "Missing", 1)
      /\ contributions' = [contributions EXCEPT ![source[b]] = @ - 1]
      /\ routes' = Prune(contributions')
      /\ UNCHANGED <<active, nextId, requests, outstanding>>
  BY DEF WriteFailed
<1>2. b \in Block
  BY DEF AllTypes, JobsNamed
<1> HIDE DEF b
<1>3. /\ phase \in [Block -> Phases] /\ count \in [Status -> Int] /\ IsFiniteSet(attempts[b])
      /\ attempts \in [Block -> SUBSET AttemptRecord] /\ contributions \in [Conn -> Int]
      /\ source \in [Block -> Conn \cup {NoConn}] /\ evidence \in [Block -> Nat]
  BY <1>2 DEF AllTypes, OwnershipInv, Shape, LedgerTypes, SenderTypes
<1>4. source[b] \in Conn
  BY <1>1, <1>2, SenderKnown DEF Stored
<1>5. Counted(phase', count')
  <2>1. Counted(phase, count) /\ {"Writing", "Missing"} \subseteq Status
    BY DEF BooksInv, Status
  <2> QED BY <1>1, <1>2, <1>3, <2>1, CountOne DEF Move
<1>6. Credited(phase', source', contributions')
  <2>1. Dropped(phase, phase', source, source', {b})
    BY <1>1, <1>2, <1>3 DEF Stored, Dropped
  <2>2. Returned(contributions, contributions', source, {b})
    <3> SUFFICES ASSUME NEW c \in Conn
                 PROVE  contributions'[c] = contributions[c] - Cardinality({d \in {b} : source[d] = c})
      BY DEF Returned
    <3> DEFINE n == Cardinality({d \in {b} : source[d] = c})
    <3> SUFFICES contributions'[c] = contributions[c] - n
      OBVIOUS
    <3>1. CASE c = source[b]
      <4>1. {d \in {b} : source[d] = c} = {b}
        BY <3>1
      <4>2. n = 1
        BY <4>1, FS_Singleton, Zenon
      <4> HIDE DEF n
      <4> QED BY <1>1, <1>3, <1>4, <3>1, <4>2
    <3>2. CASE c # source[b]
      <4>1. {d \in {b} : source[d] = c} = {}
        BY <3>2
      <4>2. n = 0
        BY <4>1, FS_EmptySet, Zenon
      <4> HIDE DEF n
      <4> QED BY <1>1, <1>3, <1>4, <3>2, <4>2
    <3> QED BY <3>1, <3>2
  <2>3. Credited(phase, source, contributions) /\ {b} \in SUBSET Block /\ \A d \in {b} : phase[d] \in Stored
    BY <1>1, <1>2 DEF BooksInv, Stored
  <2> QED BY <2>1, <2>2, <2>3, CreditReturn
<1>7. Histories'
  <2>1. MaxTerminal \in Nat /\ MaxTerminal <= MaxTerminal
    BY LimitAssumption
  <2>2. History(attempts[b], nextId)
    BY <1>2 DEF BooksInv, Histories
  <2>3. History(A, nextId)
    BY <1>3, <2>1, <2>2, TrimHistory DEF History
  <2> HIDE DEF A
  <2> QED BY <1>1, <1>2, <1>3, <2>3 DEF BooksInv, Histories
<1>8. EvidenceRetained'
  <2>1. \A d \in Block : phase'[d] \in Stored =>
           /\ phase[d] \in Stored /\ source'[d] = source[d] /\ evidence'[d] = evidence[d]
           /\ attempts'[d] = attempts[d]
    BY <1>1, <1>2, <1>3 DEF Stored
  <2> QED BY <1>1, <1>6, <2>1, EvidenceKept DEF BooksInv, Prune
<1> QED BY <1>1, <1>5, <1>6, <1>7, <1>8 DEF BooksInv

\* The blocks B of a piece, all received, leave it together: the piece is published, or
\* starts over.
LEMMA BlocksReturned ==
  ASSUME AllTypes, BooksInv, NEW B \in SUBSET Block, \A b \in B : phase[b] = "Received",
         NEW to, to \notin Stored, phase' = [b \in Block |-> IF b \in B THEN to ELSE phase[b]],
         source' = [b \in Block |-> IF b \in B THEN NoConn ELSE source[b]],
         evidence' = [b \in Block |-> IF b \in B THEN 0 ELSE evidence[b]],
         \A b \in Block : b \notin B => attempts'[b] = attempts[b],
         contributions' = Uncredit(B), routes' = Prune(Uncredit(B))
  PROVE  Credited(phase', source', contributions') /\ EvidenceRetained'
<1>1. \A b \in B : phase[b] \in Stored
  BY DEF Stored
<1>2. Dropped(phase, phase', source, source', B)
  BY <1>1 DEF Dropped
<1>3. Returned(contributions, contributions', source, B)
  BY DEF Returned, Uncredit
<1>4. Credited(phase', source', contributions')
  BY <1>1, <1>2, <1>3, CreditReturn DEF BooksInv
<1>5. \A b \in Block : phase'[b] \in Stored =>
        /\ phase[b] \in Stored /\ source'[b] = source[b] /\ evidence'[b] = evidence[b]
        /\ attempts'[b] = attempts[b]
  OBVIOUS
<1>6. routes' = {c \in routes : contributions'[c] # 0}
  BY DEF Prune
<1> QED BY <1>4, <1>5, <1>6, EvidenceKept DEF BooksInv

\* A history may be empty.
LEMMA EmptyHistory == \A n : History({}, n)
<1>1. Terminal({}) = {} /\ UniqueIds({})
  BY DEF Terminal, UniqueIds
<1>2. Cardinality(Terminal({})) = 0
  BY <1>1, FS_EmptySet, Zenon
<1> QED BY <1>1, <1>2, LimitAssumption DEF History

\* A verified piece retires.
LEMMA VerifiedBooks ==
  ASSUME AllTypes, BooksInv, NEW h, PieceVerified(h)
  PROVE  BooksInv'
<1> DEFINE p == h.piece
           B == BlocksOf(p)
<1>1. /\ Current(h)
      /\ phase' = [b \in Block |-> IF b \in B THEN "None" ELSE phase[b]]
      /\ source' = [b \in Block |-> IF b \in B THEN NoConn ELSE source[b]]
      /\ evidence' = [b \in Block |-> IF b \in B THEN 0 ELSE evidence[b]]
      /\ attempts' = [b \in Block |-> IF b \in B THEN {} ELSE attempts[b]]
      /\ count' = [count EXCEPT !["Received"] = @ - Cardinality(B)]
      /\ contributions' = Uncredit(B) /\ routes' = Prune(Uncredit(B))
      /\ UNCHANGED <<active, nextId, requests, outstanding>>
  BY DEF PieceVerified
<1>2. p \in Piece /\ mode = "running" /\ join[p].hash = "Running"
  BY <1>1 DEF Current, Idle, AllTypes, OwnershipInv, Shape
<1>3. B \in SUBSET Block /\ \A b \in B : phase[b] = "Received"
  BY <1>2, HashedPieceFacts, BlockFacts DEF AllTypes
<1> HIDE DEF B, p
<1>4. phase \in [Block -> Phases] /\ count \in [Status -> Int] /\ Cardinality(B) \in Nat
  BY <1>3, BlockFinite DEF AllTypes, OwnershipInv, Shape, LedgerTypes
<1>5. Counted(phase', count')
  <2>1. Shifted(phase, phase', B, "None")
    BY <1>1 DEF Shifted
  <2>2. Moved(count, count', "Received", "None", Cardinality(B))
    BY <1>1, <1>4 DEF Moved, Status
  <2>3. Counted(phase, count) /\ "Received" # "None"
    BY DEF BooksInv
  <2> QED BY <1>3, <1>4, <2>1, <2>2, <2>3, CountMove
<1>6. Credited(phase', source', contributions') /\ EvidenceRetained'
  <2>1. "None" \notin Stored /\ \A b \in Block : b \notin B => attempts'[b] = attempts[b]
    BY <1>1 DEF Stored
  <2> QED BY <1>1, <1>3, <2>1, BlocksReturned
<1>7. Histories'
  BY <1>1, EmptyHistory DEF BooksInv, Histories
<1> QED BY <1>1, <1>5, <1>6, <1>7 DEF BooksInv

\* mark_piece_hash_failed_blocks_for_generation.
LEMMA ResetBooks ==
  ASSUME AllTypes, BooksInv, mode = "running", NEW p \in Piece, NEW bad \in SUBSET BlocksOf(p),
         join[p].hash # "NotStarted", ResetBlocks(p, bad)
  PROVE  BooksInv'
<1>1. /\ phase' = [b \in Block |-> IF b \in bad THEN "Missing" ELSE phase[b]]
      /\ source' = [b \in Block |-> IF b \in bad THEN NoConn ELSE source[b]]
      /\ evidence' = [b \in Block |-> IF b \in bad THEN 0 ELSE evidence[b]]
      /\ count' = Move("Received", "Missing", Cardinality(bad))
      /\ contributions' = Uncredit(bad) /\ routes' = Prune(Uncredit(bad))
      /\ UNCHANGED <<attempts, active, nextId, requests, outstanding>>
  BY DEF ResetBlocks
<1>2. bad \in SUBSET Block /\ \A b \in bad : phase[b] = "Received"
  BY HashedPieceFacts, BlockFacts DEF AllTypes
<1>3. phase \in [Block -> Phases] /\ count \in [Status -> Int] /\ Cardinality(bad) \in Nat
  BY <1>2, BlockFinite DEF AllTypes, OwnershipInv, Shape, LedgerTypes
<1>4. Counted(phase', count')
  <2>1. Shifted(phase, phase', bad, "Missing")
    BY <1>1 DEF Shifted
  <2>2. Moved(count, count', "Received", "Missing", Cardinality(bad))
    BY <1>1, <1>3 DEF Moved, Move, Status
  <2>3. Counted(phase, count) /\ "Received" # "Missing"
    BY DEF BooksInv
  <2> QED BY <1>2, <1>3, <2>1, <2>2, <2>3, CountMove
<1>5. Credited(phase', source', contributions') /\ EvidenceRetained'
  <2>1. "Missing" \notin Stored /\ \A b \in Block : b \notin bad => attempts'[b] = attempts[b]
    BY <1>1 DEF Stored
  <2> QED BY <1>1, <1>2, <2>1, BlocksReturned
<1> QED BY <1>1, <1>4, <1>5 DEF BooksInv, Histories

\* A new selection starts with empty books.
LEMMA EmptyBooks ==
  ASSUME phase' = [b \in Block |-> "None"], count' = [s \in Status |-> 0],
         attempts' = [b \in Block |-> {}], active' = {}, requests' = [c \in Conn |-> 0],
         outstanding' = 0, contributions' = [c \in Conn |-> 0], 0 < nextId'
  PROVE  BooksInv'
<1>0. Cardinality({}) = 0
  BY FS_EmptySet, Zenon
<1>1. Counted(phase', count')
  <2>1. \A s \in Status : {b \in Block : phase'[b] = s} = {} /\ count'[s] = 0
    BY DEF Status
  <2> QED BY <1>0, <2>1 DEF Counted
<1>2. Ledger(active', requests', outstanding')
  <2>1. \A c \in Conn : {a \in active' : a.conn = c} = {} /\ requests'[c] = 0
    OBVIOUS
  <2> QED BY <1>0, <2>1 DEF Ledger
<1>3. Credited(phase', source', contributions')
  <2>1. \A c \in Conn : /\ {b \in Block : phase'[b] \in Stored /\ source'[b] = c} = {}
                        /\ contributions'[c] = 0
    BY DEF Stored
  <2> QED BY <1>0, <2>1 DEF Credited
<1>4. Histories'
  BY EmptyHistory DEF Histories
<1>5. EvidenceRetained'
  BY DEF EvidenceRetained, InPhase
<1> QED BY <1>1, <1>2, <1>3, <1>4, <1>5 DEF BooksInv

\* cancel_all: every request ends and every write is given up.
LEMMA CancelBooks ==
  ASSUME AllTypes, BooksInv, CancelAll
  PROVE  BooksInv'
<1> DEFINE O == Orphaned(active)
           W == GivenUp
           n == Cardinality(O)
           w == Cardinality(W)
           mid == [b \in Block |-> IF b \in O THEN "Missing" ELSE phase[b]]
           part == [count EXCEPT !["Requested"] = @ - n, !["Missing"] = @ + n]
<1>1. /\ attempts' = [b \in Block |-> Ended(b, active)]
      /\ phase' = [b \in Block |-> IF b \in O \cup W THEN "Missing" ELSE phase[b]]
      /\ source' = [b \in Block |-> IF b \in W THEN NoConn ELSE source[b]]
      /\ evidence' = [b \in Block |-> IF b \in W THEN 0 ELSE evidence[b]]
      /\ active' = {} /\ requests' = Release(active)
      /\ outstanding' = outstanding - Cardinality(active)
      /\ count' = [count EXCEPT !["Requested"] = @ - n, !["Writing"] = @ - w,
                                !["Missing"] = @ + Cardinality(O \cup W)]
      /\ contributions' = Uncredit(W) /\ nextId' = nextId /\ routes' = routes
  BY DEF CancelAll
<1>2. /\ O \in SUBSET Block /\ \A b \in O : phase[b] = "Requested"
      /\ W \in SUBSET Block /\ \A b \in W : phase[b] = "Writing"
  <2>1. active \in SUBSET active
    OBVIOUS
  <2> QED BY <2>1, OrphanedWasRequested DEF AllTypes, GivenUp
<1> HIDE DEF O, W
<1>3. IsFiniteSet(O) /\ IsFiniteSet(W) /\ n \in Nat /\ w \in Nat
  BY <1>2, BlockFinite
<1>4. Cardinality(O \cup W) = n + w
  <2>1. O \cap W = {}
    BY <1>2
  <2> QED BY <1>3, <2>1, CardUnion
<1>5. phase \in [Block -> Phases] /\ count \in [Status -> Int] /\ IsFiniteSet(active)
  BY DEF AllTypes, OwnershipInv, Shape, LedgerTypes
<1>6. Counted(phase', count')
  <2>1. Shifted(phase, mid, O, "Missing") /\ mid \in [Block -> Phases]
    BY <1>5 DEF Shifted, Phases, Status
  <2>2. Moved(count, part, "Requested", "Missing", Cardinality(O))
    <3> HIDE DEF n
    <3>1. Moved(count, part, "Requested", "Missing", n)
      BY <1>3, <1>5 DEF Moved, Status
    <3> QED BY <3>1 DEF n
  <2>3. Shifted(mid, phase', W, "Missing") /\ \A b \in W : mid[b] = "Writing"
    BY <1>1, <1>2 DEF Shifted
  <2>4. Moved(part, count', "Writing", "Missing", Cardinality(W))
    <3> HIDE DEF n, w
    <3>1. Moved(part, count', "Writing", "Missing", w)
      BY <1>1, <1>3, <1>4, <1>5 DEF Moved, Status
    <3> QED BY <3>1 DEF w
  <2>5. Counted(phase, count) /\ "Requested" # "Missing" /\ "Writing" # "Missing"
    BY DEF BooksInv
  <2> HIDE DEF mid, part
  <2>6. Counted(mid, part)
    BY <1>2, <1>5, <2>1, <2>2, <2>5, CountMove
  <2> QED BY <1>2, <2>1, <2>3, <2>4, <2>5, <2>6, CountMove
<1>7. Ledger(active', requests', outstanding')
  <2>1. Debited(requests, requests', active)
    BY <1>1 DEF Release, Debited
  <2>2. active \in SUBSET active /\ active' = active \ active
    BY <1>1
  <2> QED BY <1>1, <1>5, <2>1, <2>2, LedgerRelease DEF BooksInv
<1>8. Credited(phase', source', contributions')
  <2>1. \A b \in W : phase[b] \in Stored
    BY <1>2 DEF Stored
  <2>2. Dropped(phase, phase', source, source', W)
    BY <1>1, <1>2 DEF Dropped, Stored
  <2>3. Returned(contributions, contributions', source, W)
    BY <1>1 DEF Returned, Uncredit
  <2>4. Credited(phase, source, contributions)
    BY DEF BooksInv
  <2> QED BY <1>2, <2>1, <2>2, <2>3, <2>4, CreditReturn
<1>9. Histories'
  BY <1>1, EndedHistory DEF Histories, BooksInv
<1>10. EvidenceRetained'
  <2>1. \A a \in active : phase[a.block] = "Requested" /\ a.block \in Block
    BY DEF AllTypes, OwnershipInv, Shape, ActiveRecord, RequestOwnership, IndexAgrees, RequestedIsOwned
  <2>2. \A b \in Block : phase'[b] \in Stored =>
          /\ phase[b] \in Stored /\ source'[b] = source[b] /\ evidence'[b] = evidence[b]
          /\ attempts'[b] = attempts[b]
    BY <1>1, <1>2, <2>1 DEF Ended, Stored
  <2> QED BY <1>1, <1>8, <2>2, EvidenceKept DEF BooksInv
<1> QED BY <1>6, <1>7, <1>8, <1>9, <1>10 DEF BooksInv

\* A piece that is planned was not planned before; it takes a free place of the window, or
\* that of a plan without a request.
LEMMA PlanShape ==
  ASSUME OwnershipInv, NEW p \in Piece, PlanPiece(p) \/ \E fits \in BOOLEAN : PlanForStreaming(p, fits)
  PROVE  \E P \in SUBSET {p}, Q \in SUBSET planned :
           /\ Plan(P, Q) /\ P \cap planned = {} /\ P \in SUBSET Piece
           /\ \A q \in Q : \A b \in BlocksOf(q) : phase[b] = "Missing"
           /\ Cardinality(planned) < MaxPlanned \/ \E m \in planned : Q = {m}
<1>1. p \notin planned
  BY DEF PlanPiece, PlanForStreaming
<1>2. CASE Plan({p}, {}) /\ Cardinality(planned) < MaxPlanned
  BY <1>1, <1>2
<1>3. CASE ~(Plan({p}, {}) /\ Cardinality(planned) < MaxPlanned)
  <2> DEFINE untouched == {q \in planned \ Demand : \A b \in BlocksOf(q) : phase[b] = "Missing"}
  <2>1. PICK fits \in BOOLEAN :
          untouched # {} /\ Plan(IF fits THEN {p} ELSE {}, {Max(untouched)})
    BY <1>3 DEF PlanPiece, PlanForStreaming
  <2>2. Max(untouched) \in untouched
    <3>1. untouched \in SUBSET Nat /\ untouched \in SUBSET Piece
      BY PieceAssumption DEF OwnershipInv, Shape
    <3>2. IsFiniteSet(untouched)
      BY <3>1, PieceAssumption, FS_Subset
    <3> HIDE DEF untouched
    <3> QED BY <2>1, <3>1, <3>2, MaxOfNaturals
  <2> DEFINE m == Max(untouched)
             P == IF fits THEN {p} ELSE {}
  <2>3. m \in planned /\ \A b \in BlocksOf(m) : phase[b] = "Missing"
    BY <2>2
  <2>4. P \in SUBSET {p} /\ P \cap planned = {} /\ P \in SUBSET Piece /\ Plan(P, {m})
    BY <1>1, <2>1
  <2> HIDE DEF m, P
  <2> QED BY <2>3, <2>4
<1> QED BY <1>2, <1>3

\* the connection c is asked for a block, by one of the scheduler's passes
Scheduled(c) == \/ ScheduleActive(c) \/ ScheduleEndgame(c)
                \/ \E p \in Piece : ScheduleInactive(c, p) \/ ScheduleStreaming(c, p)
                \/ \E b \in Block : ScheduleStreamingDuplicate(c, b)

\* A request is scheduled for a block of the torrent, to an open connection that has room for
\* it and within the budget; the block's piece is active already or may be activated.
LEMMA AssignShape ==
  ASSUME OwnershipInv, NEW c \in Conn, Scheduled(c)
  PROVE  /\ mode = "running" /\ IsOpen(c) /\ BudgetAllows /\ (requests[c] < MaxRequests \/ requests[c] = 0)
         /\ \E b \in Block, purpose \in Purposes :
              \/ AssignPrimary(c, b, purpose) /\ (b[1] \in activePieces \/ CanActivate(b[1]))
              \/ AssignDuplicate(c, b, purpose)
<1>0. {"Ordinary", "Endgame", "StreamingPrimary", "StreamingDuplicate"} \subseteq Purposes
  BY DEF Purposes
<1>1. ASSUME NEW p \in Piece, NEW purpose \in Purposes, mode = "running", cursor[p] <= BlockCount[p],
             AssignPrimary(c, <<p, cursor[p]>>, purpose), p \in activePieces \/ CanActivate(p)
      PROVE  \E b \in Block : AssignPrimary(c, b, purpose) /\ (b[1] \in activePieces \/ CanActivate(b[1]))
  <2> DEFINE b == <<p, cursor[p]>>
  <2>1. cursor[p] \in 1 .. (BlockCount[p] + 1) /\ BlockCount[p] \in Nat
    BY <1>1, BlocksFinite DEF OwnershipInv, Indexed, PieceIndexed
  <2>2. b \in Block /\ b[1] = p
    BY <1>1, <2>1, BlockFacts
  <2> HIDE DEF b
  <2>3. AssignPrimary(c, b, purpose)
    BY <1>1 DEF b
  <2> QED BY <1>1, <2>2, <2>3
<1>2. CASE ScheduleActive(c)
  <2> DEFINE P == {p \in Requestable : CanRequest(c, p)}
             m == Min(P)
  <2>1. /\ mode = "running" /\ IsOpen(c) /\ BudgetAllows /\ requests[c] < MaxRequests /\ P # {}
        /\ AssignPrimary(c, <<m, requestable[m]>>, "Ordinary")
    BY <1>2 DEF ScheduleActive, Idle, Eligible
  <2>2. P \in SUBSET Nat
    BY PieceAssumption DEF Requestable
  <2>3. m \in P
    <3> HIDE DEF P
    <3> QED BY <2>1, <2>2, MinOfNaturals
  <2>4. m \in Piece /\ requestable[m] # 0
    <3> HIDE DEF m
    <3> QED BY <2>3 DEF Requestable
  <2> HIDE DEF m, P
  <2>5. PieceIndexed(m)
    BY <2>1, <2>4 DEF OwnershipInv, Indexed
  <2>6. MissingOf(m) # {} /\ requestable[m] = cursor[m] /\ m \in activePieces
    BY <2>4, <2>5 DEF PieceIndexed
  <2>7. cursor[m] <= BlockCount[m]
    BY <2>4, <2>5, <2>6, CursorFacts
  <2>8. AssignPrimary(c, <<m, cursor[m]>>, "Ordinary")
    BY <2>1, <2>6
  <2> QED BY <1>0, <1>1, <2>1, <2>4, <2>6, <2>7, <2>8
<1>3. CASE ScheduleEndgame(c)
  <2> DEFINE B == {b \in Block : /\ phase[b] = "Requested" /\ ActiveIn(b) # {}
                                 /\ \A r \in ActiveIn(b) : r.conn # c
                                 /\ CanRequest(c, b[1])}
             first == CHOOSE b \in B : \A d \in B : Before(b, d)
  <2>1. /\ mode = "running" /\ IsOpen(c) /\ B # {} /\ AssignDuplicate(c, first, "Endgame")
        /\ requests[c] = 0 /\ BudgetAllows
    BY <1>3 DEF ScheduleEndgame, Idle
  <2>2. B \in SUBSET Block
    OBVIOUS
  <2> HIDE DEF B
  <2>3. first \in Block
    BY <2>1, <2>2, FirstBlock
  <2> HIDE DEF first
  <2> QED BY <1>0, <2>1, <2>3
<1>4. ASSUME NEW p \in Piece, ScheduleInactive(c, p) \/ ScheduleStreaming(c, p)
      PROVE  /\ mode = "running" /\ IsOpen(c) /\ BudgetAllows /\ requests[c] < MaxRequests
             /\ \E b \in Block, purpose \in Purposes :
                  AssignPrimary(c, b, purpose) /\ (b[1] \in activePieces \/ CanActivate(b[1]))
  <2>1. PICK purpose \in {"Ordinary", "StreamingPrimary"} :
          /\ mode = "running" /\ IsOpen(c) /\ cursor[p] <= BlockCount[p] /\ BudgetAllows
          /\ requests[c] < MaxRequests /\ (p \in activePieces \/ CanActivate(p))
          /\ AssignPrimary(c, <<p, cursor[p]>>, purpose)
    BY <1>4 DEF ScheduleInactive, ScheduleStreaming, Eligible, Idle
  <2> QED BY <1>0, <1>1, <2>1
<1>5. ASSUME NEW b \in Block, ScheduleStreamingDuplicate(c, b)
      PROVE  /\ mode = "running" /\ IsOpen(c) /\ BudgetAllows /\ requests[c] < MaxRequests
             /\ \E purpose \in Purposes : AssignDuplicate(c, b, purpose)
  BY <1>0, <1>5 DEF ScheduleStreamingDuplicate, Idle
<1> QED BY <1>2, <1>3, <1>4, <1>5 DEF Scheduled

\* Every step keeps the books.
LEMMA BooksStep ==
  ASSUME AllTypes, BooksInv, [Next]_vars
  PROVE  BooksInv'
<1>0. OwnershipInv
  BY DEF AllTypes
<1>1. ASSUME PeerNext PROVE BooksInv'
  <2>1. ASSUME NEW c \in Conn, Disconnect(c) PROVE BooksInv'
    <3>1. Owned(c) \in SUBSET active /\ Terminate(Owned(c)) /\ routes' = Prune(contributions)
      BY <2>1 DEF Owned, Disconnect
    <3> QED BY <3>1, TerminateBooks
  <2>2. ASSUME NEW c \in Conn, Choke(c) PROVE BooksInv'
    <3> DEFINE T == IF c \in FastConn THEN {} ELSE Owned(c)
    <3>1. T \in SUBSET active /\ Terminate(T) /\ routes' = routes
      BY <2>2 DEF Owned, Choke
    <3> HIDE DEF T
    <3> QED BY <3>1, TerminateBooks
  <2>3. ASSUME NEW a \in active, RejectRequest(a) PROVE BooksInv'
    <3>1. {a} \in SUBSET active /\ Terminate({a}) /\ routes' = routes
      BY <2>3 DEF RejectRequest
    <3> QED BY <3>1, TerminateBooks
  <2>4. ASSUME NEW c, NEW x, AddConnection(c) \/ Unchoke(c) \/ SetAvailability(c, x)
                             \/ PeerHas(c, x) \/ AllowedFast(c, x)
        PROVE  BooksInv'
    BY <2>4, BooksUntouched DEF AddConnection, Unchoke, SetAvailability, PeerHas, AllowedFast
  <2> QED BY <1>1, <2>1, <2>2, <2>3, <2>4, ReceiveBooks DEF PeerNext, RemoveConnection, CloseBanned
<1>2. ASSUME ScheduleNext PROVE BooksInv'
  <2>1. ASSUME NEW p \in Piece, PlanPiece(p) \/ \E fits \in BOOLEAN : PlanForStreaming(p, fits)
        PROVE  BooksInv'
    <3>1. PICK P \in SUBSET {p}, Q \in SUBSET planned :
            /\ Plan(P, Q) /\ P \cap planned = {} /\ P \in SUBSET Piece
            /\ \A q \in Q : \A b \in BlocksOf(q) : phase[b] = "Missing"
      BY <1>0, <2>1, PlanShape
    <3> QED BY <3>1, PlanBooks
  <2>2. ASSUME NEW c \in Conn, Scheduled(c) PROVE BooksInv'
    BY <1>0, <2>2, AssignShape, AssignBooks
  <2>3. ASSUME NEW T \in SUBSET active, ExpireRequests(T) PROVE BooksInv'
    BY <2>3, TerminateBooks DEF ExpireRequests
  <2> QED BY <1>2, <2>1, <2>2, <2>3 DEF ScheduleNext, Scheduled
<1>3. ASSUME NEW p \in Piece, NEW bad \in SUBSET BlocksOf(p), mode = "running",
             join[p].hash # "NotStarted", ResetBlocks(p, bad)
      PROVE  BooksInv'
  BY <1>3, ResetBooks
<1>4. ASSUME StorageNext PROVE BooksInv'
  <2>1. ASSUME NEW h, PieceHashFailed(h) PROVE BooksInv'
    <3>1. /\ h.piece \in Piece /\ mode = "running" /\ join[h.piece].hash = "Running"
          /\ ResetBlocks(h.piece, BlocksOf(h.piece))
      BY <1>0, <2>1 DEF PieceHashFailed, Current, Idle, OwnershipInv, Shape
    <3> QED BY <1>3, <3>1
  <2>2. ASSUME NEW bad, FinishDiagnosis(bad) PROVE BooksInv'
    <3>1. /\ diagnosis \in Piece /\ mode = "running" /\ join[diagnosis].hash = "Failed"
          /\ ResetBlocks(diagnosis, bad) /\ bad \in SUBSET BlocksOf(diagnosis)
      BY <1>0, <2>2 DEF FinishDiagnosis, Idle, OwnershipInv, Shape, Joined
    <3> QED BY <1>3, <3>1
  <2>3. ASSUME NEW r, ExecuteWrite(r) \/ ExecuteHash(r) \/ BeginDiagnosis(r) \/ HashFatal(r)
        PROVE  BooksInv'
    BY <2>3, BooksUntouched DEF ExecuteWrite, ExecuteHash, BeginDiagnosis, HashFatal
  <2> QED BY <1>4, <2>1, <2>2, <2>3, WriteStoredBooks, WriteFailedBooks, VerifiedBooks DEF StorageNext
<1>5. ASSUME RunNext PROVE BooksInv'
  <2>1. ASSUME NEW W, NEW lost, ReplaceWanted(W, lost) PROVE BooksInv'
    <3>1. 0 < nextId'
      BY <2>1 DEF ReplaceWanted, BooksInv, Histories
    <3> QED BY <2>1, <3>1, EmptyBooks DEF ReplaceWanted
  <2>2. ASSUME ReplacePriorities PROVE BooksInv'
    <3>1. CASE diagnosis = NoPiece
      BY <2>2, <3>1, BooksUntouched DEF ReplacePriorities
    <3>2. CASE diagnosis # NoPiece
      <4>1. /\ diagnosis \in Piece /\ mode = "running" /\ join[diagnosis].hash = "Failed"
            /\ ResetBlocks(diagnosis, BlocksOf(diagnosis))
        BY <1>0, <2>2, <3>2 DEF ReplacePriorities, Idle, OwnershipInv, Shape, Joined
      <4> QED BY <1>3, <4>1
    <3> QED BY <3>1, <3>2
  <2>3. ASSUME BeginStop \/ StopStorage \/ Stopped PROVE BooksInv'
    BY <2>3, BooksUntouched DEF BeginStop, StopStorage, Stopped, vars
  <2> QED BY <1>5, <2>1, <2>2, <2>3, CancelBooks DEF RunNext
<1>6. ASSUME UNCHANGED vars PROVE BooksInv'
  BY <1>6, BooksUntouched DEF vars
<1> QED BY <1>1, <1>2, <1>4, <1>5, <1>6 DEF Next

-----------------------------------------------------------------------------
(* Ceilings and teardown. *)

\* a step that asks for nothing, plans nothing and admits nobody
Shrinks ==
  /\ active' \subseteq active /\ activePieces' \subseteq activePieces /\ planned' \subseteq planned
  /\ \A c \in Conn : conn'[c] = "open" => conn[c] = "open"

\* Requests, active pieces, plans and connections grow in these steps only.
LEMMA Growth ==
  ASSUME AllTypes, [Next]_vars
  PROVE  \/ Shrinks
         \/ \E c \in Conn : AddConnection(c) \/ Scheduled(c)
         \/ \E p \in Piece : PlanPiece(p) \/ \E fits \in BOOLEAN : PlanForStreaming(p, fits)
<1>1. ASSUME UNCHANGED <<active, activePieces, planned, conn>> PROVE Shrinks
  BY <1>1 DEF Shrinks
<1>2. conn \in [Conn -> {"new", "open", "closed"}]
  BY DEF AllTypes, OwnershipInv, Shape
<1>3. ASSUME NEW T, Terminate(T), planned' = planned,
             conn' = conn \/ \E c \in Conn : conn' = [conn EXCEPT ![c] = "closed"]
      PROVE  Shrinks
  <2>1. active' \subseteq active /\ activePieces' \subseteq activePieces
    BY <1>3 DEF Terminate, BecameMissing
  <2>2. \A c \in Conn : conn'[c] = "open" => conn[c] = "open"
    BY <1>2, <1>3
  <2> QED BY <1>3, <2>1, <2>2 DEF Shrinks
<1>4. ASSUME PeerNext, \A c \in Conn : ~AddConnection(c) PROVE Shrinks
  <2>1. ASSUME NEW c \in Conn, Disconnect(c) \/ Choke(c) PROVE Shrinks
    BY <1>3, <2>1 DEF Disconnect, Choke, planVars
  <2>2. ASSUME NEW a, RejectRequest(a) PROVE Shrinks
    BY <1>3, <2>2 DEF RejectRequest, planVars
  <2>3. ASSUME NEW c, NEW b, NEW content, ReceiveBlock(c, b, content) PROVE Shrinks
    <3>1. active' \subseteq active /\ UNCHANGED <<activePieces, planned, conn>>
      BY <2>3 DEF ReceiveBlock, connVars, planVars, indexVars
    <3> QED BY <3>1 DEF Shrinks
  <2>4. ASSUME NEW c, NEW x, Unchoke(c) \/ SetAvailability(c, x) \/ PeerHas(c, x) \/ AllowedFast(c, x)
        PROVE  Shrinks
    BY <1>1, <2>4 DEF Unchoke, SetAvailability, PeerHas, AllowedFast, blockVars, indexVars, planVars
  <2> QED BY <1>4, <2>1, <2>2, <2>3, <2>4 DEF PeerNext, RemoveConnection, CloseBanned
<1>5. ASSUME NEW T, ExpireRequests(T) PROVE Shrinks
  BY <1>3, <1>5 DEF ExpireRequests, connVars, planVars
<1>6. ASSUME NEW p, NEW bad, ResetBlocks(p, bad) PROVE Shrinks
  <2>1. activePieces' \subseteq activePieces /\ UNCHANGED <<active, planned, conn>>
    BY <1>6 DEF ResetBlocks, connVars, planVars
  <2> QED BY <2>1 DEF Shrinks
<1>7. ASSUME StorageNext PROVE Shrinks
  <2>1. ASSUME NEW r, WriteFailed(r) PROVE Shrinks
    <3>1. activePieces' \subseteq activePieces /\ UNCHANGED <<active, planned, conn>>
      BY <2>1 DEF WriteFailed, BecameMissing, connVars, planVars
    <3> QED BY <3>1 DEF Shrinks
  <2>2. ASSUME NEW h, PieceVerified(h) PROVE Shrinks
    <3>1. activePieces' \subseteq activePieces /\ planned' \subseteq planned /\ UNCHANGED <<active, conn>>
      BY <2>2 DEF PieceVerified, connVars
    <3> QED BY <3>1 DEF Shrinks
  <2>3. ASSUME NEW r, ExecuteWrite(r) \/ ExecuteHash(r) \/ WriteStored(r) \/ BeginDiagnosis(r) \/ HashFatal(r)
        PROVE  Shrinks
    BY <1>1, <2>3 DEF ExecuteWrite, ExecuteHash, WriteStored, BeginDiagnosis, HashFatal, connVars,
                      planVars, blockVars, indexVars
  <2> QED BY <1>6, <1>7, <2>1, <2>2, <2>3 DEF StorageNext, PieceHashFailed, FinishDiagnosis
<1>8. ASSUME RunNext PROVE Shrinks
  <2>1. ASSUME NEW W, NEW lost, ReplaceWanted(W, lost) PROVE Shrinks
    <3>1. active' = {} /\ activePieces' = {} /\ planned' = {} /\ conn' = conn
      BY <2>1 DEF ReplaceWanted, connVars
    <3> QED BY <3>1 DEF Shrinks
  <2>2. ASSUME CancelAll PROVE Shrinks
    <3>1. active' = {} /\ activePieces' = {} /\ UNCHANGED <<planned, conn>>
      BY <2>2 DEF CancelAll, connVars, planVars
    <3> QED BY <3>1 DEF Shrinks
  <2>3. ASSUME ReplacePriorities PROVE Shrinks
    BY <1>1, <1>6, <2>3 DEF ReplacePriorities, connVars, planVars, blockVars, indexVars
  <2>4. ASSUME BeginStop \/ StopStorage \/ Stopped PROVE Shrinks
    BY <1>1, <2>4 DEF BeginStop, StopStorage, Stopped, vars, connVars, planVars, blockVars, indexVars
  <2> QED BY <1>8, <2>1, <2>2, <2>3, <2>4 DEF RunNext
<1>9. ASSUME UNCHANGED vars PROVE Shrinks
  BY <1>1, <1>9 DEF vars, connVars, planVars, blockVars, indexVars
<1>10. ASSUME ScheduleNext, \A T : ~ExpireRequests(T)
       PROVE  \/ \E c \in Conn : Scheduled(c)
              \/ \E p \in Piece : PlanPiece(p) \/ \E fits \in BOOLEAN : PlanForStreaming(p, fits)
  BY <1>10 DEF ScheduleNext, Scheduled
<1> QED BY <1>4, <1>5, <1>7, <1>8, <1>9, <1>10 DEF Next

\* A subset of a finite set with at most n elements has at most n elements.
LEMMA SubsetBound ==
  ASSUME NEW S, IsFiniteSet(S), NEW T \in SUBSET S, NEW n \in Nat, Cardinality(S) <= n
  PROVE  IsFiniteSet(T) /\ Cardinality(T) <= n
<1>1. IsFiniteSet(T) /\ Cardinality(T) <= Cardinality(S)
  BY FS_Subset
<1>2. Cardinality(S) \in Nat /\ Cardinality(T) \in Nat
  BY <1>1, FS_CardinalityType
<1> QED BY <1>1, <1>2

\* The limits are positive numbers.
LEMMA Limits ==
  {MaxConns, MaxRequests, MaxOutstanding, MaxActivePieces, MaxPlanned} \subseteq Nat \ {0}
BY LimitAssumption

\* The ceilings hold after every step: a request, a plan, an active piece and a connection
\* are added only below them.
LEMMA CeilingsStep ==
  ASSUME AllTypes, AllTypes', BooksInv, BooksInv', Ceilings, [Next]_vars
  PROVE  Ceilings'
<1>1. /\ IsFiniteSet(active) /\ IsFiniteSet(active') /\ IsFiniteSet(planned)
      /\ IsFiniteSet(activePieces) /\ IsFiniteSet(Open)
      /\ requests \in [Conn -> Int] /\ outstanding \in Int
      /\ conn \in [Conn -> {"new", "open", "closed"}] /\ planned \subseteq Piece
  BY PieceAssumption, FS_Subset DEF AllTypes, OwnershipInv, Shape, LedgerTypes, Ceilings
<1>2. /\ MaxConns \in Nat \ {0} /\ MaxRequests \in Nat \ {0} /\ MaxOutstanding \in Nat \ {0}
      /\ MaxActivePieces \in Nat \ {0} /\ MaxPlanned \in Nat \ {0}
  BY Limits
<1>3. Ledger(active, requests, outstanding) /\ Ledger(active', requests', outstanding')
  BY DEF BooksInv
<1>4. ASSUME active' \subseteq active
      PROVE  outstanding' <= MaxOutstanding /\ \A c \in Conn : requests'[c] <= MaxRequests
  <2>1. outstanding' <= MaxOutstanding
    <3>1. Cardinality(active) <= MaxOutstanding
      BY <1>3 DEF Ledger, Ceilings
    <3>2. Cardinality(active') <= MaxOutstanding
      BY <1>1, <1>2, <1>4, <3>1, SubsetBound
    <3> QED BY <1>3, <3>2 DEF Ledger
  <2>2. ASSUME NEW c \in Conn PROVE requests'[c] <= MaxRequests
    <3> DEFINE S == {a \in active : a.conn = c}
               D == {a \in active' : a.conn = c}
    <3>1. requests[c] = Cardinality(S) /\ requests'[c] = Cardinality(D)
      BY <1>3 DEF Ledger
    <3>2. S \in SUBSET active /\ D \in SUBSET S
      BY <1>4
    <3> HIDE DEF S, D
    <3>3. IsFiniteSet(S) /\ Cardinality(S) <= MaxRequests
      BY <1>1, <3>1, <3>2, FS_Subset DEF Ceilings
    <3>4. Cardinality(D) <= MaxRequests
      BY <1>2, <3>2, <3>3, SubsetBound
    <3> QED BY <3>1, <3>4
  <2> QED BY <2>1, <2>2
<1>5. ASSUME activePieces' \subseteq activePieces PROVE Cardinality(activePieces') <= MaxActivePieces
  BY <1>1, <1>2, <1>5, SubsetBound DEF Ceilings
<1>6. ASSUME planned' \subseteq planned PROVE Cardinality(planned') <= MaxPlanned
  BY <1>1, <1>2, <1>6, SubsetBound DEF Ceilings
<1>7. ASSUME \A c \in Conn : conn'[c] = "open" => conn[c] = "open"
      PROVE  IsFiniteSet(Open') /\ Cardinality(Open') <= MaxConns
  <2>1. Open' \in SUBSET Open
    BY <1>7 DEF Open, IsOpen
  <2> QED BY <1>1, <1>2, <2>1, SubsetBound DEF Ceilings
<1>8. CASE Shrinks
  BY <1>4, <1>5, <1>6, <1>7, <1>8 DEF Shrinks, Ceilings
<1>9. ASSUME NEW c \in Conn, AddConnection(c) PROVE Ceilings'
  <2>1. /\ conn[c] = "new" /\ Cardinality(Open) < MaxConns /\ conn' = [conn EXCEPT ![c] = "open"]
        /\ UNCHANGED <<active, planned, activePieces>>
    BY <1>9 DEF AddConnection, blockVars, planVars, indexVars
  <2>2. Open' = Open \cup {c} /\ c \notin Open
    BY <1>1, <2>1 DEF Open, IsOpen
  <2>3. IsFiniteSet(Open') /\ Cardinality(Open') = Cardinality(Open) + 1
    BY <1>1, <2>2, FS_AddElement
  <2>4. Cardinality(Open) \in Nat
    BY <1>1, FS_CardinalityType
  <2>5. Cardinality(Open') <= MaxConns
    BY <1>2, <2>1, <2>3, <2>4
  <2> QED BY <1>4, <1>5, <1>6, <2>1, <2>3, <2>5 DEF Ceilings
<1>10. ASSUME NEW p \in Piece, PlanPiece(p) \/ \E fits \in BOOLEAN : PlanForStreaming(p, fits)
       PROVE  Ceilings'
  <2>1. PICK P \in SUBSET {p}, Q \in SUBSET planned :
          /\ Plan(P, Q) /\ P \cap planned = {} /\ P \in SUBSET Piece
          /\ Cardinality(planned) < MaxPlanned \/ \E m \in planned : Q = {m}
    BY <1>10, PlanShape DEF AllTypes
  <2>2. planned' = (planned \ Q) \cup P /\ UNCHANGED <<active, activePieces, conn>>
    BY <2>1 DEF Plan, connVars
  <2> DEFINE rest == planned \ Q
  <2>4. IsFiniteSet(rest) /\ Cardinality(rest) \in Nat /\ Cardinality(planned) \in Nat
        /\ Cardinality(rest) <= Cardinality(planned)
    <3>1. rest \in SUBSET planned
      OBVIOUS
    <3> QED BY <1>1, <3>1, FS_Subset, FS_CardinalityType
  <2>5. Cardinality(rest) < MaxPlanned
    <3>1. CASE Cardinality(planned) < MaxPlanned
      BY <1>2, <2>4, <3>1
    <3>2. ASSUME NEW m \in planned, Q = {m} PROVE Cardinality(rest) < MaxPlanned
      <4>1. Cardinality(planned \ {m}) = Cardinality(planned) - 1
        BY <1>1, <3>2, FS_RemoveElement
      <4>2. Cardinality(planned) <= MaxPlanned
        BY DEF Ceilings
      <4> QED BY <1>2, <2>4, <3>2, <4>1, <4>2
    <3> QED BY <2>1, <3>1, <3>2
  <2>6. Cardinality(planned') <= MaxPlanned
    <3> HIDE DEF rest
    <3>1. P = {} \/ P = {p}
      BY <2>1
    <3>2. CASE P = {}
      <4>1. planned' = rest
        BY <2>2, <3>2 DEF rest
      <4> QED BY <1>2, <2>4, <2>5, <4>1
    <3>3. CASE P = {p}
      <4>1. planned' = rest \cup {p} /\ p \notin rest
        BY <2>1, <2>2, <3>3 DEF rest
      <4>2. Cardinality(planned') = Cardinality(rest) + 1
        BY <2>4, <4>1, FS_AddElement
      <4> QED BY <1>2, <2>4, <2>5, <4>2
    <3> QED BY <3>1, <3>2, <3>3
  <2> QED BY <1>4, <1>5, <1>7, <2>2, <2>6 DEF Ceilings
<1>11. ASSUME NEW c \in Conn, Scheduled(c) PROVE Ceilings'
  <2>1. /\ BudgetAllows /\ (requests[c] < MaxRequests \/ requests[c] = 0)
        /\ \E b \in Block, purpose \in Purposes :
             \/ AssignPrimary(c, b, purpose) /\ (b[1] \in activePieces \/ CanActivate(b[1]))
             \/ AssignDuplicate(c, b, purpose)
    BY <1>11, AssignShape DEF AllTypes
  <2>2. PICK b \in Block, purpose \in Purposes :
          \/ AssignPrimary(c, b, purpose) /\ (b[1] \in activePieces \/ CanActivate(b[1]))
          \/ AssignDuplicate(c, b, purpose)
    BY <2>1
  <2>3. /\ requests' = [requests EXCEPT ![c] = @ + 1] /\ outstanding' = outstanding + 1
        /\ UNCHANGED <<conn, planned>>
    BY <2>2 DEF AssignPrimary, AssignDuplicate, Assign, connVars, planVars
  <2>4. outstanding' <= MaxOutstanding
    BY <2>1, <2>3 DEF BudgetAllows
  <2>5. \A d \in Conn : requests'[d] <= MaxRequests
    BY <1>1, <1>2, <2>1, <2>3 DEF Ceilings
  <2>6. Cardinality(activePieces') <= MaxActivePieces
    <3>1. CASE AssignDuplicate(c, b, purpose)
      BY <1>5, <3>1 DEF AssignDuplicate, indexVars
    <3>2. CASE b[1] \in activePieces /\ AssignPrimary(c, b, purpose)
      <4>1. activePieces' = activePieces
        BY <3>2 DEF AssignPrimary
      <4> QED BY <1>5, <4>1
    <3>3. CASE b[1] \notin activePieces /\ CanActivate(b[1]) /\ AssignPrimary(c, b, purpose)
      <4>1. activePieces' = activePieces \cup {b[1]}
        BY <3>3 DEF AssignPrimary
      <4>2. Cardinality(activePieces') = Cardinality(activePieces) + 1
        BY <1>1, <3>3, <4>1, FS_AddElement
      <4>3. Cardinality(activePieces) \in Nat
        BY <1>1, FS_CardinalityType
      <4>4. Cardinality(activePieces) < MaxActivePieces
        <5>1. CASE activePieces = {}
          <6>1. Cardinality(activePieces) = 0
            BY <5>1, FS_EmptySet, Zenon
          <6> QED BY <1>2, <6>1
        <5>2. CASE activePieces # {}
          BY <3>3, <5>2 DEF CanActivate
        <5> QED BY <5>1, <5>2
      <4> QED BY <1>2, <4>2, <4>3, <4>4
    <3> QED BY <2>2, <3>1, <3>2, <3>3
  <2> QED BY <1>6, <1>7, <2>3, <2>4, <2>5, <2>6 DEF Ceilings
<1> QED BY <1>8, <1>9, <1>10, <1>11, Growth

\* The states that follow teardown: only cancel_all enters them, and then nothing but the
\* storage owner moves.
LEMMA TeardownFrame ==
  ASSUME [Next]_vars, mode' \in {"cancelled", "stopped"}
  PROVE  \/ CancelAll
         \/ /\ mode \in {"cancelled", "stopped"}
            /\ UNCHANGED <<phase, active, pieceMissing, pieceActive>>
<1> DEFINE Over == /\ mode \in {"cancelled", "stopped"}
                   /\ UNCHANGED <<phase, active, pieceMissing, pieceActive>>
<1>1. ASSUME mode = "running", mode' = mode \/ mode' = "stopping" PROVE FALSE
  BY <1>1
<1>2. ASSUME PeerNext PROVE FALSE
  <2>1. ASSUME NEW c, NEW x, NEW y,
               \/ AddConnection(c) \/ RemoveConnection(c) \/ CloseBanned(c) \/ Choke(c) \/ Unchoke(c)
               \/ SetAvailability(c, x) \/ PeerHas(c, x) \/ AllowedFast(c, x)
               \/ ReceiveBlock(c, x, y) \/ RejectRequest(c)
        PROVE  mode = "running" /\ mode' = mode
    BY <2>1 DEF AddConnection, RemoveConnection, CloseBanned, Choke, Unchoke, SetAvailability, PeerHas,
                AllowedFast, ReceiveBlock, RejectRequest, Idle, runVars
  <2> QED BY <1>1, <1>2, <2>1 DEF PeerNext
<1>3. ASSUME ScheduleNext PROVE FALSE
  <2>1. ASSUME NEW P, NEW Q, Plan(P, Q) PROVE mode' = mode
    BY <2>1 DEF Plan, runVars
  <2>2. ASSUME NEW c, NEW b, NEW purpose, AssignPrimary(c, b, purpose) \/ AssignDuplicate(c, b, purpose)
        PROVE  mode' = mode
    BY <2>2 DEF AssignPrimary, AssignDuplicate, Assign, runVars
  <2>3. ASSUME NEW p, NEW fits, PlanPiece(p) \/ PlanForStreaming(p, fits)
        PROVE  mode = "running" /\ mode' = mode
    BY <2>1, <2>3 DEF PlanPiece, PlanForStreaming, Idle
  <2>4. ASSUME NEW c, NEW x, \/ ScheduleActive(c) \/ ScheduleEndgame(c) \/ ScheduleInactive(c, x)
                             \/ ScheduleStreaming(c, x) \/ ScheduleStreamingDuplicate(c, x)
        PROVE  mode = "running" /\ mode' = mode
    BY <2>2, <2>4 DEF ScheduleActive, ScheduleEndgame, ScheduleInactive, ScheduleStreaming,
                      ScheduleStreamingDuplicate, Idle
  <2>5. ASSUME NEW T, ExpireRequests(T) PROVE mode = "running" /\ mode' = mode
    BY <2>5 DEF ExpireRequests, Idle, runVars
  <2> QED BY <1>1, <1>3, <2>3, <2>4, <2>5 DEF ScheduleNext
<1>4. ASSUME StorageNext PROVE Over
  <2>1. ASSUME NEW x, ExecuteWrite(x) \/ ExecuteHash(x) PROVE Over
    BY <2>1 DEF ExecuteWrite, ExecuteHash, runVars, blockVars, indexVars
  <2>2. ASSUME NEW x, \/ WriteStored(x) \/ PieceVerified(x) \/ PieceHashFailed(x)
                      \/ BeginDiagnosis(x) \/ FinishDiagnosis(x)
        PROVE  mode = "running" /\ mode' = mode
    BY <2>2 DEF WriteStored, PieceVerified, PieceHashFailed, BeginDiagnosis, FinishDiagnosis, Current,
                Idle, runVars
  <2>3. ASSUME NEW x, WriteFailed(x) \/ HashFatal(x) PROVE mode = "running" /\ mode' = "stopping"
    BY <2>3 DEF WriteFailed, HashFatal, Current, Idle
  <2> HIDE DEF Over
  <2> QED BY <1>1, <1>4, <2>1, <2>2, <2>3 DEF StorageNext
<1>5. ASSUME RunNext, ~CancelAll PROVE Over
  <2>1. ASSUME NEW W, NEW lost, ReplaceWanted(W, lost) \/ ReplacePriorities
        PROVE  mode = "running" /\ mode' = mode
    BY <2>1 DEF ReplaceWanted, ReplacePriorities, Idle
  <2>2. ASSUME BeginStop PROVE FALSE
    BY <2>2 DEF BeginStop
  <2>3. ASSUME StopStorage \/ Stopped PROVE Over
    BY <2>3 DEF StopStorage, Stopped, vars, blockVars, indexVars
  <2> HIDE DEF Over
  <2> QED BY <1>1, <1>5, <2>1, <2>2, <2>3 DEF RunNext
<1>6. ASSUME UNCHANGED vars PROVE Over
  BY <1>6 DEF vars, runVars, blockVars, indexVars
<1> QED BY <1>2, <1>3, <1>4, <1>5, <1>6 DEF Next

\* Teardown leaves no request and no write.
LEMMA TeardownStep ==
  ASSUME AllTypes, AllTypes', TornDown, [Next]_vars
  PROVE  TornDown'
<1> SUFFICES ASSUME mode' \in {"cancelled", "stopped"}
             PROVE  active' = {} /\ \A b \in Block : phase'[b] \notin {"Requested", "Writing"}
  BY DEF TornDown
<1>1. CASE CancelAll
  <2>1. active' = {} /\ phase' = [b \in Block |-> IF b \in Orphaned(active) \cup GivenUp
                                                  THEN "Missing" ELSE phase[b]]
    BY <1>1 DEF CancelAll
  <2>2. IndexAgrees' /\ RequestedIsOwned'
    BY DEF AllTypes, OwnershipInv, RequestOwnership
  <2>3. \A b \in Block : ActiveIn(b)' = {}
    BY <2>1, <2>2 DEF IndexAgrees
  <2>4. \A b \in Block : phase'[b] # "Requested"
    BY <2>2, <2>3 DEF RequestedIsOwned
  <2>5. \A b \in Block : phase'[b] # "Writing"
    BY <2>1 DEF GivenUp
  <2> QED BY <2>1, <2>4, <2>5
<1>2. CASE mode \in {"cancelled", "stopped"} /\ UNCHANGED <<phase, active, pieceMissing, pieceActive>>
  BY <1>2 DEF TornDown
<1> QED BY <1>1, <1>2, TeardownFrame

\* The block counters of every piece are exact, also after teardown.
LEMMA PiecesStep ==
  ASSUME AllTypes, AllTypes', PiecesCounted, [Next]_vars
  PROVE  PiecesCounted'
<1>1. CASE mode' \in {"running", "stopping"}
  BY <1>1 DEF AllTypes, OwnershipInv, Indexed, PieceIndexed, PiecesCounted
<1>2. CASE CancelAll
  <2> SUFFICES ASSUME NEW p \in Piece
               PROVE  /\ pieceMissing'[p] = Cardinality(MissingOf(p)')
                      /\ pieceActive'[p] = Cardinality(BusyOf(p)')
    BY DEF PiecesCounted
  <2> DEFINE F == Orphaned(active) \cup GivenUp
             G == F \cap BlocksOf(p)
  <2>1. F \in SUBSET Block /\ \A b \in F : phase[b] \in {"Requested", "Writing"}
    <3>1. active \in SUBSET active
      OBVIOUS
    <3> QED BY <3>1, OrphanedWasRequested DEF AllTypes, GivenUp
  <2>2. /\ phase' = [b \in Block |-> IF b \in F THEN "Missing" ELSE phase[b]]
        /\ pieceMissing'[p] = pieceMissing[p] + Cardinality(G)
        /\ pieceActive'[p] = pieceActive[p] - Cardinality(G)
    BY <1>2 DEF CancelAll
  <2>3. pieceMissing[p] = Cardinality(MissingOf(p)) /\ pieceActive[p] = Cardinality(BusyOf(p))
    BY DEF PiecesCounted
  <2> HIDE DEF F
  <2>4. /\ MissingOf(p)' = MissingOf(p) \cup G /\ MissingOf(p) \cap G = {}
        /\ BusyOf(p)' = BusyOf(p) \ G /\ BusyOf(p) \cap G = G
    BY <2>1, <2>2, BlockFacts DEF MissingOf, BusyOf, InPiece
  <2>5. IsFiniteSet(MissingOf(p)) /\ IsFiniteSet(BusyOf(p)) /\ IsFiniteSet(G)
    <3>1. G \in SUBSET BlocksOf(p)
      OBVIOUS
    <3> QED BY <3>1, InPieceFinite, BlocksFinite, FS_Subset DEF MissingOf, BusyOf
  <2> HIDE DEF G
  <2>6. Cardinality(MissingOf(p)') = Cardinality(MissingOf(p)) + Cardinality(G)
    BY <2>4, <2>5, CardUnion
  <2>7. Cardinality(BusyOf(p)') = Cardinality(BusyOf(p)) - Cardinality(G)
    BY <2>4, <2>5, CardDifference
  <2> QED BY <2>2, <2>3, <2>6, <2>7
<1>3. CASE mode \in {"cancelled", "stopped"} /\ UNCHANGED <<phase, active, pieceMissing, pieceActive>>
  BY <1>3 DEF PiecesCounted, MissingOf, BusyOf, InPiece
<1>4. mode' \in {"running", "stopping", "cancelled", "stopped"}
  BY DEF AllTypes, OwnershipInv, Shape
<1> QED BY <1>1, <1>2, <1>3, <1>4, TeardownFrame

-----------------------------------------------------------------------------
(* The theorems. *)

\* Nothing is planned, requested or counted at the start.
LEMMA BooksInit ==
  ASSUME Init
  PROVE  BooksInv /\ Ceilings /\ TornDown /\ PiecesCounted
<1>0. Cardinality({}) = 0 /\ IsFiniteSet({})
  BY FS_EmptySet, Zenon
<1>1. Counted(phase, count)
  <2>1. \A s \in Status : {b \in Block : phase[b] = s} = {} /\ count[s] = 0
    BY DEF Init, Status
  <2> QED BY <1>0, <2>1 DEF Counted
<1>2. Ledger(active, requests, outstanding)
  <2>1. \A c \in Conn : {a \in active : a.conn = c} = {} /\ requests[c] = 0
    BY DEF Init
  <2>2. active = {} /\ outstanding = 0
    BY DEF Init
  <2> QED BY <1>0, <2>1, <2>2 DEF Ledger
<1>3. Credited(phase, source, contributions)
  <2>1. \A c \in Conn : /\ {b \in Block : phase[b] \in Stored /\ source[b] = c} = {}
                        /\ contributions[c] = 0
    BY DEF Init, Stored
  <2> QED BY <1>0, <2>1 DEF Credited
<1>4. Histories /\ EvidenceRetained
  <2>1. 0 < nextId /\ \A b \in Block : attempts[b] = {} /\ phase[b] = "None"
    BY DEF Init
  <2> QED BY <2>1, EmptyHistory DEF Histories, EvidenceRetained, InPhase
<1>5. Ceilings
  <2>1. Open = {} /\ activePieces = {} /\ planned = {}
    BY DEF Init, Open, IsOpen
  <2>2. outstanding = 0 /\ \A c \in Conn : requests[c] = 0
    BY DEF Init
  <2>3. /\ IsFiniteSet(Open) /\ Cardinality(Open) = 0 /\ Cardinality(activePieces) = 0
        /\ Cardinality(planned) = 0
    BY <1>0, <2>1, Zenon
  <2> QED BY <2>2, <2>3, Limits DEF Ceilings
<1>6. TornDown
  BY DEF Init, TornDown
<1>7. PiecesCounted
  <2>1. ASSUME NEW p \in Piece PROVE MissingOf(p) = {} /\ BusyOf(p) = {}
    BY BlockFacts DEF Init, MissingOf, BusyOf, InPiece
  <2>2. \A p \in Piece : pieceMissing[p] = 0 /\ pieceActive[p] = 0
    BY DEF Init
  <2> QED BY <1>0, <2>1, <2>2 DEF PiecesCounted
<1> QED BY <1>1, <1>2, <1>3, <1>4, <1>5, <1>6, <1>7 DEF BooksInv

\* The books balance, stay under their ceilings and are empty after teardown: together these
\* are inductive, relative to the request ownership and the types.
THEOREM BooksInvariant ==
  Spec => [](AllTypes /\ BooksInv /\ Ceilings /\ TornDown /\ PiecesCounted)
<1> DEFINE Inv == AllTypes /\ BooksInv /\ Ceilings /\ TornDown /\ PiecesCounted
<1>1. Init => Inv
  BY TypesInit, BooksInit
<1>2. Inv /\ [Next]_vars => Inv'
  <2> SUFFICES ASSUME Inv, [Next]_vars PROVE Inv'
    OBVIOUS
  <2>1. AllTypes' /\ BooksInv'
    BY TypesStep, BooksStep
  <2> QED BY <2>1, CeilingsStep, TeardownStep, PiecesStep
<1> QED BY <1>1, <1>2, PTL DEF Spec

\* The evidence of an arriving or stored payload survives the disconnection of its sender, a
\* late answer, endgame duplicates and the trimming of old attempts, for every limit on
\* retained attempts (piece_contributor_sources never finds its invariant broken).
THEOREM EvidenceRetainedHolds == Spec => []EvidenceRetained
<1>1. BooksInv => EvidenceRetained
  BY DEF BooksInv
<1> QED BY <1>1, BooksInvariant, PTL

\* The counters of swarm.rs are exact for every torrent and every number of peers, so that no
\* checked subtraction underflows; they stay under the configured ceilings, and cancel_all
\* returns every request, reservation and write.
THEOREM AccountsAlwaysHold == Spec => []AccountsHold
<1>1. ASSUME AllTypes, BooksInv, PiecesCounted PROVE CountersExact
  <2>1. \A s \in Status : count[s] = Cardinality(InPhase({s}))
    <3> SUFFICES ASSUME NEW s \in Status PROVE count[s] = Cardinality(InPhase({s}))
      OBVIOUS
    <3>1. InPhase({s}) = {b \in Block : phase[b] = s}
      BY DEF InPhase
    <3> QED BY <1>1, <3>1 DEF BooksInv, Counted
  <2>2. /\ outstanding = Cardinality(active)
        /\ \A c \in Conn : requests[c] = Cardinality({a \in active : a.conn = c})
    BY <1>1 DEF BooksInv, Ledger
  <2>3. ASSUME NEW p \in Piece
        PROVE  /\ pieceMissing[p] = Cardinality(InPhase({"Missing"}) \cap BlocksOf(p))
               /\ pieceActive[p] = Cardinality(
                    InPhase({"Requested", "Writing", "Received"}) \cap BlocksOf(p))
    <3>1. /\ InPhase({"Missing"}) \cap BlocksOf(p) = MissingOf(p)
          /\ InPhase({"Requested", "Writing", "Received"}) \cap BlocksOf(p) = BusyOf(p)
      BY BlockFacts DEF InPhase, MissingOf, BusyOf, InPiece
    <3> QED BY <1>1, <3>1 DEF PiecesCounted
  <2>4. ASSUME NEW c \in Conn
        PROVE  contributions[c] = Cardinality({b \in InPhase({"Writing", "Received"}) : source[b] = c})
    <3>1. {b \in InPhase({"Writing", "Received"}) : source[b] = c}
            = {b \in Block : phase[b] \in Stored /\ source[b] = c}
      BY DEF InPhase, Stored
    <3> QED BY <1>1, <3>1 DEF BooksInv, Credited
  <2> QED BY <2>1, <2>2, <2>3, <2>4 DEF CountersExact
<1>2. ASSUME BooksInv, Ceilings PROVE LimitsHold
  <2>1. ASSUME NEW b \in Block PROVE Cardinality(attempts[b] \ ActiveIn(b)) <= MaxTerminal
    <3>1. attempts[b] \ ActiveIn(b) = Terminal(attempts[b])
      BY DEF ActiveIn, Terminal
    <3> QED BY <1>2, <3>1 DEF BooksInv, Histories, History
  <2> QED BY <1>2, <2>1 DEF Ceilings, LimitsHold
<1>3. ASSUME BooksInv, TornDown PROVE TeardownReleases
  <2> SUFFICES ASSUME mode \in {"cancelled", "stopped"}
               PROVE  /\ active = {} /\ outstanding = 0 /\ \A c \in Conn : requests[c] = 0
                      /\ count["Requested"] = 0 /\ count["Writing"] = 0
    BY DEF TeardownReleases
  <2>0. Cardinality({}) = 0
    BY FS_EmptySet, Zenon
  <2>1. active = {} /\ \A b \in Block : phase[b] \notin {"Requested", "Writing"}
    BY <1>3 DEF TornDown
  <2>2. outstanding = 0 /\ \A c \in Conn : requests[c] = 0
    <3>1. \A c \in Conn : {a \in active : a.conn = c} = {}
      BY <2>1
    <3> QED BY <1>3, <2>0, <2>1, <3>1 DEF BooksInv, Ledger
  <2>3. ASSUME NEW s \in {"Requested", "Writing"} PROVE count[s] = 0
    <3>1. {b \in Block : phase[b] = s} = {} /\ s \in Status
      BY <2>1 DEF Status
    <3> QED BY <1>3, <2>0, <3>1 DEF BooksInv, Counted
  <2> QED BY <2>1, <2>2, <2>3
<1>4. AllTypes /\ BooksInv /\ Ceilings /\ TornDown /\ PiecesCounted => AccountsHold
  BY <1>1, <1>2, <1>3 DEF AccountsHold
<1> QED BY <1>4, BooksInvariant, PTL

-----------------------------------------------------------------------------
(* The composition. *)

OwedTypes == owed \subseteq [id : Nat, conn : FastConn, block : Block]

\* A step of the composition is a step of Swarm or leaves it as it is.
LEMMA FastIsSwarmStep ==
  ASSUME OwedTypes, [FastNext]_<<vars, owed>>
  PROVE  [Next]_vars
<1>1. \A q \in owed : q.conn \in Conn /\ q.block \in Block
  BY ConnAssumption DEF OwedTypes
<1>2. ASSUME Unprompted PROVE Next
  <2>1. ASSUME \E c \in Conn \ FastConn, b \in Block, content \in {"good", "bad"} :
                 ReceiveBlock(c, b, content)
        PROVE  PeerNext
    BY <2>1 DEF PeerNext
  <2>2. ASSUME \E c \in Conn :
                 \/ AddConnection(c) \/ RemoveConnection(c) \/ CloseBanned(c)
                 \/ Choke(c) \/ Unchoke(c)
                 \/ \E P \in SUBSET Piece : SetAvailability(c, P)
                 \/ \E p \in Piece : PeerHas(c, p) \/ AllowedFast(c, p)
        PROVE  PeerNext
    BY <2>2 DEF PeerNext
  <2> QED BY <1>2, <2>1, <2>2 DEF Unprompted, Next
<1>3. ASSUME NEW q \in owed, PieceAccepted(q) PROVE Next
  <2>1. PeerNext
    BY <1>1, <1>3 DEF PieceAccepted, PeerNext
  <2> QED BY <2>1 DEF Next
<1>4. ASSUME NEW q \in owed, RejectAccepted(q) PROVE Next
  <2>1. PeerNext
    BY <1>4 DEF RejectAccepted, PeerNext
  <2> QED BY <2>1 DEF Next
<1>5. ASSUME NEW q \in owed, PieceUnsolicited(q) \/ RejectNeverRequested(q) PROVE Next
  <2>1. PeerNext
    BY <1>1, <1>5 DEF PieceUnsolicited, RejectNeverRequested, CloseFor, PeerNext
  <2> QED BY <2>1 DEF Next
<1>6. ASSUME NEW q \in owed, PieceRedundant(q) \/ RejectStale(q) PROVE UNCHANGED vars
  BY <1>6 DEF PieceRedundant, RejectStale
<1> QED BY <1>2, <1>3, <1>4, <1>5, <1>6 DEF FastNext, OtherStep, Answer

\* What is owed is a request for a block of the torrent to a Fast peer.
LEMMA OwedTypesStep ==
  ASSUME OwedTypes, AllTypes', [FastNext]_<<vars, owed>>
  PROVE  OwedTypes'
<1>1. CASE owed' = OwedAfter(owed)
  <2>1. active' \subseteq ActiveRecord
    BY DEF AllTypes, OwnershipInv, Shape
  <2> QED BY <1>1, <2>1 DEF OwedAfter, OwedTypes, ActiveRecord
<1>2. CASE owed' \subseteq owed
  BY <1>2 DEF OwedTypes
<1> QED BY <1>1, <1>2 DEF FastNext, OtherStep, Answer, PieceAccepted, PieceRedundant, PieceUnsolicited,
          RejectAccepted, RejectStale, RejectNeverRequested, CloseFor

\* Swarm composed with well-behaved Fast peers implements Swarm, whose peers may do anything:
\* every invariant of Swarm holds of the composition.
THEOREM FastImplementsSwarm == FastSpec => Spec /\ []OwedTypes
<1>1. FastInit => Init /\ OwedTypes
  BY DEF FastInit, OwedTypes
<1>2. AllTypes /\ OwedTypes /\ [FastNext]_<<vars, owed>> => [Next]_vars /\ AllTypes' /\ OwedTypes'
  BY FastIsSwarmStep, TypesStep, OwedTypesStep
<1> QED BY <1>1, <1>2, TypesInit, PTL DEF FastSpec, Spec

-----------------------------------------------------------------------------
(* Answers. *)

\* A connection is asked for a block only when it does not choke us, or by Fast.
LEMMA ScheduledUnchoked ==
  ASSUME NEW c \in Conn, Scheduled(c)
  PROVE  c \in FastConn \/ ~choking[c]
<1>1. ASSUME NEW p, CanRequest(c, p) PROVE c \in FastConn \/ ~choking[c]
  BY <1>1 DEF CanRequest
<1>2. CASE ScheduleActive(c)
  <2>1. Eligible(c)
    BY <1>2 DEF ScheduleActive
  <2> QED BY <2>1 DEF Eligible
<1>3. CASE ScheduleEndgame(c)
  <2>1. \E b \in Block : CanRequest(c, b[1])
    BY <1>3 DEF ScheduleEndgame
  <2> QED BY <1>1, <2>1
<1>4. ASSUME NEW x, ScheduleInactive(c, x) \/ ScheduleStreaming(c, x) \/ ScheduleStreamingDuplicate(c, x)
      PROVE  c \in FastConn \/ ~choking[c]
  BY <1>1, <1>4 DEF ScheduleInactive, ScheduleStreaming, ScheduleStreamingDuplicate
<1> QED BY <1>2, <1>3, <1>4 DEF Scheduled

\* Only the peer's own messages change whether it chokes us.
LEMMA ChokeFrame ==
  ASSUME [Next]_vars
  PROVE  choking' = choking \/ \E c \in Conn : Choke(c) \/ Unchoke(c)
<1>1. ASSUME PeerNext, \A c \in Conn : ~Choke(c) /\ ~Unchoke(c) PROVE choking' = choking
  <2>1. ASSUME NEW c, NEW x, NEW y,
               \/ AddConnection(c) \/ RemoveConnection(c) \/ CloseBanned(c)
               \/ SetAvailability(c, x) \/ PeerHas(c, x) \/ AllowedFast(c, x)
               \/ ReceiveBlock(c, x, y) \/ RejectRequest(c)
        PROVE  choking' = choking
    BY <2>1 DEF AddConnection, RemoveConnection, CloseBanned, Disconnect, SetAvailability, PeerHas,
                AllowedFast, ReceiveBlock, RejectRequest, connVars
  <2> QED BY <1>1, <2>1 DEF PeerNext
<1>2. ASSUME ScheduleNext PROVE choking' = choking
  <2>1. ASSUME NEW c, NEW b, NEW purpose, AssignPrimary(c, b, purpose) \/ AssignDuplicate(c, b, purpose)
        PROVE  choking' = choking
    BY <2>1 DEF AssignPrimary, AssignDuplicate, Assign, connVars
  <2>2. ASSUME NEW P, NEW Q, Plan(P, Q) PROVE choking' = choking
    BY <2>2 DEF Plan, connVars
  <2>3. ASSUME NEW c, NEW x, \/ ScheduleActive(c) \/ ScheduleEndgame(c) \/ ScheduleInactive(c, x)
                             \/ ScheduleStreaming(c, x) \/ ScheduleStreamingDuplicate(c, x)
        PROVE  choking' = choking
    BY <2>1, <2>3 DEF ScheduleActive, ScheduleEndgame, ScheduleInactive, ScheduleStreaming,
                      ScheduleStreamingDuplicate
  <2>4. ASSUME NEW p, NEW fits, PlanPiece(p) \/ PlanForStreaming(p, fits) PROVE choking' = choking
    BY <2>2, <2>4 DEF PlanPiece, PlanForStreaming
  <2>5. ASSUME NEW T, ExpireRequests(T) PROVE choking' = choking
    BY <2>5 DEF ExpireRequests, connVars
  <2> QED BY <1>2, <2>3, <2>4, <2>5 DEF ScheduleNext
<1>3. ASSUME NEW p, NEW bad, ResetBlocks(p, bad) PROVE choking' = choking
  BY <1>3 DEF ResetBlocks, connVars
<1>4. ASSUME StorageNext PROVE choking' = choking
  <2>1. ASSUME NEW x, \/ ExecuteWrite(x) \/ ExecuteHash(x) \/ WriteStored(x) \/ WriteFailed(x)
                      \/ PieceVerified(x) \/ BeginDiagnosis(x) \/ HashFatal(x)
        PROVE  choking' = choking
    BY <2>1 DEF ExecuteWrite, ExecuteHash, WriteStored, WriteFailed, PieceVerified, BeginDiagnosis,
                HashFatal, connVars
  <2> QED BY <1>3, <1>4, <2>1 DEF StorageNext, PieceHashFailed, FinishDiagnosis
<1>5. ASSUME RunNext PROVE choking' = choking
  <2>1. ASSUME NEW W, NEW lost, ReplaceWanted(W, lost) PROVE choking' = choking
    BY <2>1 DEF ReplaceWanted, connVars
  <2>2. ASSUME BeginStop \/ CancelAll \/ StopStorage \/ Stopped PROVE choking' = choking
    BY <2>2 DEF BeginStop, CancelAll, StopStorage, Stopped, vars, connVars
  <2>3. ASSUME ReplacePriorities PROVE choking' = choking
    BY <1>3, <2>3 DEF ReplacePriorities, connVars
  <2> QED BY <1>5, <2>1, <2>2, <2>3 DEF RunNext
<1>6. ASSUME UNCHANGED vars PROVE choking' = choking
  BY <1>6 DEF vars, connVars
<1> QED BY <1>1, <1>2, <1>4, <1>5, <1>6 DEF Next

\* set_choking ends the requests of an ordinary peer, and it is asked again after its unchoke.
LEMMA NoRequestUnderChokeStep ==
  ASSUME AllTypes, NoRequestUnderChoke, [Next]_vars
  PROVE  NoRequestUnderChoke'
<1>1. choking \in [Conn -> BOOLEAN] /\ \A a \in active : a.conn \in Conn
  BY DEF AllTypes, PeerTypes, OwnershipInv, Shape, ActiveRecord
<1>2. ASSUME NEW c \in Conn, Choke(c) PROVE NoRequestUnderChoke'
  <2>1. /\ choking' = [choking EXCEPT ![c] = TRUE]
        /\ active' = active \ (IF c \in FastConn THEN {} ELSE Owned(c))
    BY <1>2 DEF Choke, Terminate
  <2> QED BY <1>1, <2>1 DEF NoRequestUnderChoke, Owned
<1>3. ASSUME NEW c \in Conn, Unchoke(c) PROVE NoRequestUnderChoke'
  BY <1>1, <1>3 DEF Unchoke, NoRequestUnderChoke, blockVars
<1>4. ASSUME choking' = choking PROVE NoRequestUnderChoke'
  <2>1. CASE active' \subseteq active
    BY <1>4, <2>1 DEF NoRequestUnderChoke
  <2>2. ASSUME NEW c \in Conn, Scheduled(c) PROVE NoRequestUnderChoke'
    <3>1. \E b \in Block, purpose \in Purposes :
             AssignPrimary(c, b, purpose) \/ AssignDuplicate(c, b, purpose)
      BY <2>2, AssignShape DEF AllTypes
    <3>2. \A a \in active' : a \in active \/ a.conn = c
      BY <3>1 DEF AssignPrimary, AssignDuplicate, Assign
    <3> QED BY <1>4, <2>2, <3>2, ScheduledUnchoked DEF NoRequestUnderChoke
  <2>3. ASSUME NEW p \in Piece, PlanPiece(p) \/ \E fits \in BOOLEAN : PlanForStreaming(p, fits)
        PROVE  active' = active
    BY <2>3 DEF PlanPiece, PlanForStreaming, Plan
  <2>4. ASSUME NEW c \in Conn, AddConnection(c) PROVE active' = active
    BY <2>4 DEF AddConnection, blockVars
  <2> QED BY <2>1, <2>2, <2>3, <2>4, Growth DEF Shrinks
<1> QED BY <1>2, <1>3, <1>4, ChokeFrame

\* An attempt of a well-behaved Fast peer stays active only while the peer owes an answer for
\* its block: an answer, which names the block only, ends the attempt it finds.
LEMMA ActiveIsOwedStep ==
  ASSUME OwnershipInv, OwnershipInv', OwedTypes, ActiveIsOwed, [FastNext]_<<vars, owed>>
  PROVE  ActiveIsOwed'
<1>1. CASE owed' = OwedAfter(owed)
  <2>1. \A a \in active' : conn'[a.conn] = "open"
    BY DEF OwnershipInv, RequestOwnership, OwnersAreOpen, IsOpen
  <2> SUFFICES ASSUME NEW a \in active', a.conn \in FastConn
               PROVE  \E q \in owed' : q.conn = a.conn /\ q.block = a.block
    BY DEF ActiveIsOwed
  <2>2. CASE a \in active
    <3>1. PICK q \in owed : q.conn = a.conn /\ q.block = a.block
      BY <2>2 DEF ActiveIsOwed
    <3>2. q \in owed'
      BY <1>1, <2>1, <3>1 DEF OwedAfter
    <3> QED BY <3>1, <3>2
  <2>3. CASE a \notin active
    <3> DEFINE q == [id |-> a.id, conn |-> a.conn, block |-> a.block]
    <3>1. q \in owed'
      BY <1>1, <2>1, <2>3 DEF OwedAfter
    <3>2. q.conn = a.conn /\ q.block = a.block
      OBVIOUS
    <3> HIDE DEF q
    <3> QED BY <3>1, <3>2
  <2> QED BY <2>2, <2>3
<1>2. ASSUME NEW q \in owed, owed' = owed \ {q}, active' \subseteq active,
             \A a \in active' : ~(a.conn = q.conn /\ a.block = q.block)
      PROVE  ActiveIsOwed'
  BY <1>2 DEF ActiveIsOwed
<1>3. ASSUME NEW q \in owed, PieceAccepted(q) PROVE ActiveIsOwed'
  <2>1. active' = active \ {a \in active : a.block = q.block} /\ owed' = owed \ {q}
    BY <1>3 DEF PieceAccepted, ReceiveBlock
  <2> QED BY <1>2, <2>1
<1>4. ASSUME NEW q \in owed, PieceRedundant(q) \/ RejectStale(q) PROVE ActiveIsOwed'
  <2>1. owed' = owed \ {q} /\ active' = active
    BY <1>4 DEF PieceRedundant, RejectStale, vars, blockVars
  <2>2. \A a \in active : \E r \in ActiveIn(a.block) : r.conn = a.conn
    BY DEF OwnershipInv, RequestOwnership, IndexAgrees
  <2>3. \A a \in active : a.block \in Block /\ phase[a.block] = "Requested"
    BY <2>2 DEF OwnershipInv, Shape, ActiveRecord, RequestOwnership, RequestedIsOwned
  <2>4. \A a \in active : ~(a.conn = q.conn /\ a.block = q.block)
    BY <1>4, <2>2, <2>3 DEF PieceRedundant, RejectStale, From, ActiveIn
  <2> QED BY <1>2, <2>1, <2>4
<1>5. ASSUME NEW q \in owed, RejectAccepted(q) PROVE ActiveIsOwed'
  <2>1. PICK d \in active : d.conn = q.conn /\ d.block = q.block /\ active' = active \ {d}
    BY <1>5 DEF RejectAccepted, RejectRequest, Terminate
  <2>2. \A a \in active' : ~(a.conn = q.conn /\ a.block = q.block)
    BY <2>1 DEF OwnershipInv, RequestOwnership, OneRequestEach
  <2> QED BY <1>2, <1>5, <2>1, <2>2 DEF RejectAccepted
<1>6. CASE UNCHANGED <<vars, owed>>
  BY <1>6 DEF ActiveIsOwed, vars, blockVars
<1> QED BY <1>1, <1>3, <1>4, <1>5, <1>6 DEF FastNext, OtherStep, Answer, PieceUnsolicited,
          RejectNeverRequested, CloseFor

\* No active request waits for an answer that will not come, with any number of peers, Fast or
\* not: a choke takes the requests of an ordinary peer with it, and a Fast peer owes an answer
\* for the block of each of its own, although one block may have been asked for several times.
THEOREM AnswersAlwaysCome == FastSpec => []AnswersCome
<1>1. Init => NoRequestUnderChoke
  BY DEF Init, NoRequestUnderChoke
<1>2. AllTypes /\ NoRequestUnderChoke /\ [Next]_vars => NoRequestUnderChoke'
  BY NoRequestUnderChokeStep
<1>3. Spec => []NoRequestUnderChoke
  BY <1>1, <1>2, JobInvariant, PTL DEF Spec
<1>4. FastInit => ActiveIsOwed
  BY DEF FastInit, Init, ActiveIsOwed
<1>5. AllTypes /\ AllTypes' /\ OwedTypes /\ ActiveIsOwed /\ [FastNext]_<<vars, owed>> => ActiveIsOwed'
  BY ActiveIsOwedStep DEF AllTypes
<1>6. NoRequestUnderChoke /\ ActiveIsOwed => AnswersCome
  BY DEF AnswersCome
<1> QED BY <1>3, <1>4, <1>5, <1>6, FastImplementsSwarm, JobInvariant, PTL DEF FastSpec

-----------------------------------------------------------------------------
(* Memory. *)

\* trim_terminal_attempts drops an attempt only when limit others stay.
LEMMA TrimFull ==
  ASSUME NEW A, IsFiniteSet(A), \A r \in A : r.id \in Nat, NEW limit \in Nat, NEW protected,
         NEW x \in A, x \notin Trim(A, limit, protected)
  PROVE  Cardinality(Trim(A, limit, protected)) >= limit
<1> DEFINE left == Trim(A, limit, protected)
           loose == {r \in {s \in A : ~IsActive(s)} : r.id # protected}
           fixed == {s \in A : ~IsActive(s)} \ loose
           later(r) == {s \in loose : s.id > r.id}
           gone == A \ left
           f == [r \in gone |-> r.id]
           ids == {r.id : r \in gone}
<1>1. left = {r \in A : r \notin loose \/ Cardinality(later(r)) + Cardinality(fixed) < limit}
  BY DEF Trim
<1>2. gone \in SUBSET A /\ x \in gone /\ \A r \in gone : r \in loose
  BY <1>1
<1>3. ids \in SUBSET Nat /\ ids # {} /\ ids = {f[r] : r \in gone}
  BY <1>2
<1>4. IsFiniteSet(gone)
  BY <1>2, FS_Subset
<1> HIDE DEF left
<1>5. IsFiniteSet(ids)
  <2> HIDE DEF f, ids, gone
  <2> QED BY <1>3, <1>4, ImageFinite
<1>6. PICK m \in gone : \A s \in gone : s.id <= m.id
  <2>1. Max(ids) \in ids /\ \A y \in ids : y <= Max(ids)
    <3> HIDE DEF ids
    <3> QED BY <1>3, <1>5, MaxOfNaturals
  <2> DEFINE i == Max(ids)
  <2>2. i \in ids /\ \A s \in gone : s.id <= i
    BY <2>1
  <2> HIDE DEF i
  <2> QED BY <2>2
<1> DEFINE L == later(m)
           both == L \cup fixed
<1>7. Cardinality(L) + Cardinality(fixed) >= limit
  <2>1. L \in SUBSET A /\ fixed \in SUBSET A
    OBVIOUS
  <2>2. Cardinality(L) \in Nat /\ Cardinality(fixed) \in Nat
    <3> HIDE DEF L, fixed
    <3> QED BY <2>1, FS_Subset, FS_CardinalityType
  <2>3. ~(Cardinality(L) + Cardinality(fixed) < limit)
    BY <1>1, <1>2, <1>6
  <2> HIDE DEF L, fixed
  <2> QED BY <2>2, <2>3
<1>8. L \in SUBSET A /\ fixed \in SUBSET A /\ L \cap fixed = {} /\ left \in SUBSET A
  BY <1>1
<1>9. both \in SUBSET left
  <2>1. \A s \in L : s \notin gone
    <3> SUFFICES ASSUME NEW s \in L, s \in gone PROVE FALSE
      OBVIOUS
    <3>1. s.id <= m.id /\ s.id > m.id /\ s.id \in Nat /\ m.id \in Nat
      BY <1>2, <1>6
    <3> QED BY <3>1
  <2>2. \A s \in fixed : s \in left
    BY <1>1
  <2> QED BY <1>8, <2>1, <2>2
<1> HIDE DEF L, fixed
<1>10. IsFiniteSet(L) /\ IsFiniteSet(fixed) /\ IsFiniteSet(left)
  BY <1>8, FS_Subset
<1>11. Cardinality(both) = Cardinality(L) + Cardinality(fixed)
  BY <1>8, <1>10, CardUnion
<1> HIDE DEF both
<1>12. Cardinality(both) <= Cardinality(left) /\ Cardinality(both) \in Nat /\ Cardinality(left) \in Nat
  <2>1. IsFiniteSet(both)
    BY <1>9, <1>10, FS_Subset
  <2> QED BY <1>9, <1>10, <2>1, FS_Subset, FS_CardinalityType
<1>13. Cardinality(left) >= limit
  BY <1>7, <1>11, <1>12
<1> QED BY <1>13 DEF left

\* the attempts of block b name the same connections, or fill its history
Remembers(b) ==
  \A c : From(b, c) # {} => From(b, c)' # {} \/ Cardinality(attempts'[b]) >= MaxTerminal

\* the dispositions of the attempts of block b change, and all is what they become
Settles(b, f, all) ==
  /\ all = {f[r] : r \in attempts[b]}
  /\ \A r \in attempts[b] : f[r].id = r.id /\ f[r].conn = r.conn

\* A block forgets a connection, when its attempts are settled and trimmed, only if its history
\* is full; one without attempts gets none.
LEMMA TrimRemembers ==
  ASSUME AllTypes, NEW b \in Block, NEW f, NEW all, Settles(b, f, all), NEW protected,
         attempts'[b] = Trim(all, MaxTerminal, protected)
  PROVE  Remembers(b) /\ (attempts[b] = {} => attempts'[b] = {})
<1>1. IsFiniteSet(attempts[b]) /\ \A r \in attempts[b] : r.id \in Nat
  BY DEF AllTypes, SenderTypes, OwnershipInv, Shape, AttemptRecord
<1>2. IsFiniteSet(all) /\ \A r \in all : r.id \in Nat
  <2>1. IsFiniteSet(all)
    BY <1>1, ImageFinite DEF Settles
  <2> QED BY <1>1, <2>1 DEF Settles
<1>3. MaxTerminal \in Nat
  BY LimitAssumption
<1>4. ASSUME NEW c, From(b, c) # {}, From(b, c)' = {} PROVE Cardinality(attempts'[b]) >= MaxTerminal
  <2>1. PICK r \in attempts[b] : r.conn = c
    BY <1>4 DEF From
  <2>2. f[r] \in all /\ f[r].conn = c
    BY <2>1 DEF Settles
  <2>3. f[r] \notin Trim(all, MaxTerminal, protected)
    BY <1>4, <2>2 DEF From
  <2> QED BY <1>2, <1>3, <2>2, <2>3, TrimFull
<1>5. attempts[b] = {} => attempts'[b] = {}
  BY TrimFacts DEF Settles
<1> QED BY <1>4, <1>5 DEF Remembers

\* The same when nothing but the trimming happens.
LEMMA TrimOnlyRemembers ==
  ASSUME AllTypes, NEW b \in Block, NEW protected,
         attempts'[b] = Trim(attempts[b], MaxTerminal, protected)
  PROVE  Remembers(b) /\ (attempts[b] = {} => attempts'[b] = {})
<1> DEFINE f == [r \in attempts[b] |-> r]
<1>1. Settles(b, f, attempts[b])
  BY DEF Settles
<1> HIDE DEF f
<1> QED BY <1>1, TrimRemembers

\* The same when requests end.
LEMMA EndedRemembers ==
  ASSUME AllTypes, NEW b \in Block, NEW T, attempts'[b] = Ended(b, T)
  PROVE  Remembers(b) /\ (attempts[b] = {} => attempts'[b] = {})
<1> DEFINE f == [r \in attempts[b] |-> IF \E a \in T : a.id = r.id
                                       THEN [r EXCEPT !.disposition = "Released"] ELSE r]
           all == {IF \E a \in T : a.id = r.id
                   THEN [r EXCEPT !.disposition = "Released"] ELSE r : r \in attempts[b]}
<1>1. \A r \in attempts[b] : r \in AttemptRecord
  BY DEF AllTypes, OwnershipInv, Shape
<1>2. Settles(b, f, all)
  BY <1>1 DEF Settles, AttemptRecord
<1>3. attempts'[b] = Trim(all, MaxTerminal, 0) \/ attempts'[b] = attempts[b]
  BY DEF Ended
<1> HIDE DEF f, all
<1>4. CASE attempts'[b] = attempts[b]
  BY <1>4 DEF Remembers, From
<1> QED BY <1>2, <1>3, <1>4, TrimRemembers

\* The same when a payload arrives.
LEMMA ReceiveRemembers ==
  ASSUME AllTypes, NEW c \in Conn, NEW b \in Block, NEW content, ReceiveBlock(c, b, content)
  PROVE  Remembers(b) /\ (attempts[b] = {} => attempts'[b] = {})
<1> DEFINE e == LatestFrom(b, c)
           settle(r) == IF r.id = e.id THEN [r EXCEPT !.disposition = "PayloadReceived"]
                        ELSE IF IsActive(r) THEN [r EXCEPT !.disposition = "Released"]
                        ELSE r
           all == {settle(r) : r \in attempts[b]}
           f == [r \in attempts[b] |-> settle(r)]
<1>1. attempts \in [Block -> SUBSET AttemptRecord]
  BY DEF AllTypes, OwnershipInv, Shape
<1>2. attempts'[b] = Trim(all, MaxTerminal, e.id)
  BY <1>1 DEF ReceiveBlock
<1> HIDE DEF e
<1>3. \A r \in attempts[b] : settle(r).id = r.id /\ settle(r).conn = r.conn
  BY <1>1 DEF AttemptRecord
<1> HIDE DEF settle
<1>4. Settles(b, f, all)
  BY <1>3 DEF Settles
<1> HIDE DEF f, all
<1> QED BY <1>2, <1>4, TrimRemembers

\* A new request joins a history of at most one terminal attempt fewer.
LEMMA AssignRemembers ==
  ASSUME AllTypes, Histories, NEW c \in Conn, NEW b \in Block, NEW purpose, Assign(c, b, purpose)
  PROVE  Remembers(b)
<1> DEFINE x == [id |-> nextId, conn |-> c, disposition |-> "Requested"]
           A == Trim(attempts[b], MaxTerminal - 1, 0)
<1>1. /\ IsFiniteSet(attempts[b]) /\ nextId \in Nat
      /\ \A r \in attempts[b] : r.id \in Nat /\ r.id < nextId
  BY DEF AllTypes, SenderTypes, OwnershipInv, Shape, Histories, History
<1>2. attempts'[b] = A \cup {x}
  BY DEF Assign, AllTypes, OwnershipInv, Shape
<1>3. A \in SUBSET attempts[b] /\ x \notin A
  <2>1. x.id = nextId
    OBVIOUS
  <2> HIDE DEF x
  <2> QED BY <1>1, <2>1, TrimFacts
<1>4. MaxTerminal \in Nat \ {0} /\ MaxTerminal - 1 \in Nat
  BY LimitAssumption
<1> SUFFICES ASSUME NEW d, From(b, d) # {}, From(b, d)' = {}
             PROVE  Cardinality(attempts'[b]) >= MaxTerminal
  BY DEF Remembers
<1>5. PICK r \in attempts[b] : r.conn = d /\ r \notin A
  BY <1>2 DEF From
<1>6. Cardinality(A) >= MaxTerminal - 1
  BY <1>1, <1>4, <1>5, TrimFull
<1> HIDE DEF A, x
<1>7. IsFiniteSet(A) /\ Cardinality(A) \in Nat
  BY <1>1, <1>3, FS_Subset, FS_CardinalityType
<1>8. Cardinality(A \cup {x}) = Cardinality(A) + 1
  BY <1>3, <1>7, FS_AddElement
<1> QED BY <1>2, <1>4, <1>6, <1>7, <1>8

\* a block without a plan retains no attempt
UnplannedForgotten == \A b \in Block : b[1] \notin planned => attempts[b] = {}

\* the attempts of block b are emptied when its piece gets or loses its plan, and change
\* otherwise only as a memory may
AttemptChange(b) ==
  \/ attempts'[b] = {} /\ (b[1] \in planned' => b[1] \notin planned)
  \/ /\ Remembers(b) /\ (b[1] \in planned' <=> b[1] \in planned)
     /\ attempts[b] = {} /\ b[1] \notin planned => attempts'[b] = {}

\* Every step changes the attempts of a block in one of these ways.
LEMMA AttemptStep ==
  ASSUME AllTypes, Histories, [Next]_vars, NEW b \in Block
  PROVE  AttemptChange(b)
<1>0. OwnershipInv /\ attempts \in [Block -> SUBSET AttemptRecord]
  BY DEF AllTypes, OwnershipInv, Shape
<1>1. ASSUME attempts'[b] = attempts[b], planned' = planned PROVE AttemptChange(b)
  BY <1>1 DEF AttemptChange, Remembers, From
<1>2. ASSUME Remembers(b) /\ (attempts[b] = {} => attempts'[b] = {}), planned' = planned
      PROVE  AttemptChange(b)
  BY <1>2 DEF AttemptChange
<1>3. ASSUME NEW T, attempts' = [d \in Block |-> Ended(d, T)], planned' = planned PROVE AttemptChange(b)
  <2>1. attempts'[b] = Ended(b, T)
    BY <1>3
  <2> QED BY <1>2, <1>3, <2>1, EndedRemembers
<1>4. ASSUME PeerNext PROVE AttemptChange(b)
  <2>1. ASSUME NEW c, Disconnect(c) \/ Choke(c) \/ RejectRequest(c) PROVE AttemptChange(b)
    BY <1>3, <2>1 DEF Disconnect, Choke, RejectRequest, Terminate, planVars
  <2>2. ASSUME NEW c \in Conn, NEW d \in Block, NEW content, ReceiveBlock(c, d, content)
        PROVE  AttemptChange(b)
    <3>1. planned' = planned /\ (d # b => attempts'[b] = attempts[b])
      BY <1>0, <2>2 DEF ReceiveBlock, planVars
    <3>2. CASE d = b
      BY <1>2, <2>2, <3>1, <3>2, ReceiveRemembers
    <3> QED BY <1>1, <3>1, <3>2
  <2>3. ASSUME NEW c, NEW x, AddConnection(c) \/ Unchoke(c) \/ SetAvailability(c, x)
                             \/ PeerHas(c, x) \/ AllowedFast(c, x)
        PROVE  AttemptChange(b)
    BY <1>1, <2>3 DEF AddConnection, Unchoke, SetAvailability, PeerHas, AllowedFast, blockVars, planVars
  <2> QED BY <1>4, <2>1, <2>2, <2>3 DEF PeerNext, RemoveConnection, CloseBanned
<1>5. ASSUME ScheduleNext PROVE AttemptChange(b)
  <2>1. ASSUME NEW p \in Piece, PlanPiece(p) \/ \E fits \in BOOLEAN : PlanForStreaming(p, fits)
        PROVE  AttemptChange(b)
    <3>1. PICK P \in SUBSET {p}, Q \in SUBSET planned :
            Plan(P, Q) /\ P \cap planned = {} /\ P \in SUBSET Piece
      BY <1>0, <2>1, PlanShape
    <3>2. /\ planned' = (planned \ Q) \cup P
          /\ attempts'[b] = IF b[1] \in P \cup Q THEN {} ELSE attempts[b]
      BY <3>1 DEF Plan
    <3>3. CASE b[1] \in P \cup Q
      BY <3>1, <3>2, <3>3 DEF AttemptChange
    <3>4. CASE b[1] \notin P \cup Q
      BY <3>2, <3>4 DEF AttemptChange, Remembers, From
    <3> QED BY <3>3, <3>4
  <2>2. ASSUME NEW c \in Conn, Scheduled(c) PROVE AttemptChange(b)
    <3>1. PICK d \in Block, purpose \in Purposes :
            AssignPrimary(c, d, purpose) \/ AssignDuplicate(c, d, purpose)
      BY <1>0, <2>2, AssignShape
    <3>2. Assign(c, d, purpose) /\ phase[d] # "None"
      BY <3>1 DEF AssignPrimary, AssignDuplicate
    <3>3. planned' = planned /\ (d # b => attempts'[b] = attempts[b])
      BY <1>0, <3>2 DEF Assign, planVars
    <3>4. CASE d = b
      <4>1. Remembers(b)
        BY <3>2, <3>4, AssignRemembers
      <4>2. b[1] \in planned
        BY <1>0, <3>2, <3>4, BlockFacts DEF OwnershipInv, PlansHavePhases
      <4> QED BY <3>3, <4>1, <4>2 DEF AttemptChange
    <3> QED BY <1>1, <3>3, <3>4
  <2>3. ASSUME NEW T, ExpireRequests(T) PROVE AttemptChange(b)
    BY <1>3, <2>3 DEF ExpireRequests, Terminate, planVars
  <2> QED BY <1>5, <2>1, <2>2, <2>3 DEF ScheduleNext, Scheduled
<1>6. ASSUME NEW p, NEW bad, ResetBlocks(p, bad) PROVE AttemptChange(b)
  BY <1>1, <1>6 DEF ResetBlocks, planVars
<1>7. ASSUME StorageNext PROVE AttemptChange(b)
  <2>1. ASSUME NEW r \in written, WriteStored(r) \/ WriteFailed(r) PROVE AttemptChange(b)
    <3>1. r.block \in Block
      BY DEF AllTypes, JobTypes
    <3>2. /\ planned' = planned
          /\ \E protected : attempts' = [attempts EXCEPT ![r.block] = Trim(@, MaxTerminal, protected)]
      BY <2>1 DEF WriteStored, WriteFailed, planVars
    <3>3. CASE r.block # b
      BY <1>0, <1>1, <3>2, <3>3
    <3>4. CASE r.block = b
      <4>1. \E protected : attempts'[b] = Trim(attempts[b], MaxTerminal, protected)
        BY <1>0, <3>2, <3>4
      <4> QED BY <1>2, <3>2, <4>1, TrimOnlyRemembers
    <3> QED BY <3>3, <3>4
  <2>2. ASSUME NEW h, PieceVerified(h) PROVE AttemptChange(b)
    <3>1. /\ planned' = planned \ {h.piece} /\ h.piece \in Piece
          /\ attempts'[b] = IF b \in BlocksOf(h.piece) THEN {} ELSE attempts[b]
      BY <1>0, <2>2 DEF PieceVerified, Current, OwnershipInv, Shape
    <3>2. b \in BlocksOf(h.piece) <=> b[1] = h.piece
      BY <3>1, BlockFacts
    <3> QED BY <3>1, <3>2 DEF AttemptChange, Remembers, From
  <2>3. ASSUME NEW r, ExecuteWrite(r) \/ ExecuteHash(r) \/ BeginDiagnosis(r) \/ HashFatal(r)
        PROVE  AttemptChange(b)
    BY <1>1, <2>3 DEF ExecuteWrite, ExecuteHash, BeginDiagnosis, HashFatal, blockVars, planVars
  <2> QED BY <1>6, <1>7, <2>1, <2>2, <2>3 DEF StorageNext, PieceHashFailed, FinishDiagnosis
<1>8. ASSUME RunNext PROVE AttemptChange(b)
  <2>1. ASSUME NEW W, NEW lost, ReplaceWanted(W, lost) PROVE AttemptChange(b)
    BY <2>1 DEF ReplaceWanted, AttemptChange
  <2>2. ASSUME CancelAll PROVE AttemptChange(b)
    BY <1>3, <2>2 DEF CancelAll, planVars
  <2>3. ASSUME ReplacePriorities PROVE AttemptChange(b)
    BY <1>1, <1>6, <2>3 DEF ReplacePriorities, blockVars, planVars
  <2>4. ASSUME BeginStop \/ StopStorage \/ Stopped PROVE AttemptChange(b)
    BY <1>1, <2>4 DEF BeginStop, StopStorage, Stopped, vars, blockVars, planVars
  <2> QED BY <1>8, <2>1, <2>2, <2>3, <2>4 DEF RunNext
<1>9. ASSUME UNCHANGED vars PROVE AttemptChange(b)
  BY <1>1, <1>9 DEF vars, blockVars, planVars
<1> QED BY <1>4, <1>5, <1>7, <1>8, <1>9 DEF Next

\* A late answer of a well-behaved Fast peer finds the attempt it answers, whatever happened in
\* between, unless the plan of its piece is gone or the history of its block is full.
THEOREM OwedIsAlwaysRemembered == FastSpec => OwedIsRemembered
<1> DEFINE NoneForgotten == \A q \in owed \cap owed' :
                     From(q.block, q.conn) # {} /\ From(q.block, q.conn)' = {} =>
                       \/ q.block[1] \notin planned'
                       \/ Cardinality(attempts'[q.block]) >= MaxTerminal
<1>1. Init => UnplannedForgotten
  BY DEF Init, UnplannedForgotten
<1>2. AllTypes /\ BooksInv /\ UnplannedForgotten /\ [Next]_vars => UnplannedForgotten'
  <2> SUFFICES ASSUME AllTypes, BooksInv, UnplannedForgotten, [Next]_vars,
                      NEW b \in Block, b[1] \notin planned'
               PROVE  attempts'[b] = {}
    BY DEF UnplannedForgotten
  <2> QED BY AttemptStep DEF BooksInv, AttemptChange, UnplannedForgotten
<1>3. ASSUME AllTypes, BooksInv, UnplannedForgotten, OwedTypes, [FastNext]_<<vars, owed>> PROVE NoneForgotten
  <2> SUFFICES ASSUME NEW q \in owed, From(q.block, q.conn) # {}, From(q.block, q.conn)' = {},
                      q.block[1] \in planned'
               PROVE  Cardinality(attempts'[q.block]) >= MaxTerminal
    OBVIOUS
  <2> DEFINE b == q.block
  <2>1. b \in Block
    BY <1>3 DEF OwedTypes
  <2>2. attempts[b] # {}
    BY DEF From
  <2>3. b[1] \in planned
    BY <1>3, <2>1, <2>2 DEF UnplannedForgotten
  <2>4. AttemptChange(b)
    BY <1>3, <2>1, FastIsSwarmStep, AttemptStep DEF BooksInv
  <2>5. Remembers(b)
    BY <2>3, <2>4 DEF AttemptChange
  <2> QED BY <2>5 DEF Remembers
<1>4. AllTypes /\ BooksInv /\ UnplannedForgotten /\ OwedTypes /\ [FastNext]_<<vars, owed>>
        => [NoneForgotten]_<<vars, owed>>
  BY <1>3
<1>5. Spec => [](AllTypes /\ BooksInv /\ UnplannedForgotten)
  BY <1>1, <1>2, BooksInvariant, PTL DEF Spec
<1> QED BY <1>4, <1>5, FastImplementsSwarm, PTL DEF FastSpec, OwedIsRemembered
=============================================================================
