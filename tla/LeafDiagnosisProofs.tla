------------------------ MODULE LeafDiagnosisProofs ------------------------
(***************************************************************************)
(* Proofs about LeafDiagnosis for every set of pieces and blocks and any   *)
(* number of generations: the types, that a failed piece always has an     *)
(* owner, whatever stale completion arrives, and that leaves read for the  *)
(* generation under diagnosis are those of the bytes on disk.              *)
(***************************************************************************)
EXTENDS LeafDiagnosis, TLAPS

OwnedInv == TypeOK /\ FailedPieceOwned

\* Starting a piece over with a non-empty set of blocks keeps it owned.
LEMMA ResetOwned ==
  ASSUME OwnedInv, NEW p \in Piece, NEW B \in SUBSET Block, B # {}, Reset(p, B)
  PROVE  /\ state' \in [Piece -> {"downloading", "hashing", "diagnosing", "verified"}]
         /\ generation' \in [Piece -> Nat \ {0}]
         /\ missing' \in [Piece -> SUBSET Block] /\ bad' \in [Piece -> SUBSET Block]
         /\ state'[p] = "downloading" /\ missing'[p] = B
         /\ \A q \in Piece \ {p} : /\ state'[q] = state[q] /\ missing'[q] = missing[q]
                                   /\ bad'[q] = bad[q]
BY DEF OwnedInv, TypeOK, Reset

\* A diagnosis that ends, with the blocks it found or with the whole piece,
\* leaves its piece being downloaded.
LEMMA EndOwned ==
  ASSUME OwnedInv, diagnosis \in Piece, NEW L \in SUBSET Block, Finish(L) \/ Fallback,
         jobs' \subseteq jobs, done' \subseteq done, run' = run
  PROVE  OwnedInv'
<1>1. PICK B \in SUBSET Block : B # {} /\ Reset(diagnosis, B)
  BY DiagnosisAssumption DEF Finish, Fallback
<1>2. /\ diagnosis' = NoPiece /\ known' = FALSE /\ leaves' = {} /\ proofs' = FALSE
  BY DEF Finish, Fallback, NoDiagnosis
<1>3. TypeOK'
  BY <1>1, <1>2, ResetOwned DEF OwnedInv, TypeOK
<1>4. FailedPieceOwned'
  BY <1>1, <1>2, ResetOwned, DiagnosisAssumption DEF OwnedInv, FailedPieceOwned
<1> QED BY <1>3, <1>4 DEF OwnedInv

\* Every step keeps the types and the owner of every failed piece.
LEMMA OwnedStep == OwnedInv /\ [Next]_vars => OwnedInv'
<1> SUFFICES ASSUME OwnedInv, [Next]_vars PROVE OwnedInv'
  OBVIOUS
<1> USE DiagnosisAssumption DEF OwnedInv
<1>1. ASSUME NEW p \in Piece, NEW b \in Block, NEW corrupt \in BOOLEAN, StoreBlock(p, b, corrupt)
      PROVE  OwnedInv'
  <2>1. TypeOK'
    BY <1>1 DEF StoreBlock, TypeOK, diagVars
  <2>2. FailedPieceOwned'
    BY <1>1 DEF StoreBlock, TypeOK, FailedPieceOwned, diagVars
  <2> QED BY <2>1, <2>2
<1>2. ASSUME NEW p \in Piece, Verified(p) PROVE OwnedInv'
  BY <1>2 DEF Verified, TypeOK, FailedPieceOwned, diagVars
<1>3. ASSUME NEW p \in Piece, HashFailed(p) PROVE OwnedInv'
  <2>1. Reset(p, Block) /\ Block \in SUBSET Block /\ state[p] = "hashing"
    BY <1>3 DEF HashFailed
  <2>2. TypeOK'
    BY <1>3, <2>1, ResetOwned DEF HashFailed, TypeOK, diagVars
  <2>3. FailedPieceOwned'
    BY <1>3, <2>1, ResetOwned DEF HashFailed, FailedPieceOwned, diagVars
  <2> QED BY <2>2, <2>3
<1>4. ASSUME NEW p \in Piece, BeginDiagnosis(p) PROVE OwnedInv'
  <2>1. /\ ~known' /\ ~proofs' /\ known' \in BOOLEAN /\ proofs' \in BOOLEAN
        /\ leaves' = {} /\ diagnosis' = p
    BY <1>4 DEF BeginDiagnosis
  <2>2. jobs' \subseteq [piece : Piece, generation : Nat]
    BY <1>4 DEF BeginDiagnosis, TypeOK
  <2>3. /\ state' \in [Piece -> {"downloading", "hashing", "diagnosing", "verified"}]
        /\ UNCHANGED <<generation, missing, bad, done, run>>
    BY <1>4 DEF BeginDiagnosis, TypeOK
  <2>4. TypeOK'
    BY <2>1, <2>2, <2>3 DEF TypeOK
  <2>5. FailedPieceOwned'
    BY <1>4 DEF BeginDiagnosis, TypeOK, FailedPieceOwned
  <2> QED BY <2>4, <2>5
<1>5. ASSUME NEW j \in jobs, ExecuteDiagnosis(j) PROVE OwnedInv'
  BY <1>5 DEF ExecuteDiagnosis, TypeOK, FailedPieceOwned, diagVars
<1>6. ASSUME NEW d \in done, TakeLeaves(d) PROVE OwnedInv'
  <2>1. diagnosis \in Piece /\ d.bad \in SUBSET Block /\ done' \subseteq done /\ UNCHANGED <<jobs, run>>
    BY <1>6 DEF TakeLeaves, TypeOK
  <2>2. CASE Finish(d.bad)
    BY <2>1, <2>2, EndOwned
  <2>3. CASE ~Finish(d.bad)
    <3>1. /\ known' \in BOOLEAN /\ leaves' = d.bad
          /\ UNCHANGED <<state, generation, missing, bad, diagnosis, proofs>>
      BY <1>6, <2>3 DEF TakeLeaves
    <3>2. TypeOK'
      BY <2>1, <3>1 DEF TypeOK
    <3>3. FailedPieceOwned'
      BY <3>1 DEF FailedPieceOwned
    <3> QED BY <3>2, <3>3
  <2> QED BY <2>2, <2>3
<1>7. ASSUME NEW d \in done, LeafHashingFailed(d) PROVE OwnedInv'
  <2>1. diagnosis \in Piece /\ Fallback /\ done' \subseteq done /\ UNCHANGED <<jobs, run>>
    BY <1>7 DEF LeafHashingFailed, TypeOK
  <2> QED BY <2>1, EndOwned
<1>8. ASSUME NEW d \in done, IgnoreLeaves(d) \/ ForeignLeaves(d) PROVE OwnedInv'
  BY <1>8 DEF IgnoreLeaves, ForeignLeaves, TypeOK, FailedPieceOwned, diagVars
<1>9. CASE ProofsComplete
  <2>1. diagnosis \in Piece /\ leaves \in SUBSET Block /\ UNCHANGED <<jobs, done, run>>
    BY <1>9 DEF ProofsComplete, TypeOK
  <2>2. CASE Finish(leaves)
    BY <2>1, <2>2, EndOwned
  <2>3. CASE ~Finish(leaves)
    BY <1>9, <2>1, <2>3 DEF ProofsComplete, TypeOK, FailedPieceOwned
  <2> QED BY <2>2, <2>3
<1>10. CASE Deadline
  <2>1. diagnosis \in Piece /\ Fallback /\ UNCHANGED <<jobs, done, run>>
    BY <1>10 DEF Deadline, TypeOK
  <2> QED BY <2>1, EndOwned
<1>11. CASE UNCHANGED vars \/ Idle
  BY <1>11 DEF Idle, vars, TypeOK, FailedPieceOwned
<1> QED
  BY <1>1, <1>2, <1>3, <1>4, <1>5, <1>6, <1>7, <1>8, <1>9, <1>10, <1>11 DEF Next

\* The initial state has no diagnosis and every piece to download.
LEMMA OwnedInit == Init => OwnedInv
<1> SUFFICES ASSUME Init PROVE OwnedInv
  OBVIOUS
<1>1. /\ known \in BOOLEAN /\ proofs \in BOOLEAN /\ ~known /\ ~proofs
  BY DEF Init
<1>2. /\ generation \in [Piece -> Nat \ {0}] /\ bad \in [Piece -> SUBSET Block]
      /\ missing \in [Piece -> SUBSET Block]
      /\ state \in [Piece -> {"downloading", "hashing", "diagnosing", "verified"}]
  BY DEF Init
<1>3. TypeOK
  BY <1>1, <1>2 DEF Init, TypeOK
<1>4. FailedPieceOwned
  BY DiagnosisAssumption DEF Init, FailedPieceOwned
<1> QED BY <1>3, <1>4 DEF OwnedInv

(***************************************************************************)
(* A piece that failed its hash is under diagnosis exactly while the       *)
(* diagnosis names it, and is downloaded, hashed or verified otherwise     *)
(* (begin, finish and fallback_leaf_diagnosis never drop a piece).         *)
(***************************************************************************)
THEOREM FailedPieceOwnedHolds == Spec => []FailedPieceOwned
<1>1. OwnedInv => FailedPieceOwned
  BY DEF OwnedInv
<1> QED BY <1>1, OwnedInit, OwnedStep, PTL DEF Spec

\* Every variable keeps the shape of the driver state it stands for.
THEOREM DiagnosisTypes == Spec => []TypeOK
<1>1. OwnedInv => TypeOK
  BY DEF OwnedInv
<1> QED BY <1>1, OwnedInit, OwnedStep, PTL DEF Spec
-----------------------------------------------------------------------------
(* Fresh leaves.  A job carries the generation it was begun for, and a     *)
(* diagnosis that ends moves its piece to the next generation: a job or a  *)
(* completion of the current generation exists only while its piece is     *)
(* under diagnosis, and nothing is stored in a piece meanwhile.            *)

\* The work w was begun for the current generation of its piece, which is still
\* under diagnosis, or for an earlier one.
Begun(w) ==
  /\ w.generation <= generation[w.piece]
  /\ w.generation = generation[w.piece] => state[w.piece] = "diagnosing"

Exact(d) == d.ok /\ d.generation = generation[d.piece] => d.bad = bad[d.piece]

FreshInv ==
  /\ OwnedInv
  /\ \A j \in jobs : Begun(j)
  /\ \A d \in done : Begun(d) /\ Exact(d)

\* Work of other pieces, and of earlier generations, is not disturbed by a piece
\* that starts over.
LEMMA ResetFresh ==
  ASSUME FreshInv, NEW p \in Piece, NEW B \in SUBSET Block, Reset(p, B),
         jobs' \subseteq jobs, done' \subseteq done, OwnedInv'
  PROVE  FreshInv'
<1>1. /\ generation'[p] = generation[p] + 1
      /\ \A q \in Piece \ {p} : /\ state'[q] = state[q] /\ generation'[q] = generation[q]
                                /\ bad'[q] = bad[q]
      /\ \A q \in Piece : generation[q] \in Nat
  BY DEF FreshInv, OwnedInv, TypeOK, Reset
<1>2. /\ \A j \in jobs : j.piece \in Piece /\ j.generation \in Nat
      /\ \A d \in done : d.piece \in Piece /\ d.generation \in Nat
  BY DEF FreshInv, OwnedInv, TypeOK
<1>3. ASSUME NEW j \in jobs' PROVE Begun(j)'
  <2>1. j \in jobs /\ Begun(j)
    BY <1>3 DEF FreshInv
  <2>2. CASE j.piece = p
    BY <1>1, <1>2, <2>1, <2>2 DEF Begun
  <2>3. CASE j.piece # p
    BY <1>1, <1>2, <2>1, <2>3 DEF Begun
  <2> QED BY <2>2, <2>3
<1>4. ASSUME NEW d \in done' PROVE Begun(d)' /\ Exact(d)'
  <2>1. d \in done /\ Begun(d) /\ Exact(d)
    BY <1>4 DEF FreshInv
  <2>2. CASE d.piece = p
    BY <1>1, <1>2, <2>1, <2>2 DEF Begun, Exact
  <2>3. CASE d.piece # p
    BY <1>1, <1>2, <2>1, <2>3 DEF Begun, Exact
  <2> QED BY <2>2, <2>3
<1> QED BY <1>3, <1>4 DEF FreshInv

\* A step that changes neither generation nor bytes, and takes no piece out of
\* its diagnosis, keeps the work that remains fresh.
LEMMA QuietFresh ==
  ASSUME FreshInv, OwnedInv', UNCHANGED <<generation, bad>>,
         \A p \in Piece : state[p] = "diagnosing" => state'[p] = "diagnosing",
         \A j \in jobs' : j \in jobs \/ Begun(j)',
         \A d \in done' : d \in done \/ (Begun(d)' /\ Exact(d)')
  PROVE  FreshInv'
<1>1. \A w \in jobs \cup done : w.piece \in Piece
  BY DEF FreshInv, OwnedInv, TypeOK
<1>2. \A w \in jobs \cup done : Begun(w) => Begun(w)'
  BY <1>1 DEF Begun
<1>3. \A d \in done : Exact(d) => Exact(d)'
  BY DEF Exact
<1> QED BY <1>2, <1>3 DEF FreshInv

\* Every step keeps the leaves of the current generation exact.
LEMMA FreshStep == FreshInv /\ [Next]_vars => FreshInv'
<1> SUFFICES ASSUME FreshInv, [Next]_vars PROVE FreshInv'
  OBVIOUS
<1>0. OwnedInv /\ OwnedInv'
  BY OwnedStep DEF FreshInv
<1>1. ASSUME NEW p \in Piece, NEW b \in Block, NEW corrupt \in BOOLEAN, StoreBlock(p, b, corrupt)
      PROVE  FreshInv'
  <2>1. /\ \A q \in Piece \ {p} : bad'[q] = bad[q] /\ state'[q] = state[q]
        /\ state[p] = "downloading" /\ UNCHANGED <<generation, jobs, done>>
    BY <1>0, <1>1 DEF StoreBlock, OwnedInv, TypeOK
  <2>2. \A w \in jobs \cup done : w.piece \in Piece
    BY <1>0 DEF OwnedInv, TypeOK
  <2>3. \A w \in jobs \cup done : Begun(w) => Begun(w)'
    BY <2>1, <2>2 DEF Begun
  <2>4. \A d \in done : Begun(d) /\ Exact(d) => Exact(d)'
    BY <2>1, <2>2 DEF Begun, Exact
  <2> QED BY <1>0, <2>1, <2>3, <2>4 DEF FreshInv
<1>2. ASSUME NEW p \in Piece, Verified(p) PROVE FreshInv'
  <2>1. /\ UNCHANGED <<generation, bad, jobs, done>>
        /\ \A q \in Piece : state[q] = "diagnosing" => state'[q] = "diagnosing"
    BY <1>0, <1>2 DEF Verified, OwnedInv, TypeOK
  <2> QED BY <1>0, <2>1, QuietFresh
<1>3. ASSUME NEW p \in Piece, HashFailed(p) PROVE FreshInv'
  BY <1>0, <1>3, ResetFresh DEF HashFailed
<1>4. ASSUME NEW p \in Piece, BeginDiagnosis(p) PROVE FreshInv'
  <2> DEFINE new == [piece |-> p, generation |-> generation[p]]
  <2>1. /\ UNCHANGED <<generation, bad, done>> /\ jobs' = jobs \cup {new}
        /\ state'[p] = "diagnosing" /\ generation[p] \in Nat
        /\ \A q \in Piece : state[q] = "diagnosing" => state'[q] = "diagnosing"
    BY <1>0, <1>4 DEF BeginDiagnosis, OwnedInv, TypeOK
  <2>2. Begun(new)'
    BY <2>1 DEF Begun
  <2> QED BY <1>0, <2>1, <2>2, QuietFresh
<1>5. ASSUME NEW j \in jobs, ExecuteDiagnosis(j) PROVE FreshInv'
  <2>1. PICK ok \in BOOLEAN :
          done' = done \cup {[piece |-> j.piece, ok |-> ok, generation |-> j.generation,
                              bad |-> IF ok THEN bad[j.piece] ELSE {}]}
    BY <1>5 DEF ExecuteDiagnosis
  <2> DEFINE new == [piece |-> j.piece, ok |-> ok, generation |-> j.generation,
                     bad |-> IF ok THEN bad[j.piece] ELSE {}]
  <2>2. UNCHANGED <<state, generation, bad>> /\ jobs' \subseteq jobs
    BY <1>5 DEF ExecuteDiagnosis
  <2>3. Begun(j)
    BY DEF FreshInv
  <2>4. Begun(new)' /\ Exact(new)'
    BY <2>2, <2>3 DEF Begun, Exact
  <2> QED BY <1>0, <2>1, <2>2, <2>4, QuietFresh
<1>6. ASSUME NEW L \in SUBSET Block, Finish(L) \/ Fallback, diagnosis \in Piece,
             jobs' \subseteq jobs, done' \subseteq done
      PROVE  FreshInv'
  <2>1. PICK B \in SUBSET Block : Reset(diagnosis, B)
    BY <1>6 DEF Finish, Fallback
  <2> QED BY <1>0, <1>6, <2>1, ResetFresh
<1>7. ASSUME NEW d \in done, TakeLeaves(d) PROVE FreshInv'
  <2>1. diagnosis \in Piece /\ d.bad \in SUBSET Block /\ done' \subseteq done /\ jobs' = jobs
    BY <1>0, <1>7 DEF TakeLeaves, OwnedInv, TypeOK
  <2>2. CASE Finish(d.bad)
    BY <1>6, <2>1, <2>2
  <2>3. CASE ~Finish(d.bad)
    <3>1. UNCHANGED <<state, generation, bad>>
      BY <1>7, <2>3 DEF TakeLeaves
    <3> QED BY <1>0, <2>1, <3>1, QuietFresh
  <2> QED BY <2>2, <2>3
<1>8. ASSUME NEW d \in done, LeafHashingFailed(d) PROVE FreshInv'
  <2>1. diagnosis \in Piece /\ Fallback /\ done' \subseteq done /\ jobs' = jobs
    BY <1>0, <1>8 DEF LeafHashingFailed, OwnedInv, TypeOK
  <2> QED BY <1>6, <2>1
<1>9. ASSUME NEW d \in done, IgnoreLeaves(d) \/ ForeignLeaves(d) PROVE FreshInv'
  <2>1. UNCHANGED <<state, generation, bad, jobs>> /\ done' \subseteq done
    BY <1>9 DEF IgnoreLeaves, ForeignLeaves
  <2> QED BY <1>0, <2>1, QuietFresh
<1>10. CASE ProofsComplete
  <2>1. diagnosis \in Piece /\ leaves \in SUBSET Block /\ UNCHANGED <<jobs, done>>
    BY <1>0, <1>10 DEF ProofsComplete, OwnedInv, TypeOK
  <2>2. CASE Finish(leaves)
    BY <1>6, <2>1, <2>2
  <2>3. CASE ~Finish(leaves)
    <3>1. UNCHANGED <<state, generation, bad>>
      BY <1>10, <2>3 DEF ProofsComplete
    <3> QED BY <1>0, <2>1, <3>1, QuietFresh
  <2> QED BY <2>2, <2>3
<1>11. CASE Deadline
  <2>1. diagnosis \in Piece /\ Fallback /\ UNCHANGED <<jobs, done>>
    BY <1>0, <1>11 DEF Deadline, OwnedInv, TypeOK
  <2> QED BY <1>6, <2>1
<1>12. CASE UNCHANGED vars \/ Idle
  <2>1. UNCHANGED <<state, generation, bad, jobs, done>>
    BY <1>12 DEF Idle, vars
  <2> QED BY <1>0, <2>1, QuietFresh
<1> QED
  BY <1>1, <1>2, <1>3, <1>4, <1>5, <1>7, <1>8, <1>9, <1>10, <1>11, <1>12 DEF Next

(***************************************************************************)
(* Leaves that were read for the generation under diagnosis are those of   *)
(* the bytes on disk when they are compared: only corrupt blocks start     *)
(* over (finish_leaf_diagnosis_if_ready), whatever other work is late.     *)
(***************************************************************************)
THEOREM FreshLeavesExactHolds == Spec => []FreshLeavesExact
<1>1. Init => FreshInv
  <2> SUFFICES ASSUME Init PROVE FreshInv
    OBVIOUS
  <2> QED BY OwnedInit DEF Init, FreshInv
<1>2. FreshInv => FreshLeavesExact
  BY DEF FreshInv, Exact, FreshLeavesExact
<1> QED BY <1>1, <1>2, FreshStep, PTL DEF Spec
=============================================================================
