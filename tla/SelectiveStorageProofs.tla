----------------------- MODULE SelectiveStorageProofs -----------------------
(***************************************************************************)
(* Proofs about SelectiveStorage for every layout of pieces over files,    *)
(* every number of selection changes and every number of deaths: the       *)
(* routes are sound, and what the store says the torrent has can be read.  *)
(***************************************************************************)
EXTENDS SelectiveStorage, NaturalsInduction, WellFoundedInduction, TLAPS

-----------------------------------------------------------------------------
(* The inductive invariant. *)

\* the selection that will be the route once the promotions under way are done
Target == IF mode = "promoting" THEN task.next ELSE selection

\* a full check is under way, or the reconciliation that ends one
Checking ==
  \/ mode \in {"checking", "finalizing"}
  \/ mode \in {"promoting", "releasing"} /\ task.then = "finalizing"

\* restore_promoted_file has opened f and has not synced it yet
Working(f) ==
  mode = "promoting" /\ task.todo # {} /\ f = Min(task.todo) /\ task.step # "create"

\* f is to be promoted and its ranges have not been copied yet
Unfilled(f) ==
  mode = "promoting" /\ f \in task.todo /\ ~(f = Min(task.todo) /\ task.step = "sync")

PartGood(s) == s[1] \in slots /\ part[s] = "good"

\* The run's own tables.
TableInv ==
  /\ TypeOK
  /\ mode # "down" => retained \cap Target = {} /\ present \ Target \subseteq retained
  /\ mode \in {"promoting", "releasing"} => task.then \in {"persist", "running", "finalizing"}
  /\ mode = "promoting" => task.todo \subseteq task.next
  /\ mode = "promoting" /\ task.step # "create" => task.todo # {} /\ Min(task.todo) \in present
  /\ mode # "checking" => pending = {}
  /\ mode = "checking" => pending \subseteq selection \ present
  /\ Checking => pendingCheck
  /\ pendingCheck => Checking \/ mode = "down"

\* The part file holds only what a skipped file needs.
SlotInv == mode \in {"running", "persist", "finalizing"} => \A p \in slots : RequiresPart(p)

\* What is verified, committed and invalidated.
PieceInv ==
  /\ mode \notin {"promoting", "releasing", "persist"} => invalid = {}
  /\ mode \in {"promoting", "releasing"} /\ task.then # "persist" => invalid = {} /\ task.unsourced = {}
  /\ invalid \cap slots = {} /\ invalid \cap verified = {}
  /\ mode # "down" /\ ~Checking => committed \subseteq verified \cup invalid
  /\ mode \in {"promoting", "releasing", "persist"} /\ ~Checking => verified \subseteq committed
  /\ mode = "running" => \A p \in verified \ committed : RequiresPart(p) => p \in slots
  /\ Checking /\ mode # "checking" => verified \subseteq committed \cup recovered

\* A span with two homes is doubtful.
HomeInv ==
  mode # "down" =>
    \A s \in Span : s[2] \in present \ Target /\ s[1] \in slots => s \in doubtful

\* What is not synced: the new name of a file outlives none of its good bytes,
\* and the slot of a committed piece is safe.
SyncInv ==
  /\ \A s \in Span : <<"new", s[2]>> \in unsynced /\ bytes[s] = "good" => <<"file", s>> \in unsynced
  /\ \A s \in Span : s[1] \in committed \cap slots =>
       <<"slot", s[1]>> \notin unsynced /\ <<"part", s>> \notin unsynced

\* The bytes of a span that is relied on are where the run looks for them, or
\* will be once the promotions are done.
Placed(s) ==
  /\ s[2] \notin present => PartGood(s) /\ (s[2] \in Target => Unfilled(s[2]))
  /\ s[2] \in present /\ ~Unfilled(s[2]) => bytes[s] = "good"
  /\ s[2] \in present /\ Unfilled(s[2]) /\ s[1] \in slots => Working(s[2]) /\ part[s] = "good"
  /\ s[2] \in present /\ Unfilled(s[2]) /\ s[1] \notin slots => bytes[s] = "good"

\* the spans no reliance is placed on; a check replaces the doubts of earlier runs
Excused == IF Checking THEN TwoHomes(retained) ELSE doubtful

PlaceInv ==
  mode \notin {"down", "checking"} =>
    \A s \in Span : s[1] \in verified \cup invalid /\ s \notin Excused => Placed(s)

\* The bytes of a committed span survive a death.
Durable(s) ==
  /\ s[2] \notin present => PartGood(s)
  /\ s[2] \in present /\ ~Working(s[2]) => bytes[s] = "good" /\ <<"file", s>> \notin unsynced

DurableInv ==
  ~pendingCheck => \A s \in Span : s[1] \in committed /\ s \notin doubtful => Durable(s)

StorageInv == TableInv /\ SlotInv /\ PieceInv /\ HomeInv /\ SyncInv /\ PlaceInv /\ DurableInv

-----------------------------------------------------------------------------
(* Facts about the layout. *)

\* A non-empty set of indices has a least one: the file a promotion works on.
LEMMA MinOfIndices ==
  ASSUME NEW S \in SUBSET Nat, S # {}
  PROVE  Min(S) \in S
<1>1. PICK x \in S : \A y \in S : ~ (<<y, x>> \in OpToRel(<, Nat))
  BY WFMin, NatLessThanWellFounded, Zenon
<1>2. \A y \in S : x <= y
  <2> TAKE y \in S
  <2>1. ~ (y < x)
    BY <1>1 DEF OpToRel
  <2> QED BY <2>1
<1> QED BY <1>2 DEF Min

\* The file a promotion works on is one of those it has to promote.
LEMMA PromotingFacts ==
  ASSUME TypeOK, NEW f \in File, NEW step, Promoting(f, step)
  PROVE  f \in task.todo
<1>1. task.todo \in SUBSET Nat
  BY LayoutAssumption DEF TypeOK
<1> QED BY <1>1, MinOfIndices DEF Promoting

\* A span is the pair of its piece and its file.
LEMMA SpanFacts ==
  ASSUME NEW s \in Span
  PROVE  s[1] \in Piece /\ s[2] \in File /\ s = <<s[1], s[2]>>
BY LayoutAssumption

-----------------------------------------------------------------------------
(* Type correctness. *)

\* Every step keeps the types.
LEMMA TypeStep ==
  ASSUME TableInv, [Next]_vars
  PROVE  TypeOK'
<1> USE DEF disk, store, route, bounds
<1>1. ASSUME NEW s \in Span, NEW content \in {"good", "junk"}, WriteFile(s, content) PROVE TypeOK'
  BY <1>1, SpanFacts DEF TableInv, TypeOK, WriteFile, Opened, OpenedBytes, OpenedNew
<1>2. ASSUME NEW s \in Span, NEW content \in {"good", "junk"}, WritePart(s, content) PROVE TypeOK'
  BY <1>2, SpanFacts DEF TableInv, TypeOK, WritePart
<1>3. ASSUME NEW p \in Piece, RecordVerified(p) \/ CheckpointPiece(p) PROVE TypeOK'
  BY <1>3 DEF TableInv, TypeOK, RecordVerified, CheckpointPiece
<1>4. ASSUME BeginReconcile PROVE TypeOK'
  BY <1>4 DEF TableInv, TypeOK, BeginReconcile, RetainedAfter, TwoHomes
<1>5. ASSUME FinishPromotions PROVE TypeOK'
  BY <1>5 DEF TableInv, TypeOK, FinishPromotions
<1>6. ASSUME FinishReleases PROVE TypeOK'
  BY <1>6 DEF TableInv, TypeOK, FinishReleases, NoTask, Target
<1>7. ASSUME PersistInvalidated PROVE TypeOK'
  BY <1>7 DEF TableInv, TypeOK, PersistInvalidated, Target
<1>8. ASSUME NEW f \in File, CreatePromoted(f) PROVE TypeOK'
  BY <1>8 DEF TableInv, TypeOK, CreatePromoted, Promoting, Opened, OpenedBytes, OpenedNew
<1>9. ASSUME NEW f \in File, FillPromoted(f) PROVE TypeOK'
  BY <1>9 DEF TableInv, TypeOK, FillPromoted, Promoting, SpansOf, PiecesOf
<1>10. ASSUME NEW f \in File, SyncPromoted(f) PROVE TypeOK'
  BY <1>10 DEF TableInv, TypeOK, SyncPromoted, Promoting
<1>11. ASSUME NEW p \in Piece, ReleaseSlot(p) PROVE TypeOK'
  BY <1>11 DEF TableInv, TypeOK, ReleaseSlot
<1>12. ASSUME AcceptResume PROVE TypeOK'
  BY <1>12 DEF TableInv, TypeOK, AcceptResume, Reopen, Restore, Restorable, TwoHomes
<1>13. ASSUME BeginCheck PROVE TypeOK'
  BY <1>13 DEF TableInv, TypeOK, BeginCheck, Reopen, TwoHomes
<1>14. ASSUME CheckPieces PROVE TypeOK'
  BY <1>14 DEF TableInv, TypeOK, CheckPieces, Restore, Restorable
<1>15. ASSUME FinishCheck PROVE TypeOK'
  BY <1>15 DEF TableInv, TypeOK, FinishCheck, TwoHomes, Target
<1>16. ASSUME FailCheck PROVE TypeOK'
  BY <1>16 DEF TableInv, TypeOK, FailCheck, Down, NoTask
<1>17. ASSUME NEW S \in SUBSET File, ChangeSelection(S) PROVE TypeOK'
  BY <1>17, LayoutAssumption DEF TableInv, TypeOK, ChangeSelection
<1>18. ASSUME NEW lost \in SUBSET unsynced, Die(lost) PROVE TypeOK'
  <2>1. present' \subseteq File /\ slots' \subseteq Piece /\ unsynced' \subseteq unsynced
    BY <1>18 DEF TableInv, TypeOK, Die
  <2>2. doubtful' \subseteq Span
    BY <1>18 DEF TableInv, TypeOK, Die, SpansOf
  <2>3. deaths' \in 0..MaxDeaths
    BY <1>18, LayoutAssumption DEF TableInv, TypeOK, Die
  <2>4. bytes' \in [Span -> {"good", "junk"}] /\ part' \in [Span -> {"good", "junk"}]
    BY <1>18 DEF TableInv, TypeOK, Die
  <2> QED BY <1>18, <2>1, <2>2, <2>3, <2>4 DEF TableInv, TypeOK, Die, Down, NoTask
<1>19. ASSUME NEW force \in BOOLEAN, Stop(force) PROVE TypeOK'
  BY <1>19 DEF TableInv, TypeOK, Stop, Down, NoTask
<1>20. ASSUME UNCHANGED vars PROVE TypeOK'
  BY <1>20 DEF TableInv, TypeOK, vars
<1> QED BY <1>1, <1>2, <1>3, <1>4, <1>5, <1>6, <1>7, <1>8, <1>9, <1>10, <1>11, <1>12, <1>13,
           <1>14, <1>15, <1>16, <1>17, <1>18, <1>19, <1>20 DEF Next, Download, Reconcile, Resume


\* The run's own tables stay in step with the mode.
LEMMA TableStep ==
  ASSUME TableInv, [Next]_vars
  PROVE  TableInv'
<1> USE DEF disk, store, route, bounds
<1>0. TypeOK' /\ TypeOK
  BY TypeStep DEF TableInv
<1>1. ASSUME NEW s \in Span, NEW content \in {"good", "junk"},
             WriteFile(s, content) \/ WritePart(s, content)
      PROVE  TableInv'
  BY <1>0, <1>1 DEF TableInv, WriteFile, WritePart, Opened, Target, Checking
<1>2. ASSUME NEW p \in Piece, RecordVerified(p) \/ CheckpointPiece(p) \/ ReleaseSlot(p)
      PROVE  TableInv'
  BY <1>0, <1>2 DEF TableInv, RecordVerified, CheckpointPiece, ReleaseSlot, Target, Checking
<1>3. ASSUME BeginReconcile PROVE TableInv'
  BY <1>0, <1>3 DEF TableInv, TypeOK, BeginReconcile, RetainedAfter, Target, Checking
<1>4. ASSUME FinishPromotions PROVE TableInv'
  BY <1>0, <1>4 DEF TableInv, FinishPromotions, Target, Checking
<1>5. ASSUME FinishReleases PROVE TableInv'
  BY <1>0, <1>5 DEF TableInv, FinishReleases, Target, Checking, NoTask
<1>6. ASSUME PersistInvalidated PROVE TableInv'
  BY <1>0, <1>6 DEF TableInv, PersistInvalidated, Target, Checking
<1>7. ASSUME NEW f \in File, CreatePromoted(f) PROVE TableInv'
  <2>1. f \in task.todo
    BY <1>0, <1>7, PromotingFacts DEF CreatePromoted
  <2> QED BY <1>0, <1>7, <2>1 DEF TableInv, TypeOK, CreatePromoted, Promoting, Opened, Target, Checking
<1>8. ASSUME NEW f \in File, FillPromoted(f) \/ SyncPromoted(f) PROVE TableInv'
  <2>1. /\ mode' = mode /\ task'.next = task.next /\ task'.then = task.then
        /\ task'.todo \subseteq task.todo
        /\ task'.step # "create" => task'.todo = task.todo /\ task.step # "create"
    <3>1. CASE FillPromoted(f)
      BY <1>0, <3>1 DEF TypeOK, FillPromoted, Promoting
    <3>2. CASE SyncPromoted(f)
      BY <1>0, <3>2 DEF TypeOK, SyncPromoted, Promoting
    <3> QED BY <1>8, <3>1, <3>2
  <2>2. UNCHANGED <<present, store, route>>
    BY <1>8 DEF FillPromoted, SyncPromoted
  <2> QED BY <1>0, <2>1, <2>2 DEF TableInv, Target, Checking
<1>9. ASSUME AcceptResume PROVE TableInv'
  BY <1>0, <1>9 DEF TableInv, TypeOK, AcceptResume, Reopen, Restore, Restorable, Target, Checking
<1>10. ASSUME BeginCheck PROVE TableInv'
  BY <1>0, <1>10 DEF TableInv, TypeOK, BeginCheck, Reopen, Target, Checking
<1>11. ASSUME CheckPieces PROVE TableInv'
  BY <1>0, <1>11 DEF TableInv, TypeOK, CheckPieces, Restore, Restorable, Target, Checking
<1>12. ASSUME FinishCheck PROVE TableInv'
  BY <1>0, <1>12 DEF TableInv, FinishCheck, Target, Checking
<1>13. ASSUME NEW S \in SUBSET File, ChangeSelection(S) PROVE TableInv'
  BY <1>0, <1>13 DEF TableInv, ChangeSelection, Target, Checking
<1>14. ASSUME Down PROVE TableInv'
  BY <1>0, <1>14 DEF TableInv, Down, Target, Checking
<1>15. ASSUME UNCHANGED vars PROVE TableInv'
  BY <1>0, <1>15 DEF TableInv, vars, Target, Checking
<1> QED BY <1>1, <1>2, <1>3, <1>4, <1>5, <1>6, <1>7, <1>8, <1>9, <1>10, <1>11, <1>12, <1>13,
           <1>14, <1>15 DEF Next, Download, Reconcile, Resume, FailCheck, Die, Stop

\* A slot that no skipped file needs any more is released before the run goes on.
LEMMA SlotStep ==
  ASSUME TableInv, SlotInv, [Next]_vars
  PROVE  SlotInv'
<1> USE DEF disk, store, route, bounds
<1>1. ASSUME NEW s \in Span, NEW content \in {"good", "junk"}, WriteFile(s, content)
      PROVE  SlotInv'
  BY <1>1 DEF SlotInv, WriteFile, RequiresPart
<1>2. ASSUME NEW s \in Span, NEW content \in {"good", "junk"}, WritePart(s, content)
      PROVE  SlotInv'
  <2>1. RequiresPart(s[1])
    BY <1>2, SpanFacts DEF WritePart, RequiresPart, FilesOf
  <2> QED BY <1>2, <2>1 DEF SlotInv, WritePart, RequiresPart
<1>3. ASSUME NEW p \in Piece, RecordVerified(p) \/ CheckpointPiece(p) \/ ReleaseSlot(p)
      PROVE  SlotInv'
  BY <1>3 DEF SlotInv, RecordVerified, CheckpointPiece, ReleaseSlot, RequiresPart
<1>4. ASSUME FinishReleases PROVE SlotInv'
  BY <1>4 DEF SlotInv, FinishReleases, RequiresPart, Unused
<1>5. ASSUME PersistInvalidated \/ FinishCheck PROVE SlotInv'
  BY <1>5 DEF SlotInv, PersistInvalidated, FinishCheck, RequiresPart
<1>6. ASSUME NEW S \in SUBSET File, ChangeSelection(S) PROVE SlotInv'
  BY <1>6 DEF SlotInv, ChangeSelection, RequiresPart
<1>7. ASSUME NEW f \in File, CreatePromoted(f) \/ FillPromoted(f) \/ SyncPromoted(f)
      PROVE  SlotInv'
  BY <1>7 DEF SlotInv, CreatePromoted, FillPromoted, SyncPromoted, Promoting
<1>8. ASSUME BeginReconcile \/ FinishPromotions \/ AcceptResume \/ BeginCheck \/ CheckPieces
      PROVE  SlotInv'
  BY <1>8 DEF SlotInv, BeginReconcile, FinishPromotions, AcceptResume, BeginCheck, CheckPieces
<1>9. ASSUME Down PROVE SlotInv'
  BY <1>9 DEF SlotInv, Down
<1>10. ASSUME UNCHANGED vars PROVE SlotInv'
  BY <1>10 DEF SlotInv, vars, RequiresPart
<1> QED BY <1>1, <1>2, <1>3, <1>4, <1>5, <1>6, <1>7, <1>8, <1>9, <1>10
        DEF Next, Download, Reconcile, Resume, FailCheck, Die, Stop

\* What is verified is committed before the routes change, and a piece that lost its
\* source keeps its commit only until the invalidation is persisted.
LEMMA PieceStep ==
  ASSUME TableInv, PieceInv, [Next]_vars
  PROVE  PieceInv'
<1> USE DEF disk, store, route, bounds
<1>0. TypeOK
  BY DEF TableInv
<1>1. ASSUME NEW s \in Span, NEW content \in {"good", "junk"},
             WriteFile(s, content) \/ WritePart(s, content)
      PROVE  PieceInv'
  BY <1>1 DEF PieceInv, WriteFile, WritePart, Checking, RequiresPart
<1>2. ASSUME NEW p \in Piece, RecordVerified(p) PROVE PieceInv'
  BY <1>2 DEF PieceInv, RecordVerified, Checking, RequiresPart
<1>3. ASSUME NEW p \in Piece, CheckpointPiece(p) PROVE PieceInv'
  BY <1>3 DEF PieceInv, CheckpointPiece, Checking, RequiresPart
<1>4. ASSUME NEW p \in Piece, ReleaseSlot(p) PROVE PieceInv'
  BY <1>4 DEF PieceInv, ReleaseSlot, Checking
<1>5. ASSUME BeginReconcile PROVE PieceInv'
  BY <1>5 DEF PieceInv, BeginReconcile, Checking
<1>6. ASSUME FinishPromotions PROVE PieceInv'
  BY <1>6 DEF PieceInv, FinishPromotions, Checking
<1>7. ASSUME FinishReleases PROVE PieceInv'
  BY <1>7 DEF PieceInv, TableInv, FinishReleases, Checking
<1>8. ASSUME PersistInvalidated PROVE PieceInv'
  BY <1>8 DEF PieceInv, PersistInvalidated, Checking
<1>9. ASSUME NEW f \in File, CreatePromoted(f) \/ SyncPromoted(f) PROVE PieceInv'
  BY <1>0, <1>9 DEF TypeOK, PieceInv, CreatePromoted, SyncPromoted, Promoting, Checking
<1>10. ASSUME NEW f \in File, FillPromoted(f) PROVE PieceInv'
  BY <1>0, <1>10 DEF TypeOK, PieceInv, FillPromoted, Promoting, Checking
<1>11. ASSUME AcceptResume PROVE PieceInv'
  BY <1>11 DEF PieceInv, AcceptResume, Restore, Checking
<1>12. ASSUME BeginCheck PROVE PieceInv'
  BY <1>12 DEF PieceInv, BeginCheck, Checking
<1>13. ASSUME CheckPieces PROVE PieceInv'
  BY <1>13 DEF PieceInv, CheckPieces, Restore, Checking
<1>14. ASSUME FinishCheck PROVE PieceInv'
  BY <1>14 DEF PieceInv, FinishCheck, Checking
<1>15. ASSUME NEW S \in SUBSET File, ChangeSelection(S) PROVE PieceInv'
  BY <1>15 DEF PieceInv, ChangeSelection, Checking, RequiresPart
<1>16. ASSUME Down PROVE PieceInv'
  BY <1>16 DEF PieceInv, Down, Checking
<1>17. ASSUME UNCHANGED vars PROVE PieceInv'
  BY <1>17 DEF PieceInv, vars, Checking, RequiresPart
<1> QED BY <1>1, <1>2, <1>3, <1>4, <1>5, <1>6, <1>7, <1>8, <1>9, <1>10, <1>11, <1>12, <1>13,
           <1>14, <1>15, <1>16, <1>17 DEF Next, Download, Reconcile, Resume, FailCheck, Die, Stop

\* Whenever a span gets a second home, by a write to the slot, by a deselection or by a
\* resume, it becomes doubtful; a check forgets only doubts it has settled.
LEMMA HomeStep ==
  ASSUME TableInv, HomeInv, [Next]_vars
  PROVE  HomeInv'
<1> USE DEF disk, store, route, bounds
<1>0. TypeOK
  BY DEF TableInv
<1>1. ASSUME NEW s \in Span, NEW content \in {"good", "junk"}, WriteFile(s, content)
      PROVE  HomeInv'
  BY <1>1 DEF HomeInv, WriteFile, Opened, Target
<1>2. ASSUME NEW s \in Span, NEW content \in {"good", "junk"}, WritePart(s, content)
      PROVE  HomeInv'
  BY <1>2 DEF HomeInv, WritePart, Target
<1>3. ASSUME NEW p \in Piece, RecordVerified(p) \/ CheckpointPiece(p) \/ ReleaseSlot(p)
      PROVE  HomeInv'
  BY <1>3 DEF HomeInv, RecordVerified, CheckpointPiece, ReleaseSlot, Target
<1>4. ASSUME BeginReconcile PROVE HomeInv'
  BY <1>4 DEF HomeInv, BeginReconcile, TwoHomes, Target
<1>5. ASSUME FinishPromotions \/ FinishReleases \/ PersistInvalidated PROVE HomeInv'
  BY <1>5 DEF TableInv, HomeInv, FinishPromotions, FinishReleases, PersistInvalidated, Target
<1>6. ASSUME NEW f \in File, CreatePromoted(f) PROVE HomeInv'
  <2>1. f \in task.todo
    BY <1>0, <1>6, PromotingFacts DEF CreatePromoted
  <2> QED BY <1>0, <1>6, <2>1 DEF TypeOK, TableInv, HomeInv, CreatePromoted, Promoting, Opened, Target
<1>7. ASSUME NEW f \in File, FillPromoted(f) PROVE HomeInv'
  BY <1>0, <1>7 DEF TypeOK, HomeInv, FillPromoted, Promoting, Target
<1>8. ASSUME NEW f \in File, SyncPromoted(f) PROVE HomeInv'
  BY <1>0, <1>8 DEF TypeOK, HomeInv, SyncPromoted, Promoting, Target
<1>9. ASSUME AcceptResume \/ BeginCheck PROVE HomeInv'
  BY <1>9 DEF HomeInv, AcceptResume, BeginCheck, Reopen, Restore, TwoHomes, Target
<1>10. ASSUME CheckPieces PROVE HomeInv'
  BY <1>10 DEF HomeInv, CheckPieces, Restore, Target
<1>11. ASSUME FinishCheck PROVE HomeInv'
  BY <1>11 DEF TableInv, HomeInv, FinishCheck, TwoHomes, Target
<1>12. ASSUME NEW S \in SUBSET File, ChangeSelection(S) PROVE HomeInv'
  BY <1>12 DEF HomeInv, ChangeSelection, Target
<1>13. ASSUME Down PROVE HomeInv'
  BY <1>13 DEF HomeInv, Down
<1>14. ASSUME UNCHANGED vars PROVE HomeInv'
  BY <1>14 DEF HomeInv, vars, Target
<1> QED BY <1>1, <1>2, <1>3, <1>4, <1>5, <1>6, <1>7, <1>8, <1>9, <1>10, <1>11, <1>12, <1>13,
           <1>14 DEF Next, Download, Reconcile, Resume, FailCheck, Die, Stop

\* The slot of a committed piece was synced when it was committed and is not written again.
LEMMA SyncStep ==
  ASSUME TableInv, SlotInv, PieceInv, SyncInv, [Next]_vars
  PROVE  SyncInv'
<1> USE DEF disk, store, route, bounds
<1>0. TypeOK
  BY DEF TableInv
<1>1. ASSUME NEW s \in Span, NEW content \in {"good", "junk"}, WriteFile(s, content)
      PROVE  SyncInv'
  <2>1. ASSUME NEW r \in Span, <<"new", r[2]>> \in unsynced', bytes'[r] = "good"
        PROVE  <<"file", r>> \in unsynced'
    BY <1>0, <1>1, <2>1 DEF TypeOK, SyncInv, WriteFile, OpenedBytes, OpenedNew
  <2>2. ASSUME NEW r \in Span, r[1] \in committed' \cap slots'
        PROVE  <<"slot", r[1]>> \notin unsynced' /\ <<"part", r>> \notin unsynced'
    BY <1>1, <2>2 DEF SyncInv, WriteFile, OpenedNew
  <2> QED BY <2>1, <2>2 DEF SyncInv
<1>2. ASSUME NEW s \in Span, NEW content \in {"good", "junk"}, WritePart(s, content)
      PROVE  SyncInv'
  <2>1. s[1] \notin committed
    BY <1>2 DEF WritePart, PieceInv, Checking
  <2>2. ASSUME NEW r \in Span, <<"new", r[2]>> \in unsynced', bytes'[r] = "good"
        PROVE  <<"file", r>> \in unsynced'
    BY <1>2, <2>2 DEF SyncInv, WritePart
  <2>3. ASSUME NEW r \in Span, r[1] \in committed' \cap slots'
        PROVE  <<"slot", r[1]>> \notin unsynced' /\ <<"part", r>> \notin unsynced'
    BY <1>2, <2>1, <2>3 DEF SyncInv, WritePart
  <2> QED BY <2>2, <2>3 DEF SyncInv
<1>3. ASSUME NEW p \in Piece, RecordVerified(p) PROVE SyncInv'
  BY <1>3 DEF SyncInv, RecordVerified
<1>4. ASSUME NEW p \in Piece, CheckpointPiece(p) PROVE SyncInv'
  <2>1. ASSUME NEW r \in Span, <<"new", r[2]>> \in unsynced', bytes'[r] = "good"
        PROVE  <<"file", r>> \in unsynced'
    BY <1>4, <2>1 DEF SyncInv, CheckpointPiece, Synced
  <2>2. ASSUME NEW r \in Span, r[1] \in committed' \cap slots'
        PROVE  <<"slot", r[1]>> \notin unsynced' /\ <<"part", r>> \notin unsynced'
    BY <1>4, <2>2 DEF SlotInv, SyncInv, CheckpointPiece, Synced
  <2> QED BY <2>1, <2>2 DEF SyncInv
<1>5. ASSUME NEW p \in Piece, ReleaseSlot(p) PROVE SyncInv'
  BY <1>5 DEF SyncInv, ReleaseSlot
<1>6. ASSUME BeginReconcile \/ FinishPromotions \/ FinishReleases \/ PersistInvalidated
      PROVE  SyncInv'
  BY <1>6 DEF SyncInv, BeginReconcile, FinishPromotions, FinishReleases, PersistInvalidated
<1>7. ASSUME NEW f \in File, CreatePromoted(f) PROVE SyncInv'
  <2>1. ASSUME NEW r \in Span, <<"new", r[2]>> \in unsynced', bytes'[r] = "good"
        PROVE  <<"file", r>> \in unsynced'
    BY <1>7, <2>1 DEF SyncInv, CreatePromoted, OpenedBytes, OpenedNew
  <2>2. ASSUME NEW r \in Span, r[1] \in committed' \cap slots'
        PROVE  <<"slot", r[1]>> \notin unsynced' /\ <<"part", r>> \notin unsynced'
    BY <1>7, <2>2 DEF SyncInv, CreatePromoted, OpenedNew
  <2> QED BY <2>1, <2>2 DEF SyncInv
<1>8. ASSUME NEW f \in File, FillPromoted(f) PROVE SyncInv'
  <2>1. ASSUME NEW r \in Span, <<"new", r[2]>> \in unsynced', bytes'[r] = "good"
        PROVE  <<"file", r>> \in unsynced'
    BY <1>8, <2>1 DEF SyncInv, FillPromoted
  <2>2. ASSUME NEW r \in Span, r[1] \in committed' \cap slots'
        PROVE  <<"slot", r[1]>> \notin unsynced' /\ <<"part", r>> \notin unsynced'
    BY <1>8, <2>2 DEF SyncInv, FillPromoted
  <2> QED BY <2>1, <2>2 DEF SyncInv
<1>9. ASSUME NEW f \in File, SyncPromoted(f) PROVE SyncInv'
  <2>1. ASSUME NEW r \in Span, <<"new", r[2]>> \in unsynced', bytes'[r] = "good"
        PROVE  <<"file", r>> \in unsynced'
    BY <1>9, <2>1 DEF SyncInv, SyncPromoted, FileSynced
  <2>2. ASSUME NEW r \in Span, r[1] \in committed' \cap slots'
        PROVE  <<"slot", r[1]>> \notin unsynced' /\ <<"part", r>> \notin unsynced'
    BY <1>9, <2>2 DEF SyncInv, SyncPromoted
  <2> QED BY <2>1, <2>2 DEF SyncInv
<1>10. ASSUME AcceptResume \/ BeginCheck \/ CheckPieces PROVE SyncInv'
  BY <1>10 DEF SyncInv, AcceptResume, BeginCheck, CheckPieces
<1>11. ASSUME FinishCheck PROVE SyncInv'
  <2>1. ASSUME NEW r \in Span, <<"new", r[2]>> \in unsynced', bytes'[r] = "good"
        PROVE  <<"file", r>> \in unsynced'
    BY <1>11, <2>1 DEF SyncInv, FinishCheck, Synced
  <2>2. ASSUME NEW r \in Span, r[1] \in committed' \cap slots'
        PROVE  <<"slot", r[1]>> \notin unsynced' /\ <<"part", r>> \notin unsynced'
    <3>1. r[1] \in committed \/ r[1] \in recovered
      BY <1>11, <2>2 DEF PieceInv, FinishCheck, Checking
    <3>2. RequiresPart(r[1])
      BY <1>11, <2>2 DEF SlotInv, FinishCheck
    <3> QED BY <1>11, <2>2, <3>1, <3>2 DEF SyncInv, FinishCheck, Synced
  <2> QED BY <2>1, <2>2 DEF SyncInv
<1>12. ASSUME NEW S \in SUBSET File, ChangeSelection(S) PROVE SyncInv'
  BY <1>12 DEF SyncInv, ChangeSelection
<1>13. ASSUME FailCheck PROVE SyncInv'
  BY <1>13 DEF SyncInv, FailCheck
<1>14. ASSUME NEW force \in BOOLEAN, Stop(force) PROVE SyncInv'
  BY <1>14 DEF SyncInv, Stop
<1>15. ASSUME NEW lost \in SUBSET unsynced, Die(lost) PROVE SyncInv'
  <2>1. ASSUME NEW r \in Span, <<"new", r[2]>> \in unsynced', bytes'[r] = "good"
        PROVE  <<"file", r>> \in unsynced'
    <3>1. <<"new", r[2]>> \in unsynced /\ <<"new", r[2]>> \notin lost
      BY <1>15, <2>1 DEF Die
    <3>2. <<"file", r>> \notin lost /\ bytes[r] = "good"
      BY <1>15, <2>1 DEF Die
    <3> QED BY <1>15, <3>1, <3>2 DEF SyncInv, Die
  <2>2. ASSUME NEW r \in Span, r[1] \in committed' \cap slots'
        PROVE  <<"slot", r[1]>> \notin unsynced' /\ <<"part", r>> \notin unsynced'
    BY <1>15, <2>2 DEF SyncInv, Die
  <2> QED BY <2>1, <2>2 DEF SyncInv
<1>16. ASSUME UNCHANGED vars PROVE SyncInv'
  BY <1>16 DEF SyncInv, vars
<1> QED BY <1>1, <1>2, <1>3, <1>4, <1>5, <1>6, <1>7, <1>8, <1>9, <1>10, <1>11, <1>12, <1>13,
           <1>14, <1>15, <1>16 DEF Next, Download, Reconcile, Resume

-----------------------------------------------------------------------------
(* Where the bytes are. *)

\* Downloads write only spans of pieces that are not verified; opening a file for one
\* range empties no range that is relied on, since a selected file of a relied span exists.
LEMMA PlaceDownload ==
  ASSUME TableInv, PieceInv, HomeInv, PlaceInv,
         NEW s \in Span, NEW content \in {"good", "junk"},
         WriteFile(s, content) \/ WritePart(s, content)
  PROVE  PlaceInv'
<1> USE DEF disk, store, route, bounds
<1>1. TypeOK /\ mode = "running" /\ mode' = "running" /\ task' = task /\ UNCHANGED <<verified, invalid>>
  BY DEF TableInv, WriteFile, WritePart
<1>2. ~Checking /\ ~Checking' /\ Excused = doubtful /\ Excused' = doubtful' /\ doubtful \subseteq doubtful'
  BY <1>1 DEF Checking, Excused, WriteFile, WritePart
<1>3. SUFFICES ASSUME NEW r \in Span, r[1] \in verified \cup invalid, r \notin doubtful' PROVE Placed(r)'
  BY <1>1, <1>2 DEF PlaceInv
<1>4. Placed(r) /\ r[1] \in verified
  BY <1>1, <1>2, <1>3 DEF PlaceInv, PieceInv
<1>5. ~Unfilled(r[2]) /\ ~Unfilled(r[2])'
  BY <1>1 DEF Unfilled
<1>6. CASE WriteFile(s, content)
  <2>1. s # r
    BY <1>4, <1>6 DEF WriteFile
  <2>2. r[2] = s[2] => r[2] \in present
    BY <1>1, <1>4, <1>5, <1>6 DEF Placed, WriteFile, Target
  <2>3. bytes'[r] = bytes[r]
    BY <1>1, <1>6, <2>1, <2>2 DEF TypeOK, WriteFile, OpenedBytes
  <2>4. r[2] \in present' <=> r[2] \in present
    BY <1>6, <2>2 DEF WriteFile, Opened
  <2> QED BY <1>1, <1>4, <1>5, <1>6, <2>3, <2>4 DEF Placed, PartGood, Target, WriteFile
<1>7. CASE WritePart(s, content)
  <2>1. s[1] # r[1] /\ s # r
    BY <1>4, <1>7 DEF WritePart
  <2>2. part'[r] = part[r] /\ (r[1] \in slots' <=> r[1] \in slots)
    BY <1>1, <1>7, <2>1 DEF TypeOK, WritePart
  <2> QED BY <1>1, <1>4, <1>5, <1>7, <2>2 DEF Placed, PartGood, Target, WritePart
<1> QED BY <1>6, <1>7

\* The hash of a piece reads each span where the run will look for it.
LEMMA PlaceVerified ==
  ASSUME TableInv, PieceInv, HomeInv, PlaceInv, NEW p \in Piece,
         RecordVerified(p) \/ CheckpointPiece(p)
  PROVE  PlaceInv'
<1> USE DEF disk, store, route, bounds
<1>1. /\ TypeOK /\ mode = "running" /\ mode' = "running" /\ pending = {}
      /\ UNCHANGED <<present, bytes, slots, part, selection, retained, invalid, doubtful, task>>
  BY DEF TableInv, RecordVerified, CheckpointPiece
<1>2. ~Checking /\ ~Checking' /\ Excused = doubtful /\ Excused' = doubtful'
  BY <1>1 DEF Checking, Excused
<1>3. SUFFICES ASSUME NEW r \in Span, r[1] \in verified' \cup invalid', r \notin doubtful PROVE Placed(r)'
  BY <1>1, <1>2 DEF PlaceInv
<1>4. Placed(r)' <=> Placed(r)
  BY <1>1 DEF Placed, PartGood, Unfilled, Working, Target
<1>5. CASE r[1] \in verified \cup invalid
  BY <1>1, <1>2, <1>3, <1>4, <1>5 DEF PlaceInv
<1>6. CASE r[1] \notin verified \cup invalid
  <2>1. RecordVerified(p) /\ r[1] = p
    BY <1>1, <1>3, <1>6 DEF RecordVerified, CheckpointPiece
  <2>2. Read(r) = "good"
    BY <2>1, SpanFacts DEF RecordVerified, Readable, FilesOf
  <2>3. ~Unfilled(r[2])
    BY <1>1 DEF Unfilled
  <2>4. CASE ReadsPart(r)
    BY <1>1, <1>3, <1>4, <2>2, <2>3, <2>4, SpanFacts
       DEF Read, ReadsPart, HomeInv, Placed, PartGood, Target
  <2>5. CASE ~ReadsPart(r)
    BY <1>1, <1>3, <1>4, <2>2, <2>3, <2>5, SpanFacts DEF Read, ReadsFile, Placed, Target
  <2> QED BY <2>4, <2>5
<1> QED BY <1>5, <1>6

\* A reconciliation begins with every relied span of a file to promote either in the file,
\* which is retained, or in the slot, never in both.
LEMMA PlaceReconcile ==
  ASSUME TableInv, PieceInv, HomeInv, PlaceInv, BeginReconcile
  PROVE  PlaceInv'
<1> USE DEF disk, store, route, bounds
<1>1. /\ TypeOK /\ mode = "running" /\ mode' = "promoting" /\ doubtful \subseteq doubtful'
      /\ UNCHANGED <<present, bytes, slots, part, selection, invalid, verified>>
      /\ task'.next = stored /\ task'.todo = stored \ selection
      /\ task'.step = "create" /\ task'.then = "persist"
  BY DEF TableInv, BeginReconcile
<1>2. ~Checking /\ ~Checking' /\ Excused = doubtful /\ Excused' = doubtful'
  BY <1>1 DEF Checking, Excused
<1>3. SUFFICES ASSUME NEW r \in Span, r[1] \in verified \cup invalid, r \notin doubtful' PROVE Placed(r)'
  BY <1>1, <1>2 DEF PlaceInv
<1>4. Placed(r) /\ ~Unfilled(r[2]) /\ Target = selection
  BY <1>1, <1>2, <1>3 DEF PlaceInv, Unfilled, Target
<1>5. Unfilled(r[2])' <=> r[2] \in stored \ selection
  BY <1>1 DEF Unfilled
<1>6. r[2] \in present \ selection => r[1] \notin slots
  BY <1>1, <1>3, <1>4 DEF HomeInv
<1> QED BY <1>1, <1>4, <1>5, <1>6 DEF Placed, PartGood, Target

\* A promoted file is opened, then filled from the slots of the verified pieces, then
\* synced; the other files stay as they are.
LEMMA PlacePromotion ==
  ASSUME TableInv, PieceInv, PlaceInv, NEW f \in File,
         CreatePromoted(f) \/ FillPromoted(f) \/ SyncPromoted(f)
  PROVE  PlaceInv'
<1> USE DEF disk, store, route, bounds
<1>1. /\ TypeOK /\ mode = "promoting" /\ mode' = "promoting" /\ doubtful' = doubtful
      /\ UNCHANGED <<slots, part, selection, retained>>
      /\ task.todo # {} /\ f = Min(task.todo)
  BY DEF TableInv, CreatePromoted, FillPromoted, SyncPromoted, Promoting
<1>2. f \in task.todo
  BY <1>1, PromotingFacts DEF CreatePromoted, FillPromoted, SyncPromoted
<1>3. task'.next = task.next /\ task'.then = task.then
  BY <1>1 DEF TypeOK, CreatePromoted, FillPromoted, SyncPromoted
<1>4. (Checking <=> Checking') /\ Excused' = Excused
  BY <1>1, <1>3 DEF Checking, Excused, TwoHomes
<1>5. verified' \cup invalid' = verified \cup invalid
  BY DEF CreatePromoted, FillPromoted, SyncPromoted, TableInv, TypeOK
<1>6. SUFFICES ASSUME NEW r \in Span, r[1] \in verified \cup invalid, r \notin Excused PROVE Placed(r)'
  BY <1>4, <1>5 DEF PlaceInv
<1>7. Placed(r)
  BY <1>1, <1>6 DEF PlaceInv
<1>8. Target' = Target
  BY <1>1, <1>3 DEF Target
<1>9. CASE CreatePromoted(f)
  <2>1. task'.todo = task.todo /\ task'.step = "fill" /\ task.step = "create"
    BY <1>1, <1>9 DEF TypeOK, CreatePromoted, Promoting
  <2>2. (Unfilled(r[2])' <=> Unfilled(r[2])) /\ ~Working(r[2]) /\ (Working(r[2])' <=> r[2] = f)
    BY <1>1, <2>1 DEF Unfilled, Working
  <2>3. present' = present \cup {f}
    BY <1>9 DEF CreatePromoted, Opened
  <2>4. r[2] # f => bytes'[r] = bytes[r]
    BY <1>9 DEF CreatePromoted, OpenedBytes
  <2>5. f \in present => bytes'[r] = bytes[r]
    BY <1>9 DEF CreatePromoted, OpenedBytes
  <2>6. Unfilled(f)
    BY <1>1, <1>2, <2>1 DEF Unfilled
  <2>7. CASE r[2] # f
    BY <1>1, <1>7, <1>8, <2>2, <2>3, <2>4, <2>7 DEF Placed, PartGood
  <2>8. CASE r[2] = f /\ f \in present
    BY <1>1, <1>7, <1>8, <2>2, <2>3, <2>5, <2>6, <2>8 DEF Placed, PartGood
  <2>9. CASE r[2] = f /\ f \notin present
    BY <1>1, <1>7, <1>8, <2>2, <2>3, <2>6, <2>9 DEF Placed, PartGood
  <2> QED BY <2>7, <2>8, <2>9
<1>10. CASE FillPromoted(f)
  <2>1. task'.todo = task.todo /\ task'.step = "sync" /\ task.step = "fill" /\ present' = present
    BY <1>1, <1>10 DEF TypeOK, FillPromoted, Promoting
  <2>2. f \in present
    BY <1>1, <2>1 DEF TableInv
  <2>3. CASE r[2] # f
    <3>1. bytes'[r] = bytes[r]
      BY <1>10, <2>3 DEF FillPromoted, SpansOf
    <3>2. (Unfilled(r[2])' <=> Unfilled(r[2])) /\ (Working(r[2])' <=> Working(r[2]))
      BY <1>1, <2>1, <2>3 DEF Unfilled, Working
    <3> QED BY <1>1, <1>7, <1>8, <2>1, <3>1, <3>2 DEF Placed, PartGood
  <2>4. CASE r[2] = f
    <3>1. Unfilled(f) /\ ~Unfilled(f)'
      BY <1>1, <1>2, <2>1 DEF Unfilled
    <3>2. r[1] \in slots => r[1] \in verified /\ part[r] = "good"
      BY <1>6, <1>7, <2>2, <2>4, <3>1 DEF PieceInv, Placed
    <3>3. r[1] \notin slots => bytes[r] = "good"
      BY <1>7, <2>2, <2>4, <3>1 DEF Placed
    <3>4. bytes'[r] = "good"
      BY <1>10, <2>4, <3>2, <3>3 DEF FillPromoted, SpansOf
    <3> QED BY <2>1, <2>2, <2>4, <3>1, <3>4 DEF Placed
  <2> QED BY <2>3, <2>4
<1>11. CASE SyncPromoted(f)
  <2>1. /\ task'.todo = task.todo \ {f} /\ task'.step = "create" /\ task.step = "sync"
        /\ present' = present /\ bytes' = bytes
    BY <1>1, <1>11 DEF TypeOK, SyncPromoted, Promoting
  <2>2. f \in present
    BY <1>1, <2>1 DEF TableInv
  <2>3. ~Unfilled(f) /\ ~Unfilled(f)'
    BY <1>1, <2>1 DEF Unfilled
  <2>4. CASE r[2] = f
    BY <1>7, <2>1, <2>2, <2>3, <2>4 DEF Placed
  <2>5. CASE r[2] # f
    <3>1. (Unfilled(r[2])' <=> Unfilled(r[2])) /\ ~Working(r[2])
      BY <1>1, <2>1, <2>5 DEF Unfilled, Working
    <3> QED BY <1>1, <1>7, <1>8, <2>1, <3>1 DEF Placed, PartGood
  <2> QED BY <2>4, <2>5
<1> QED BY <1>9, <1>10, <1>11

\* The routes change and slots are released when every selected file of a relied span
\* is there.
LEMMA PlaceRelease ==
  ASSUME TableInv, PieceInv, PlaceInv,
         \/ FinishPromotions \/ FinishReleases \/ PersistInvalidated
         \/ \E p \in Piece : ReleaseSlot(p)
  PROVE  PlaceInv'
<1> USE DEF disk, store, route, bounds
<1>1. TypeOK
  BY DEF TableInv
<1>2. CASE FinishPromotions
  <2>1. /\ mode = "promoting" /\ mode' = "releasing" /\ task.todo = {} /\ task' = task
        /\ selection' = task.next
        /\ UNCHANGED <<present, bytes, slots, part, retained, verified, invalid, doubtful>>
    BY <1>2 DEF FinishPromotions
  <2>2. (Checking <=> Checking') /\ Excused' = Excused /\ Target' = Target
    BY <2>1 DEF Checking, Excused, TwoHomes, Target
  <2>3. SUFFICES ASSUME NEW r \in Span, r[1] \in verified \cup invalid, r \notin Excused PROVE Placed(r)'
    BY <2>1, <2>2 DEF PlaceInv
  <2>4. Placed(r)
    BY <2>1, <2>3 DEF PlaceInv
  <2>5. ~Unfilled(r[2]) /\ ~Unfilled(r[2])'
    BY <2>1 DEF Unfilled
  <2> QED BY <2>1, <2>2, <2>4, <2>5 DEF Placed, PartGood
<1>3. CASE FinishReleases
  <2>1. /\ mode = "releasing" /\ mode' = task.then
        /\ mode' \in {"persist", "running", "finalizing"}
        /\ UNCHANGED <<present, bytes, slots, part, selection, retained, verified, invalid, doubtful>>
    BY <1>3 DEF FinishReleases, TableInv
  <2>2. (Checking <=> Checking') /\ Excused' = Excused /\ Target' = Target
    BY <2>1 DEF Checking, Excused, TwoHomes, Target
  <2>3. SUFFICES ASSUME NEW r \in Span, r[1] \in verified \cup invalid, r \notin Excused PROVE Placed(r)'
    BY <2>1, <2>2 DEF PlaceInv
  <2>4. Placed(r)
    BY <2>1, <2>3 DEF PlaceInv
  <2>5. ~Unfilled(r[2]) /\ ~Unfilled(r[2])'
    BY <2>1 DEF Unfilled
  <2> QED BY <2>1, <2>2, <2>4, <2>5 DEF Placed, PartGood
<1>4. CASE PersistInvalidated
  <2>1. /\ mode = "persist" /\ mode' = "running" /\ invalid' = {}
        /\ UNCHANGED <<present, bytes, slots, part, selection, retained, verified, doubtful>>
    BY <1>4 DEF PersistInvalidated
  <2>2. ~Checking /\ ~Checking' /\ Excused' = Excused /\ Target' = Target
    BY <2>1 DEF Checking, Excused, Target
  <2>3. SUFFICES ASSUME NEW r \in Span, r[1] \in verified, r \notin Excused PROVE Placed(r)'
    BY <2>1, <2>2 DEF PlaceInv
  <2>4. Placed(r)
    BY <2>1, <2>3 DEF PlaceInv
  <2>5. ~Unfilled(r[2]) /\ ~Unfilled(r[2])'
    BY <2>1 DEF Unfilled
  <2> QED BY <2>1, <2>2, <2>4, <2>5 DEF Placed, PartGood
<1>5. ASSUME NEW p \in Piece, ReleaseSlot(p) PROVE PlaceInv'
  <2>1. /\ mode = "releasing" /\ mode' = "releasing" /\ slots' = slots \ {p} /\ task' = task
        /\ FilesOf(p) \subseteq selection
        /\ UNCHANGED <<present, bytes, part, selection, retained, verified, invalid, doubtful>>
    BY <1>5 DEF ReleaseSlot, Unused, RequiresPart
  <2>2. TwoHomes(retained)' = TwoHomes(retained)
    <3>1. retained \cap selection = {}
      BY <2>1 DEF TableInv, Target
    <3>2. ASSUME NEW s \in Span, s[1] = p PROVE s[2] \notin retained
      BY <2>1, <3>1, <3>2, SpanFacts DEF FilesOf
    <3> QED BY <2>1, <3>2 DEF TwoHomes
  <2>3. (Checking <=> Checking') /\ Excused' = Excused /\ Target' = Target
    BY <2>1, <2>2 DEF Checking, Excused, Target
  <2>4. SUFFICES ASSUME NEW r \in Span, r[1] \in verified \cup invalid, r \notin Excused PROVE Placed(r)'
    BY <2>1, <2>3 DEF PlaceInv
  <2>5. Placed(r)
    BY <2>1, <2>4 DEF PlaceInv
  <2>6. ~Unfilled(r[2]) /\ ~Unfilled(r[2])' /\ Target = selection
    BY <2>1 DEF Unfilled, Target
  <2>7. r[1] = p => r[2] \in selection
    BY <2>1, SpanFacts DEF FilesOf
  <2> QED BY <2>1, <2>3, <2>5, <2>6, <2>7 DEF Placed, PartGood
<1> QED BY <1>2, <1>3, <1>4, <1>5

\* A resume that takes the committed bits as they are finds the bytes where a death or a
\* stop left them, and promotes every selected file that is missing.
LEMMA PlaceAccept ==
  ASSUME TableInv, PieceInv, DurableInv, AcceptResume
  PROVE  PlaceInv'
<1> USE DEF disk, store, route, bounds
<1>1. /\ TypeOK /\ mode = "down" /\ ~pendingCheck /\ mode' = "promoting" /\ doubtful \subseteq doubtful'
      /\ UNCHANGED <<present, bytes, slots, part>>
      /\ verified' = committed /\ invalid' = {} /\ task'.next = stored
      /\ task'.todo = Restorable(stored \ present, committed)
      /\ task'.step = "create" /\ task'.then = "running"
  BY DEF TableInv, PieceInv, AcceptResume, Restore, Reopen
<1>2. ~Checking' /\ Excused' = doubtful' /\ Target' = stored
  BY <1>1 DEF Checking, Excused, Target
<1>3. SUFFICES ASSUME NEW r \in Span, r[1] \in committed, r \notin doubtful PROVE Placed(r)'
  BY <1>1, <1>2 DEF PlaceInv
<1>4. Durable(r) /\ ~Working(r[2])
  BY <1>1, <1>3 DEF DurableInv, Working
<1>5. Unfilled(r[2])' <=> r[2] \in Restorable(stored \ present, committed)
  BY <1>1 DEF Unfilled
<1>6. r[2] \in stored \ present => r[2] \in Restorable(stored \ present, committed)
  BY <1>3, <1>4, SpanFacts DEF Durable, PartGood, Restorable, PiecesOf
<1>7. r[2] \in present => r[2] \notin Restorable(stored \ present, committed)
  BY DEF Restorable
<1> QED BY <1>1, <1>2, <1>4, <1>5, <1>6, <1>7 DEF Durable, Placed, PartGood

\* A check finds a piece only if every span of it is good where the check reads it.
LEMMA PlaceCheck ==
  ASSUME TableInv, PieceInv, CheckPieces
  PROVE  PlaceInv'
<1> USE DEF disk, store, route, bounds
<1> DEFINE found == {p \in Piece : HasSources(p) /\ Readable(p)}
<1>1. /\ TypeOK /\ mode = "checking" /\ mode' = "promoting"
      /\ UNCHANGED <<present, bytes, slots, part, selection, retained>>
      /\ verified' = found /\ invalid' = {} /\ task'.next = selection
      /\ task'.todo = Restorable(pending, found)
      /\ task'.step = "create" /\ task'.then = "finalizing"
  BY DEF TableInv, PieceInv, CheckPieces, Restore
<1>2. Checking' /\ Excused' = TwoHomes(retained) /\ Target' = selection
  BY <1>1 DEF Checking, Excused, TwoHomes, Target
<1>3. SUFFICES ASSUME NEW r \in Span, r[1] \in found, r \notin TwoHomes(retained) PROVE Placed(r)'
  BY <1>1, <1>2 DEF PlaceInv
<1>4. Read(r) = "good" /\ (ReadsPart(r) \/ ReadsFile(r))
  BY <1>3, SpanFacts DEF Readable, HasSources, FilesOf
<1>5. Unfilled(r[2])' <=> r[2] \in Restorable(pending, found)
  BY <1>1 DEF Unfilled
<1>6. ReadsPart(r) /\ r[2] \in selection => r[2] \in Restorable(pending, found)
  <2> HIDE DEF found
  <2> QED BY <1>3, SpanFacts DEF ReadsPart, Restorable, PiecesOf
<1>7. r[2] \in Restorable(pending, found) => r[2] \in selection \ present
  BY <1>1 DEF Restorable, TableInv
<1>8. r[2] \in present \ selection => r[2] \in retained
  BY <1>1 DEF TableInv, Target
<1>9. CASE ReadsPart(r)
  <2>1. PartGood(r) /\ r[2] \notin present
    BY <1>3, <1>4, <1>6, <1>7, <1>8, <1>9 DEF Read, ReadsPart, PartGood, TwoHomes
  <2> QED BY <1>1, <1>2, <1>5, <1>6, <1>9, <2>1 DEF Placed, PartGood
<1>10. CASE ~ReadsPart(r)
  <2>1. r[2] \in present /\ bytes[r] = "good"
    BY <1>4, <1>10 DEF Read, ReadsFile
  <2> QED BY <1>1, <1>5, <1>7, <2>1 DEF Placed
<1> QED BY <1>9, <1>10

\* A span that is relied on is where the run looks for it, or will be.
LEMMA PlaceStep ==
  ASSUME StorageInv, [Next]_vars
  PROVE  PlaceInv'
<1> USE DEF disk, store, route, bounds
<1>0. TableInv /\ PieceInv /\ HomeInv /\ PlaceInv /\ DurableInv
  BY DEF StorageInv
<1>1. ASSUME FinishCheck PROVE PlaceInv'
  <2>1. /\ mode = "finalizing" /\ mode' = "running" /\ invalid = {}
        /\ UNCHANGED <<present, bytes, slots, part, selection, retained, verified, invalid>>
    BY <1>0, <1>1 DEF FinishCheck, PieceInv
  <2>2. Checking /\ ~Checking' /\ Target' = Target /\ Excused \subseteq Excused'
    BY <1>1, <2>1 DEF FinishCheck, Checking, Excused, Target
  <2>3. SUFFICES ASSUME NEW r \in Span, r[1] \in verified, r \notin Excused PROVE Placed(r)'
    BY <2>1, <2>2 DEF PlaceInv
  <2>4. Placed(r)
    BY <1>0, <2>1, <2>3 DEF PlaceInv
  <2>5. ~Unfilled(r[2]) /\ ~Unfilled(r[2])'
    BY <2>1 DEF Unfilled
  <2> QED BY <2>1, <2>2, <2>4, <2>5 DEF Placed, PartGood
<1>2. ASSUME BeginCheck \/ Down PROVE PlaceInv'
  BY <1>2 DEF BeginCheck, Down, PlaceInv
<1>3. ASSUME UNCHANGED vars \/ \E S \in SUBSET File : ChangeSelection(S) PROVE PlaceInv'
  <2>1. UNCHANGED <<present, bytes, slots, part, mode, selection, retained, verified, invalid,
                    task, doubtful>>
    BY <1>3 DEF vars, ChangeSelection
  <2>2. \A r \in Span : Placed(r)' <=> Placed(r)
    BY <2>1 DEF Placed, PartGood, Unfilled, Working, Target
  <2>3. Excused' = Excused
    BY <2>1 DEF Excused, Checking, TwoHomes
  <2> QED BY <1>0, <2>1, <2>2, <2>3 DEF PlaceInv
<1> QED BY <1>0, <1>1, <1>2, <1>3, PlaceDownload, PlaceVerified, PlaceReconcile, PlacePromotion,
           PlaceRelease, PlaceAccept, PlaceCheck
        DEF Next, Download, Reconcile, Resume, FailCheck, Die, Stop

-----------------------------------------------------------------------------
(* What a death leaves. *)

\* A death takes nothing a committed span depends on, except from the file that is being
\* promoted, whose spans become doubtful.
LEMMA DurableDeath ==
  ASSUME TableInv, SyncInv, DurableInv, NEW lost \in SUBSET unsynced, Die(lost)
  PROVE  DurableInv'
<1> USE DEF disk, store, route, bounds
<1>1. SUFFICES ASSUME ~pendingCheck, NEW r \in Span, r[1] \in committed, r \notin doubtful'
               PROVE  Durable(r)'
  BY DEF DurableInv, Die
<1>2. doubtful \subseteq doubtful' /\ ~Working(r[2])
  BY <1>1, SpanFacts DEF Die, Working, SpansOf
<1>3. Durable(r)
  BY <1>1, <1>2 DEF DurableInv
<1>4. CASE r[2] \in present
  <2>1. bytes[r] = "good" /\ <<"file", r>> \notin unsynced
    BY <1>2, <1>3, <1>4 DEF Durable
  <2>2. <<"new", r[2]>> \notin unsynced
    BY <2>1 DEF SyncInv
  <2>3. r[2] \in present' /\ bytes'[r] = "good" /\ <<"file", r>> \notin unsynced'
    BY <1>4, <2>1, <2>2 DEF Die
  <2> QED BY <2>3 DEF Durable
<1>5. CASE r[2] \notin present
  <2>1. PartGood(r) /\ <<"slot", r[1]>> \notin unsynced /\ <<"part", r>> \notin unsynced
    BY <1>1, <1>3, <1>5 DEF Durable, PartGood, SyncInv
  <2>2. r[2] \notin present' /\ PartGood(r)'
    BY <1>5, <2>1 DEF Die, PartGood
  <2> QED BY <2>2 DEF Durable
<1> QED BY <1>4, <1>5

\* What is committed is durable before it is committed, and stays so.
LEMMA DurableStep ==
  ASSUME StorageInv, [Next]_vars
  PROVE  DurableInv'
<1> USE DEF disk, store, route, bounds
<1>0. /\ TableInv /\ SlotInv /\ PieceInv /\ HomeInv /\ SyncInv /\ PlaceInv /\ DurableInv
      /\ TypeOK
  BY DEF StorageInv, TableInv
<1>1. ASSUME NEW s \in Span, NEW content \in {"good", "junk"},
             WriteFile(s, content) \/ WritePart(s, content)
      PROVE  DurableInv'
  <2>1. /\ mode = "running" /\ mode' = "running" /\ doubtful \subseteq doubtful'
        /\ committed' = committed /\ committed \subseteq verified /\ s[1] \notin verified
        /\ ~Checking
    BY <1>0, <1>1 DEF WriteFile, WritePart, PieceInv, Checking
  <2>2. SUFFICES ASSUME ~pendingCheck, NEW r \in Span, r[1] \in committed, r \notin doubtful
                 PROVE  Durable(r)'
    BY <1>1, <2>1 DEF DurableInv, WriteFile, WritePart
  <2>3. Durable(r) /\ Placed(r) /\ ~Working(r[2]) /\ ~Unfilled(r[2]) /\ Target = selection
    BY <1>0, <2>1, <2>2 DEF DurableInv, PlaceInv, Excused, Working, Unfilled, Target
  <2>4. r[1] # s[1] /\ r # s
    BY <2>1, <2>2
  <2>5. CASE WriteFile(s, content)
    <3>1. r[2] = s[2] => r[2] \in present
      BY <2>3, <2>5 DEF Placed, WriteFile
    <3>2. bytes'[r] = bytes[r] /\ (r[2] \in present' <=> r[2] \in present)
      BY <1>0, <2>4, <2>5, <3>1 DEF TypeOK, WriteFile, OpenedBytes, Opened
    <3>3. <<"file", r>> \in unsynced' <=> <<"file", r>> \in unsynced
      BY <2>4, <2>5 DEF WriteFile, OpenedNew
    <3> QED BY <2>3, <2>5, <3>2, <3>3 DEF WriteFile, Durable, PartGood
  <2>6. CASE WritePart(s, content)
    <3>1. part'[r] = part[r] /\ (r[1] \in slots' <=> r[1] \in slots)
      BY <1>0, <2>4, <2>6 DEF TypeOK, WritePart
    <3>2. <<"file", r>> \in unsynced' <=> <<"file", r>> \in unsynced
      BY <2>6 DEF WritePart
    <3> QED BY <2>3, <2>6, <3>1, <3>2 DEF WritePart, Durable, PartGood
  <2> QED BY <1>1, <2>5, <2>6
<1>2. ASSUME NEW p \in Piece, CheckpointPiece(p) PROVE DurableInv'
  <2>1. /\ mode = "running" /\ mode' = "running" /\ p \in verified \ committed /\ ~Checking
        /\ unsynced' = unsynced \ Synced({p})
        /\ UNCHANGED <<present, bytes, slots, part, doubtful, task>>
    BY <1>2 DEF CheckpointPiece, Checking
  <2>2. SUFFICES ASSUME ~pendingCheck, NEW r \in Span, r[1] \in committed \cup {p}, r \notin doubtful
                 PROVE  Durable(r)'
    BY <1>2, <2>1 DEF DurableInv, CheckpointPiece
  <2>3. ~Working(r[2])
    BY <2>1 DEF Working
  <2>4. CASE r[1] \in committed
    <3>1. Durable(r)
      BY <1>0, <2>2, <2>4 DEF DurableInv
    <3> QED BY <2>1, <2>3, <3>1 DEF Durable, PartGood
  <2>5. CASE r[1] = p
    <3>1. Placed(r) /\ ~Unfilled(r[2]) /\ Target = selection
      BY <1>0, <2>1, <2>2, <2>5 DEF PlaceInv, Excused, Unfilled, Target
    <3>2. r[2] \in present => r[2] \in selection
      <4>1. SUFFICES ASSUME r[2] \in present \ selection PROVE FALSE
        OBVIOUS
      <4>2. RequiresPart(p)
        BY <2>5, <4>1, SpanFacts DEF RequiresPart, FilesOf
      <4> QED BY <1>0, <2>1, <2>2, <2>5, <3>1, <4>1, <4>2 DEF PieceInv, HomeInv
    <3>3. r[2] \in present => <<"file", r>> \notin unsynced'
      <4>1. r[2] \in present => r[2] \in selection \cap UNION {FilesOf(q) : q \in {p}}
        <5>1. r[2] \in FilesOf(p)
          BY <2>5, SpanFacts DEF FilesOf
        <5>2. FilesOf(p) \in {FilesOf(q) : q \in {p}}
          BY Zenon
        <5>3. r[2] \in UNION {FilesOf(q) : q \in {p}}
          BY <5>1, <5>2, Zenon
        <5> QED BY <3>2, <5>3, Zenon
      <4>2. ASSUME r[2] \in present, <<"file", r>> \in unsynced PROVE <<"file", r>> \in Synced({p})
        BY <4>1, <4>2 DEF Synced
      <4> QED BY <2>1, <4>2
    <3> QED BY <2>1, <3>1, <3>3 DEF Placed, Durable, PartGood
  <2> QED BY <2>2, <2>4, <2>5
<1>3. ASSUME NEW p \in Piece, ReleaseSlot(p) PROVE DurableInv'
  <2>1. /\ mode = "releasing" /\ mode' = "releasing" /\ slots' = slots \ {p} /\ task' = task
        /\ FilesOf(p) \subseteq selection /\ unsynced' \subseteq unsynced
        /\ UNCHANGED <<present, bytes, part, committed, doubtful, pendingCheck>>
    BY <1>3 DEF ReleaseSlot, Unused, RequiresPart
  <2>2. SUFFICES ASSUME ~pendingCheck, NEW r \in Span, r[1] \in committed, r \notin doubtful
                 PROVE  Durable(r)'
    BY <2>1 DEF DurableInv
  <2>3. ~Checking /\ r[1] \in verified \cup invalid
    BY <1>0, <2>1, <2>2 DEF TableInv, PieceInv
  <2>4. Durable(r) /\ Placed(r) /\ ~Unfilled(r[2]) /\ ~Working(r[2]) /\ Target = selection
    BY <1>0, <2>1, <2>2, <2>3 DEF DurableInv, PlaceInv, Excused, Unfilled, Working, Target
  <2>5. r[1] = p => r[2] \in present
    BY <2>1, <2>4, SpanFacts DEF Placed, FilesOf
  <2> QED BY <2>1, <2>4, <2>5 DEF Durable, PartGood
<1>4. ASSUME NEW f \in File, CreatePromoted(f) PROVE DurableInv'
  <2>1. /\ mode = "promoting" /\ mode' = "promoting" /\ task.todo # {} /\ f = Min(task.todo)
        /\ task'.todo = task.todo /\ task'.step = "fill" /\ task.step = "create"
        /\ present' = present \cup {f}
        /\ UNCHANGED <<slots, part, committed, doubtful, pendingCheck>>
    BY <1>0, <1>4 DEF TypeOK, CreatePromoted, Promoting, Opened
  <2>2. SUFFICES ASSUME ~pendingCheck, NEW r \in Span, r[1] \in committed, r \notin doubtful
                 PROVE  Durable(r)'
    BY <2>1 DEF DurableInv
  <2>3. Durable(r) /\ ~Working(r[2]) /\ (Working(r[2])' <=> r[2] = f)
    BY <1>0, <2>1, <2>2 DEF DurableInv, Working
  <2>4. r[2] # f => bytes'[r] = bytes[r] /\ (<<"file", r>> \in unsynced' <=> <<"file", r>> \in unsynced)
    BY <1>4 DEF CreatePromoted, OpenedBytes, OpenedNew
  <2> QED BY <2>1, <2>3, <2>4 DEF Durable, PartGood
<1>5. ASSUME NEW f \in File, FillPromoted(f) PROVE DurableInv'
  <2>1. /\ mode = "promoting" /\ mode' = "promoting" /\ task.todo # {} /\ f = Min(task.todo)
        /\ task'.todo = task.todo /\ task'.step = "sync" /\ task.step = "fill"
        /\ UNCHANGED <<present, slots, part, committed, doubtful, pendingCheck>>
    BY <1>0, <1>5 DEF TypeOK, FillPromoted, Promoting
  <2>2. SUFFICES ASSUME ~pendingCheck, NEW r \in Span, r[1] \in committed, r \notin doubtful
                 PROVE  Durable(r)'
    BY <2>1 DEF DurableInv
  <2>3. Durable(r) /\ (Working(r[2]) <=> r[2] = f) /\ (Working(r[2])' <=> r[2] = f)
    BY <1>0, <2>1, <2>2 DEF DurableInv, Working
  <2>4. r[2] # f => bytes'[r] = bytes[r] /\ (<<"file", r>> \in unsynced' <=> <<"file", r>> \in unsynced)
    BY <1>5 DEF FillPromoted, SpansOf
  <2> QED BY <2>1, <2>3, <2>4 DEF Durable, PartGood
<1>6. ASSUME NEW f \in File, SyncPromoted(f) PROVE DurableInv'
  <2>1. /\ mode = "promoting" /\ mode' = "promoting" /\ task.todo # {} /\ f = Min(task.todo)
        /\ task'.step = "create" /\ task.step = "sync"
        /\ unsynced' = unsynced \ FileSynced(f)
        /\ UNCHANGED <<present, bytes, slots, part, committed, doubtful, pendingCheck>>
    BY <1>0, <1>6 DEF TypeOK, SyncPromoted, Promoting
  <2>2. SUFFICES ASSUME ~pendingCheck, NEW r \in Span, r[1] \in committed, r \notin doubtful
                 PROVE  Durable(r)'
    BY <2>1 DEF DurableInv
  <2>3. ~Checking /\ r[1] \in verified \cup invalid
    BY <1>0, <2>1, <2>2 DEF TableInv, PieceInv
  <2>4. Durable(r) /\ Placed(r) /\ (Working(r[2]) <=> r[2] = f)
    BY <1>0, <2>1, <2>2, <2>3 DEF DurableInv, PlaceInv, Excused, Working
  <2>5. r[2] = f => ~Unfilled(r[2]) /\ <<"file", r>> \notin unsynced'
    BY <2>1 DEF Unfilled, FileSynced
  <2> QED BY <2>1, <2>4, <2>5 DEF Durable, Placed, PartGood
<1>7. ASSUME FinishCheck PROVE DurableInv'
  <2>1. /\ mode = "finalizing" /\ mode' = "running" /\ committed' = verified
        /\ TwoHomes(retained) \subseteq doubtful'
        /\ {s \in Span : s[1] \in verified /\ <<"file", s>> \in unsynced'} \subseteq doubtful'
        /\ UNCHANGED <<present, bytes, slots, part>>
    BY <1>7 DEF FinishCheck
  <2>2. SUFFICES ASSUME NEW r \in Span, r[1] \in verified, r \notin doubtful' PROVE Durable(r)'
    BY <2>1 DEF DurableInv
  <2>3. Excused = TwoHomes(retained) /\ ~Unfilled(r[2])
    BY <2>1 DEF Excused, Checking, Unfilled
  <2>4. Placed(r)
    BY <1>0, <2>1, <2>2, <2>3 DEF PlaceInv
  <2>5. <<"file", r>> \notin unsynced'
    BY <2>1, <2>2
  <2> QED BY <2>1, <2>3, <2>4, <2>5 DEF Durable, Placed, PartGood
<1>8. ASSUME \/ \E p \in Piece : RecordVerified(p)
             \/ \E force \in BOOLEAN : Stop(force)
             \/ \E S \in SUBSET File : ChangeSelection(S)
             \/ BeginReconcile \/ FinishPromotions \/ FinishReleases \/ PersistInvalidated
             \/ AcceptResume \/ BeginCheck \/ CheckPieces \/ FailCheck \/ UNCHANGED vars
      PROVE  DurableInv'
  <2>1. /\ UNCHANGED disk /\ doubtful \subseteq doubtful' /\ committed' \subseteq committed
        /\ (pendingCheck => pendingCheck')
    <3>1. UNCHANGED disk /\ doubtful \subseteq doubtful'
      BY <1>8 DEF vars, RecordVerified, Stop, ChangeSelection, BeginReconcile, FinishPromotions,
                  FinishReleases, PersistInvalidated, AcceptResume, BeginCheck, CheckPieces,
                  FailCheck, Reopen
    <3>2. committed' \subseteq committed
      BY <1>8 DEF vars, RecordVerified, Stop, ChangeSelection, BeginReconcile, FinishPromotions,
                  FinishReleases, PersistInvalidated, AcceptResume, BeginCheck, CheckPieces,
                  FailCheck
    <3>3. pendingCheck => pendingCheck'
      BY <1>8 DEF vars, RecordVerified, Stop, ChangeSelection, BeginReconcile, FinishPromotions,
                  FinishReleases, PersistInvalidated, AcceptResume, BeginCheck, CheckPieces,
                  FailCheck
    <3> QED BY <3>1, <3>2, <3>3
  <2>2. \A f : Working(f) => Working(f)'
    <3>1. CASE mode # "promoting"
      BY <3>1 DEF Working
    <3>2. CASE FinishPromotions
      BY <3>2, <1>0 DEF FinishPromotions, TableInv, Working
    <3>3. CASE mode = "promoting" /\ ~FinishPromotions
      <4>1. mode' = mode /\ task' = task
        BY <1>8, <3>3 DEF vars, RecordVerified, Stop, ChangeSelection, BeginReconcile,
                FinishReleases, PersistInvalidated, AcceptResume, BeginCheck, CheckPieces, FailCheck
      <4> QED BY <4>1 DEF Working
    <3> QED BY <3>1, <3>2, <3>3
  <2>3. \A r \in Span : Durable(r) => Durable(r)'
    BY <2>1, <2>2 DEF Durable, PartGood
  <2> QED BY <1>0, <2>1, <2>3 DEF DurableInv
<1> QED BY <1>0, <1>1, <1>2, <1>3, <1>4, <1>5, <1>6, <1>7, <1>8, DurableDeath
        DEF Next, Download, Reconcile, Resume

-----------------------------------------------------------------------------
(* The theorems. *)

\* The invariant holds of every selection the store may start with.
LEMMA StorageInit == Init => StorageInv
<1> SUFFICES ASSUME Init PROVE StorageInv
  OBVIOUS
<1>1. TypeOK
  <2>1. bytes \in [Span -> {"good", "junk"}] /\ part \in [Span -> {"good", "junk"}]
    BY DEF Init
  <2>2. changes \in 0..MaxChanges /\ deaths \in 0..MaxDeaths
    BY LayoutAssumption DEF Init
  <2>3. task \in [next : SUBSET File, todo : SUBSET File, step : {"create", "fill", "sync"},
                  unsourced : SUBSET File, then : {"run", "persist", "running", "finalizing"}]
    BY DEF Init, NoTask
  <2> QED BY <2>1, <2>2, <2>3 DEF Init, TypeOK
<1>2. TableInv /\ SlotInv /\ PieceInv /\ HomeInv /\ SyncInv
  BY <1>1 DEF Init, TableInv, SlotInv, PieceInv, HomeInv, SyncInv, Checking, Target
<1>3. PlaceInv /\ DurableInv
  BY DEF Init, PlaceInv, DurableInv
<1> QED BY <1>2, <1>3 DEF StorageInv

\* The invariant holds in every reachable state.
LEMMA StorageInvariant == Spec => []StorageInv
<1>1. StorageInv /\ [Next]_vars => StorageInv'
  BY TableStep, SlotStep, PieceStep, HomeStep, SyncStep, PlaceStep, DurableStep DEF StorageInv
<1> QED BY <1>1, StorageInit, PTL DEF Spec

\* Whatever was selected in between and wherever the process died, each span of a
\* committed piece that has one home is good where the running torrent reads it.
THEOREM CommittedAlwaysReadable == Spec => []CommittedIsReadable
<1>1. StorageInv => CommittedIsReadable
  <2> SUFFICES ASSUME StorageInv, mode = "running",
                      NEW s \in Span, s[1] \in committed, s \notin doubtful
               PROVE  Read(s) = "good"
    BY DEF CommittedIsReadable
  <2>1. TableInv /\ PieceInv /\ HomeInv /\ PlaceInv
    BY DEF StorageInv
  <2>2. ~Checking /\ Target = selection /\ pending = {} /\ ~Unfilled(s[2])
    BY <2>1 DEF Checking, Target, TableInv, Unfilled
  <2>3. Placed(s)
    BY <2>1, <2>2 DEF PieceInv, PlaceInv, Excused
  <2>4. CASE ReadsPart(s)
    BY <2>1, <2>2, <2>3, <2>4, SpanFacts DEF ReadsPart, Read, HomeInv, Placed, PartGood
  <2>5. CASE ~ReadsPart(s)
    <3>1. s[2] \in present
      BY <2>2, <2>3, <2>5 DEF Placed, PartGood, ReadsPart
    <3>2. ReadsFile(s)
      BY <2>1, <2>2, <3>1 DEF ReadsFile, TableInv
    <3> QED BY <2>2, <2>3, <2>5, <3>1, <3>2 DEF Read, Placed
  <2> QED BY <2>4, <2>5
<1> QED BY <1>1, StorageInvariant, PTL

\* Each file is in files or in skipped_sources, never in both, and the part file of a
\* running torrent holds only slots that a skipped file needs.
THEOREM RoutesAlwaysSound == Spec => []RoutesSound
<1>1. StorageInv => RoutesSound
  BY DEF StorageInv, TableInv, SlotInv, RoutesSound, NoStraySlots
<1> QED BY <1>1, StorageInvariant, PTL
=============================================================================
