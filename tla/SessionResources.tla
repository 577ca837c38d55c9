-------------------------- MODULE SessionResources --------------------------
(***************************************************************************)
(* The session-wide download budgets that all torrents share:              *)
(* SessionDownloadResources, FairTryAdmission and TorrentResourceUsage of  *)
(* crates/rstorrent-engine/src/session_resources.rs, with the reservations *)
(* SwarmState::assign makes and the payload buffer of driver/control.rs.   *)
(*                                                                         *)
(* Every budget is a session counter and, per torrent, a usage counter.    *)
(* Each is its own atomic, so a reservation or a release is several steps: *)
(* reserve in the session, then in the usage; release in the usage, then   *)
(* in the session.  The steps of different torrents interleave, and the    *)
(* payload steps of a torrent interleave with its request steps.           *)
(*                                                                         *)
(* Abstractions.  The compare-and-swap loop of try_reserve is one step, as *)
(* is the pair of session counters of a piece, reserved under a mutex.     *)
(* All blocks of a torrent have one length, all its pieces one size.  A    *)
(* torrent `wants` a request while its scheduler finds a block some peer   *)
(* may be asked for; nothing obliges it to keep wanting one (its peers may *)
(* choke it or leave).  High-water marks and snapshots are left out.  What *)
(* follows a panic of try_admit is left out too: the torrent stops there.  *)
(***************************************************************************)
EXTENDS Integers, Sequences, FiniteSets, SequencesExt, FiniteSetsExt

CONSTANTS
  Torrent,       \* registration keys, "torrent:generation"
  BlockBytes,    \* [Torrent -> length of a block]
  PieceBytes,    \* [Torrent -> working set of a piece]
  Quantum,       \* BYTE_ADMISSION_QUANTUM
  MaxRequest, MaxPayload, MaxPieceBytes, MaxPieces, \* DownloadResourceLimits
  MaxHeld,       \* model bound: requests one torrent holds
  MaxLocal       \* model bound: pieces, and payload blocks, one torrent holds

ASSUME TorrentAssumption ==
  /\ IsFiniteSet(Torrent)
  /\ BlockBytes \in [Torrent -> Nat \ {0}] /\ PieceBytes \in [Torrent -> Nat \ {0}]
ASSUME BudgetAssumption ==
  {Quantum, MaxRequest, MaxPayload, MaxPieceBytes, MaxPieces, MaxHeld, MaxLocal} \subseteq Nat \ {0}

VARIABLES
  session,   \* the session counters
  usage,     \* [Torrent -> TorrentResourceUsage counters]
  request,   \* FairTryState of request_admission
  piece,     \* FairTryState of active_piece_admission
  handle,    \* [Torrent -> new, live, dropping or gone]
  wants,     \* torrents whose scheduler has a block to request
  step,      \* [Torrent -> where its swarm is inside a reservation or release]
  buffer,    \* [Torrent -> where its payload path is]
  heldRequests, heldPieces, heldPayload \* what the torrent's own owners committed

vars == <<session, usage, request, piece, handle, wants, step, buffer,
          heldRequests, heldPieces, heldPayload>>

Budget == {"request", "payload", "pieceBytes", "pieces"}
Limit == [b \in Budget |-> CASE b = "request" -> MaxRequest [] b = "payload" -> MaxPayload
                             [] b = "pieceBytes" -> MaxPieceBytes [] OTHER -> MaxPieces]
Steps == {"idle", "requestTry", "requestTryFirst", "requestTaken", "requestTakenFirst",
          "pieceTry", "pieceTaken", "requestReturned", "pieceReturned", "pieceBytesReturned",
          "requestPanic", "piecePanic"}
Nobody == [queue |-> <<>>, costs |-> [t \in Torrent |-> 0], deficits |-> [t \in Torrent |-> 0]]

(***************************************************************************)
(* FairTryAdmission: byte-cost deficit round robin over the torrents that  *)
(* asked and were not served.  A torrent has a cost while it is queued.    *)
(***************************************************************************)
Rotated(q, n) == [i \in DOMAIN q |-> q[((i - 1 + n) % Len(q)) + 1]]

Credited(s, t) ==
  LET cost == s.costs[t] IN Min({s.deficits[t] + Quantum, cost + Quantum})

\* FairTryState::advance: a lone waiter is given its cost; a front waiter with enough
\* credit stays; otherwise waiters are credited in turn until one can pay.
Advance(s) ==
  LET q == s.queue
      able == {i \in DOMAIN q : Credited(s, q[i]) >= s.costs[q[i]]}
      last == IF able = {} THEN Len(q) ELSE Min(able)
  IN IF Len(q) = 1
     THEN [s EXCEPT !.deficits[q[1]] = Max({@, s.costs[q[1]]})]
     ELSE IF q # <<>> /\ s.deficits[q[1]] >= s.costs[q[1]]
     THEN s
     ELSE [s EXCEPT !.queue = Rotated(q, IF able = {} THEN 0 ELSE last - 1),
                    !.deficits = [t \in Torrent |-> IF \E i \in 1..last : q[i] = t
                                                    THEN Credited(s, t) ELSE @[t]]]

\* mutant: a waiter that asks again goes to the back
AskedFromBack(s, t, cost) ==
  Advance([s EXCEPT !.queue = Append(SelectSeq(s.queue, LAMBDA u : u # t), t), !.costs[t] = cost])

\* FairTryAdmission::try_admit up to the test of the front waiter.
Asked(s, t, cost) ==
  Advance([s EXCEPT !.queue = IF s.costs[t] # 0 THEN @ ELSE Append(@, t), !.costs[t] = cost])

Granted(s) ==
  LET t == Head(s.queue)
  IN [s EXCEPT !.queue = Tail(@), !.costs[t] = 0, !.deficits[t] = @ - s.costs[t]]

\* FairTryAdmission::try_admit: the outcome for t, when `fits` tells whether the session
\* counters take the amount.  The front waiter may be short of credit: with two waiters or
\* more a turn of credits that enables none leaves the queue as it was.  The amount is then
\* reserved, the waiter popped, and the checked subtraction of its cost panics.
Admit(s, t, cost, fits) ==
  LET now == Asked(s, t, cost)
  IN IF Head(now.queue) # t THEN [outcome |-> "refused", state |-> now]
     ELSE IF ~fits THEN [outcome |-> "refused", state |-> [now EXCEPT !.queue = Rotated(@, 1)]]
     ELSE IF now.deficits[t] >= cost THEN [outcome |-> "granted", state |-> Granted(now)]
     ELSE [outcome |-> "panic", state |-> [now EXCEPT !.queue = Tail(@), !.costs[t] = 0]]

\* mutant: a removed registration leaves its cost behind
ForgetQueueOnly(s, t) == [s EXCEPT !.queue = SelectSeq(s.queue, LAMBDA u : u # t)]

\* FairTryAdmission::remove; a key is queued at most once.
Forget(s, t) ==
  [queue |-> RemoveFirst(s.queue, t),
   costs |-> [s.costs EXCEPT ![t] = 0], deficits |-> [s.deficits EXCEPT ![t] = 0]]

Fits(b, amount) == session[b] + amount <= Limit[b]

Init ==
  /\ session = [b \in Budget |-> 0]
  /\ usage = [t \in Torrent |-> [b \in Budget |-> 0]]
  /\ request = Nobody /\ piece = Nobody
  /\ handle = [t \in Torrent |-> "new"]
  /\ wants = {}
  /\ step = [t \in Torrent |-> "idle"]
  /\ buffer = [t \in Torrent |-> "idle"]
  /\ heldRequests = [t \in Torrent |-> 0]
  /\ heldPieces = [t \in Torrent |-> 0]
  /\ heldPayload = [t \in Torrent |-> 0]

held == <<heldRequests, heldPieces, heldPayload>>
admission == <<request, piece>>

Register(t) ==
  /\ handle[t] = "new"
  /\ handle' = [handle EXCEPT ![t] = "live"]
  /\ UNCHANGED <<session, usage, admission, wants, step, buffer, held>>

FindWork(t) ==
  /\ handle[t] = "live" /\ t \notin wants
  /\ wants' = wants \cup {t}
  /\ UNCHANGED <<session, usage, admission, handle, step, buffer, held>>

\* The last peer that could be asked chokes the torrent or leaves.
LoseWork(t) ==
  /\ t \in wants /\ step[t] = "idle"
  /\ wants' = wants \ {t}
  /\ UNCHANGED <<session, usage, admission, handle, step, buffer, held>>

Ready(t) == handle[t] = "live" /\ step[t] = "idle" /\ t \in wants

\* can_activate_piece: a torrent without an active piece does not look at the session.
MayActivate(t) ==
  \/ heldPieces[t] = 0
  \/ Fits("pieceBytes", PieceBytes[t]) /\ session["pieces"] < MaxPieces

\* request_budget_allows and, for a block of a piece that is not active,
\* can_activate_piece: the budgets are looked at before they are asked.
CheckRequest(t, activates) ==
  /\ Ready(t) /\ Fits("request", BlockBytes[t])
  /\ heldRequests[t] < MaxHeld
  /\ IF activates THEN heldPieces[t] < MaxLocal /\ MayActivate(t) ELSE heldPieces[t] > 0
  /\ step' = [step EXCEPT ![t] = IF activates THEN "requestTryFirst" ELSE "requestTry"]
  /\ UNCHANGED <<session, usage, admission, handle, wants, buffer, held>>

\* SwarmState::assign, first reservation.  Other torrents may have taken the bytes since
\* the check, so it may fail and leave the torrent queued.
TryRequest(t) ==
  LET ask == Admit(request, t, BlockBytes[t], Fits("request", BlockBytes[t]))
  IN /\ step[t] \in {"requestTry", "requestTryFirst"}
     /\ request' = ask.state
     /\ session' = IF ask.outcome = "refused" THEN session
                   ELSE [session EXCEPT !["request"] = @ + BlockBytes[t]]
     /\ step' = [step EXCEPT ![t] = CASE ask.outcome = "refused" -> "idle"
                                      [] ask.outcome = "panic" -> "requestPanic"
                                      [] ask.outcome = "granted" /\ @ = "requestTry" -> "requestTaken"
                                      [] OTHER -> "requestTakenFirst"]
     /\ UNCHANGED <<usage, piece, handle, wants, buffer, held>>

\* The usage is charged.  A block of an active piece needs nothing else; the first block
\* of a piece needs the piece too.
ChargeRequest(t) ==
  /\ step[t] \in {"requestTaken", "requestTakenFirst"}
  /\ usage' = [usage EXCEPT ![t]["request"] = @ + BlockBytes[t]]
  /\ IF step[t] = "requestTaken"
     THEN /\ heldRequests' = [heldRequests EXCEPT ![t] = @ + 1]
          /\ step' = [step EXCEPT ![t] = "idle"]
     ELSE /\ step' = [step EXCEPT ![t] = "pieceTry"]
          /\ UNCHANGED heldRequests
  /\ UNCHANGED <<session, admission, handle, wants, buffer, heldPieces, heldPayload>>

\* try_reserve_active_piece.  When it fails the request reservation is dropped: the usage
\* is debited here, the session counter in ReturnRequest.
TryPiece(t) ==
  LET fits == Fits("pieceBytes", PieceBytes[t]) /\ session["pieces"] < MaxPieces
      ask == Admit(piece, t, PieceBytes[t], fits)
  IN /\ step[t] = "pieceTry"
     /\ piece' = ask.state
     /\ IF ask.outcome # "refused"
        THEN /\ session' = [session EXCEPT !["pieceBytes"] = @ + PieceBytes[t], !["pieces"] = @ + 1]
             /\ step' = [step EXCEPT ![t] = IF ask.outcome = "granted" THEN "pieceTaken" ELSE "piecePanic"]
             /\ UNCHANGED usage
        ELSE /\ usage' = [usage EXCEPT ![t]["request"] = @ - BlockBytes[t]]
             /\ step' = [step EXCEPT ![t] = "requestReturned"]
             /\ UNCHANGED session
     /\ UNCHANGED <<request, handle, wants, buffer, held>>

\* Both reservations are committed.
ChargePiece(t) ==
  /\ step[t] = "pieceTaken"
  /\ usage' = [usage EXCEPT ![t]["pieceBytes"] = @ + PieceBytes[t], ![t]["pieces"] = @ + 1]
  /\ heldRequests' = [heldRequests EXCEPT ![t] = @ + 1]
  /\ heldPieces' = [heldPieces EXCEPT ![t] = @ + 1]
  /\ step' = [step EXCEPT ![t] = "idle"]
  /\ UNCHANGED <<session, admission, handle, wants, buffer, heldPayload>>

\* release_request_bytes: a request of the torrent ended.
ReleaseRequest(t) ==
  /\ handle[t] = "live" /\ step[t] = "idle" /\ heldRequests[t] > 0
  /\ usage' = [usage EXCEPT ![t]["request"] = @ - BlockBytes[t]]
  /\ heldRequests' = [heldRequests EXCEPT ![t] = @ - 1]
  /\ step' = [step EXCEPT ![t] = "requestReturned"]
  /\ UNCHANGED <<session, admission, handle, wants, buffer, heldPieces, heldPayload>>

ReturnRequest(t) ==
  /\ step[t] = "requestReturned"
  /\ session' = [session EXCEPT !["request"] = @ - BlockBytes[t]]
  /\ step' = [step EXCEPT ![t] = "idle"]
  /\ UNCHANGED <<usage, admission, handle, wants, buffer, held>>

\* release_active_piece: usage first, then the two session counters.  The piece has no
\* request, so the requests the torrent holds are for its other pieces.
ReleasePiece(t) ==
  /\ handle[t] = "live" /\ step[t] = "idle" /\ heldPieces[t] > 0
  /\ heldRequests[t] = 0 \/ heldPieces[t] > 1
  /\ usage' = [usage EXCEPT ![t]["pieceBytes"] = @ - PieceBytes[t], ![t]["pieces"] = @ - 1]
  /\ heldPieces' = [heldPieces EXCEPT ![t] = @ - 1]
  /\ step' = [step EXCEPT ![t] = "pieceReturned"]
  /\ UNCHANGED <<session, admission, handle, wants, buffer, heldRequests, heldPayload>>

ReturnPieceBytes(t) ==
  /\ step[t] = "pieceReturned"
  /\ session' = [session EXCEPT !["pieceBytes"] = @ - PieceBytes[t]]
  /\ step' = [step EXCEPT ![t] = "pieceBytesReturned"]
  /\ UNCHANGED <<usage, admission, handle, wants, buffer, held>>

ReturnPiece(t) ==
  /\ step[t] = "pieceBytesReturned"
  /\ session' = [session EXCEPT !["pieces"] = @ - 1]
  /\ step' = [step EXCEPT ![t] = "idle"]
  /\ UNCHANGED <<usage, admission, handle, wants, buffer, held>>

\* try_buffer_payload: reserve in the session, charge the usage, then commit only when the
\* torrent's own limit (here MaxLocal blocks) allows it; otherwise the reservation drops.
ReservePayload(t) ==
  /\ handle[t] = "live" /\ buffer[t] = "idle" /\ Fits("payload", BlockBytes[t])
  /\ session' = [session EXCEPT !["payload"] = @ + BlockBytes[t]]
  /\ buffer' = [buffer EXCEPT ![t] = "taken"]
  /\ UNCHANGED <<usage, admission, handle, wants, step, held>>

ChargePayload(t) ==
  /\ buffer[t] = "taken"
  /\ usage' = [usage EXCEPT ![t]["payload"] = @ + BlockBytes[t]]
  /\ buffer' = [buffer EXCEPT ![t] = "charged"]
  /\ UNCHANGED <<session, admission, handle, wants, step, held>>

CommitPayload(t) ==
  /\ buffer[t] = "charged"
  /\ IF heldPayload[t] < MaxLocal
     THEN /\ heldPayload' = [heldPayload EXCEPT ![t] = @ + 1]
          /\ buffer' = [buffer EXCEPT ![t] = "idle"]
          /\ UNCHANGED usage
     ELSE /\ usage' = [usage EXCEPT ![t]["payload"] = @ - BlockBytes[t]]
          /\ buffer' = [buffer EXCEPT ![t] = "returned"]
          /\ UNCHANGED heldPayload
  /\ UNCHANGED <<session, admission, handle, wants, step, heldRequests, heldPieces>>

\* release_buffered_payload.
ReleasePayload(t) ==
  /\ handle[t] = "live" /\ buffer[t] = "idle" /\ heldPayload[t] > 0
  /\ usage' = [usage EXCEPT ![t]["payload"] = @ - BlockBytes[t]]
  /\ heldPayload' = [heldPayload EXCEPT ![t] = @ - 1]
  /\ buffer' = [buffer EXCEPT ![t] = "returned"]
  /\ UNCHANGED <<session, admission, handle, wants, step, heldRequests, heldPieces>>

ReturnPayload(t) ==
  /\ buffer[t] = "returned"
  /\ session' = [session EXCEPT !["payload"] = @ - BlockBytes[t]]
  /\ buffer' = [buffer EXCEPT ![t] = "idle"]
  /\ UNCHANGED <<usage, admission, handle, wants, step, held>>

\* mutant: abandoned payload is not returned
DropForgetsPayload(t) ==
  /\ handle[t] = "live" /\ step[t] = "idle" /\ buffer[t] = "idle"
  /\ handle' = [handle EXCEPT ![t] = "dropping"]
  /\ session' = [b \in Budget |-> IF b = "payload" THEN session[b] ELSE session[b] - usage[t][b]]
  /\ usage' = [usage EXCEPT ![t] = [b \in Budget |-> IF b = "payload" THEN @[b] ELSE 0]]
  /\ wants' = wants \ {t}
  /\ heldRequests' = [heldRequests EXCEPT ![t] = 0]
  /\ heldPieces' = [heldPieces EXCEPT ![t] = 0]
  /\ heldPayload' = [heldPayload EXCEPT ![t] = 0]
  /\ UNCHANGED <<admission, step, buffer>>

\* The last handle of the registration goes away, whatever its owners still held:
\* TorrentResourceUsage::drop returns the counters, then leaves the admission queues.
DropCounters(t) ==
  /\ handle[t] = "live" /\ step[t] = "idle" /\ buffer[t] = "idle"
  /\ handle' = [handle EXCEPT ![t] = "dropping"]
  /\ session' = [b \in Budget |-> session[b] - usage[t][b]]
  /\ usage' = [usage EXCEPT ![t] = [b \in Budget |-> 0]]
  /\ wants' = wants \ {t}
  /\ heldRequests' = [heldRequests EXCEPT ![t] = 0]
  /\ heldPieces' = [heldPieces EXCEPT ![t] = 0]
  /\ heldPayload' = [heldPayload EXCEPT ![t] = 0]
  /\ UNCHANGED <<admission, step, buffer>>

DropAdmission(t) ==
  /\ handle[t] = "dropping"
  /\ handle' = [handle EXCEPT ![t] = "gone"]
  /\ request' = Forget(request, t) /\ piece' = Forget(piece, t)
  /\ UNCHANGED <<session, usage, wants, step, buffer, held>>

\* Every torrent of the instance has come and gone, or panicked.
Over ==
  /\ \A t \in Torrent : handle[t] = "gone" \/ step[t] \in {"requestPanic", "piecePanic"}
  /\ UNCHANGED vars

Attempt(t) == \E activates \in BOOLEAN : CheckRequest(t, activates)
Finish(t) ==
  \/ TryRequest(t) \/ ChargeRequest(t) \/ TryPiece(t) \/ ChargePiece(t) \/ ReturnRequest(t)
  \/ ReturnPieceBytes(t) \/ ReturnPiece(t) \/ DropAdmission(t)
Next ==
  \/ Over
  \/ \E t \in Torrent :
       \/ Register(t) \/ FindWork(t) \/ LoseWork(t) \/ Attempt(t) \/ Finish(t)
       \/ ReleaseRequest(t) \/ ReleasePiece(t)
       \/ ReservePayload(t) \/ ChargePayload(t) \/ CommitPayload(t)
       \/ ReleasePayload(t) \/ ReturnPayload(t)
       \/ DropCounters(t)
Spec == Init /\ [][Next]_vars

\* The run loop of a torrent that has work keeps calling schedule, a step once begun is
\* finished, and a request that is held ends one day, by its timeout if nothing else.
\* Nothing ends a piece: one with received blocks stays active while no peer has the rest.
Fairness ==
  \A t \in Torrent : WF_vars(Attempt(t)) /\ WF_vars(Finish(t)) /\ SF_vars(ReleaseRequest(t))
FairSpec == Spec /\ Fairness
-----------------------------------------------------------------------------
TypeOK ==
  /\ session \in [Budget -> Nat] /\ usage \in [Torrent -> [Budget -> Nat]]
  /\ handle \in [Torrent -> {"new", "live", "dropping", "gone"}]
  /\ wants \subseteq Torrent
  /\ step \in [Torrent -> Steps] /\ buffer \in [Torrent -> {"idle", "taken", "charged", "returned"}]
  /\ {heldRequests, heldPieces, heldPayload} \subseteq [Torrent -> Nat]
  /\ \A s \in {request, piece} :
       /\ s.queue \in Seq(Torrent) /\ s.costs \in [Torrent -> Nat]
       /\ s.deficits \in [Torrent -> Nat]

\* What a torrent has charged to the session but not to its usage, or the reverse.
InFlight(t) ==
  [b \in Budget |->
     CASE b = "request" -> IF step[t] \in {"requestTaken", "requestTakenFirst", "requestReturned", "requestPanic"}
                          THEN BlockBytes[t] ELSE 0
       [] b = "payload" -> IF buffer[t] \in {"taken", "returned"} THEN BlockBytes[t] ELSE 0
       [] b = "pieceBytes" -> IF step[t] \in {"pieceTaken", "pieceReturned", "piecePanic"} THEN PieceBytes[t] ELSE 0
       [] OTHER -> IF step[t] \in {"pieceTaken", "pieceReturned", "pieceBytesReturned", "piecePanic"} THEN 1 ELSE 0]

\* However reservations, releases and drops of the torrents interleave, every session
\* counter is what the torrents hold plus what a step under way has moved, and stays under
\* its ceiling: nothing is released twice, lost, or charged to nobody (T114-C10, C12).
BudgetsConserved ==
  \A b \in Budget :
    /\ session[b] = MapThenSumSet(LAMBDA t : usage[t][b] + InFlight(t)[b], Torrent)
    /\ session[b] <= Limit[b]

\* When no torrent is registered every budget is back to zero and nobody is queued, even
\* if the owners dropped their handle with requests, pieces and payload outstanding.
AllReturned ==
  (\A t \in Torrent : handle[t] \in {"new", "gone"}) =>
    session = [b \in Budget |-> 0] /\ request.queue = <<>> /\ piece.queue = <<>>

\* The budgets of session_resources.rs are well formed, conserved, and all returned when
\* the last torrent has ended.
BudgetsSound == TypeOK /\ BudgetsConserved /\ AllReturned

\* Only registered torrents are in an admission queue, once each, with a cost; and credit
\* never exceeds a torrent's cost plus one quantum, so it manufactures no turns.
QueuesSound ==
  \A s \in {request, piece} :
    /\ IsInjective(s.queue)
    /\ \A t \in Torrent :
         /\ t \in ToSet(s.queue) <=> s.costs[t] # 0
         /\ t \in ToSet(s.queue) => handle[t] \in {"live", "dropping"}
         /\ s.deficits[t] <= Max({BlockBytes[t], PieceBytes[t]}) + Quantum

\* At most one torrent has a cost above a quantum.
OneLarge(size) == \A t, u \in Torrent : size[t] > Quantum /\ size[u] > Quantum => t = u

\* A selected waiter has enough deficit, as the expect of try_admit says, where at most one
\* torrent's cost exceeds a quantum: of two waiters one is then enabled by a turn of credits,
\* and a lone waiter is given its cost.  Blocks never exceed a quantum; pieces above 16 KiB
\* do, and where two torrents have such pieces NoAdmissionPanic is violated.
SelectedCanPay ==
  /\ OneLarge(BlockBytes) => \A t \in Torrent : step[t] # "requestPanic"
  /\ OneLarge(PieceBytes) => \A t \in Torrent : step[t] # "piecePanic"

\* The admission queues of session_resources.rs hold who is waiting and nobody else, bound
\* the credit of everybody, and select no waiter that cannot pay unless two are large.
AdmissionSound == QueuesSound /\ SelectedCanPay

\* try_admit never panics: "a larger bounded operation consumes multiple quanta" (Tactical
\* 114), so that "selected fair waiter has enough deficit", as its expect says.  The code
\* breaks it: a turn of credits that enables nobody leaves a front waiter that cannot pay.
NoAdmissionPanic == \A t \in Torrent : step[t] \notin {"requestPanic", "piecePanic"}

\* t asks an admission queue; t is given what it asked for.
Asking(t) == step[t] \in {"requestTry", "requestTryFirst"}
Served(t) == step[t] \in {"requestTaken", "pieceTaken"}

\* u keeps asking every admission queue it is in.
KeepsAsking(u) ==
  /\ []<>(Asking(u) \/ u \notin ToSet(request.queue))
  /\ []<>(step[u] = "pieceTry" \/ u \notin ToSet(piece.queue))

\* u does not sit on its pieces: time and again it has none or returns one.
KeepsReturning(u) == []<>(heldPieces[u] = 0 \/ step[u] = "pieceReturned")

\* A torrent that asks again and again is served again and again, whatever the costs and
\* credits, so long as the torrents of the session keep asking where they are queued, keep
\* returning pieces, and none has panicked.  Each premise is needed: a waiter leaves a queue
\* only by a grant or by the end of its registration, so one that has stopped asking holds
\* up those behind it; a piece whose peers have left keeps its budget; and a panic of
\* try_admit keeps what it had reserved.
ReadyIsServed ==
  (\A u \in Torrent : /\ KeepsAsking(u) /\ KeepsReturning(u)
                      /\ [](step[u] \notin {"requestPanic", "piecePanic"})) =>
    \A t \in Torrent : []<>Asking(t) => []<>Served(t)
=============================================================================
