---------------------------- MODULE PeerAdmission ----------------------------
(***************************************************************************)
(* Who may open a peer connection: the session's PeerBudget                *)
(* (crates/rstorrent-engine/src/peer_budget.rs), the outbound turns of     *)
(* FairDialAdmission (session_resources.rs), and their callers: the dial   *)
(* loops of driver.rs and the accept loop of incoming.rs.                  *)
(*                                                                         *)
(* Each lock section is a step: a turn, the permit of the dial that uses   *)
(* it, the phase change and the drop of a permit, a reconfiguration, and   *)
(* the two steps by which a listener is disabled.                          *)
(*                                                                         *)
(* Abstractions.  A BTreeMap keyed by generation is a sequence in          *)
(* generation order; the generation counter does not run out.  A torrent   *)
(* is `ready` while its registry offers a candidate, its own dial slots    *)
(* allow one more and, for metadata, its pacer is due.  High-water marks   *)
(* and snapshots are left out.                                             *)
(***************************************************************************)
EXTENDS Integers, Sequences, FiniteSets, SequencesExt, FiniteSetsExt

CONSTANTS
  Torrent,        \* keys of the active torrents
  Metadata,       \* those that fetch metadata: they take a turn, then look for a candidate
  Limits,         \* settings of the connection limit the user may choose
  MaxOpenFiles,   \* descriptors of the process
  Slack,          \* incoming_slack
  None

ASSUME PeerAdmissionAssumption ==
  /\ IsFiniteSet(Torrent) /\ Metadata \subseteq Torrent /\ None \notin Torrent
  /\ Limits # {} /\ IsFiniteSet(Limits) /\ Limits \subseteq Nat
  /\ MaxOpenFiles \in Nat /\ Slack \in Nat

VARIABLES
  limit,      \* effective_limit
  entries,    \* the permits that exist, oldest generation first
  counters,   \* the four counters, by direction and phase
  dialQueue, lastGranted, yieldedLast, \* FairDialState
  ready,      \* torrents with a candidate and a dial slot
  turn,       \* torrents that were granted a turn and have not used it
  registered, \* torrents that have not ended
  incoming    \* on; disabling (the flag is down, nobody cancelled yet); off

vars == <<limit, entries, counters, dialQueue, lastGranted, yieldedLast, ready, turn,
          registered, incoming>>

Direction == {"incoming", "outgoing"}
Phase == {"connecting", "established"}
Entry == [owner : Torrent \cup {None}, direction : Direction, phase : Phase,
          cancelled : BOOLEAN, checked : BOOLEAN]

\* effective_connection_limit: four fifths of the descriptors past a margin, at least
\* five, and never above the setting.
EffectiveLimit(configured) ==
  LET margin == Max({Min({MaxOpenFiles, 10000000}) - 20, 0})
      descriptors == Max({(margin * 80) \div 100, 5})
  IN Min({configured, descriptors})

Total == counters[<<"outgoing", "connecting">>] + counters[<<"outgoing", "established">>]
         + counters[<<"incoming", "connecting">>] + counters[<<"incoming", "established">>]
AbsoluteLimit == limit + Slack
Maximum(d) == IF d = "outgoing" THEN limit ELSE AbsoluteLimit

\* The elements of s at the places S, in their order.
Retain(s, S) ==
  LET kept[i \in 0..Len(s)] ==
        IF i = 0 THEN <<>> ELSE IF i \in S THEN Append(kept[i - 1], s[i]) ELSE kept[i - 1]
  IN kept[Len(s)]

Init ==
  /\ limit \in {EffectiveLimit(n) : n \in Limits}
  /\ entries = <<>>
  /\ counters = [k \in Direction \X Phase |-> 0]
  /\ dialQueue = <<>> /\ lastGranted = None /\ yieldedLast = FALSE
  /\ ready = {} /\ turn = {} /\ registered = Torrent
  /\ incoming = "on"

dial == <<dialQueue, lastGranted, yieldedLast>>
budget == <<limit, entries, counters>>

FindCandidate(t) ==
  /\ t \in registered \ ready
  /\ ready' = ready \cup {t}
  /\ UNCHANGED <<budget, dial, turn, registered, incoming>>

LoseCandidate(t) ==
  /\ t \in ready \ turn
  /\ ready' = ready \ {t}
  /\ UNCHANGED <<budget, dial, turn, registered, incoming>>

\* FairDialAdmission::try_acquire: the queue it leaves, and whether t has the turn.
Asked(t) == IF t \in ToSet(dialQueue) THEN dialQueue ELSE Append(dialQueue, t)

Visited(t) ==
  LET q == Asked(t)
  IN IF Len(q) > 1 /\ Head(q) = lastGranted THEN Append(Tail(q), Head(q)) ELSE q

\* A torrent that is alone and had the last turn yields once before it has another.
Yields(t) == Visited(t) = <<t>> /\ lastGranted = t /\ ~yieldedLast

TryTurn(t) ==
  LET q == Visited(t)
  IN IF Head(q) # t
     THEN dialQueue' = q /\ UNCHANGED <<lastGranted, yieldedLast, turn>>
     ELSE IF Yields(t)
     THEN dialQueue' = q /\ yieldedLast' = TRUE /\ UNCHANGED <<lastGranted, turn>>
     ELSE /\ dialQueue' = Tail(q) /\ lastGranted' = t /\ yieldedLast' = FALSE
          /\ turn' = turn \cup {t}

\* fill_content_dials asks only with a candidate in hand.  The metadata loop asks before it
\* looks for one; the place in its cohort and the dial pacer it waits for are not modelled,
\* so it may ask at any time.
MayAsk(t) == t \in ready \cup Metadata

AskTurn(t) ==
  /\ t \in registered \ turn /\ MayAsk(t)
  /\ TryTurn(t)
  /\ UNCHANGED <<budget, ready, registered, incoming>>

Acquire(d, owner) ==
  /\ Total < Maximum(d)
  /\ entries' = Append(entries, [owner |-> owner, direction |-> d, phase |-> "connecting",
                                 cancelled |-> FALSE, checked |-> d = "outgoing"])
  /\ counters' = [counters EXCEPT ![<<d, "connecting">>] = @ + 1]

\* start_content_dial: with a turn, a permit of the budget or none; the turn is spent.
StartDial(t) ==
  /\ t \in turn
  /\ turn' = turn \ {t}
  /\ ready' = ready \ {t}
  /\ IF t \in ready /\ Total < Maximum("outgoing") THEN Acquire("outgoing", t)
     ELSE UNCHANGED <<entries, counters>>
  /\ UNCHANGED <<limit, dial, registered, incoming>>

\* run_accept_loop: the permit is taken before the flag is looked at.
Accept ==
  /\ Acquire("incoming", None)
  /\ UNCHANGED <<limit, dial, ready, turn, registered, incoming>>

Without(S) == Retain(entries, DOMAIN entries \ S)
Released(i) == [counters EXCEPT ![<<entries[i].direction, entries[i].phase>>] = @ - 1]

\* mutant: the flag is not looked at again
CheckNothing(i) ==
  /\ ~entries[i].checked
  /\ entries' = [entries EXCEPT ![i].checked = TRUE]
  /\ UNCHANGED <<limit, counters, dial, ready, turn, registered, incoming>>

\* The top of run_handshake.
CheckAccepting(i) ==
  /\ ~entries[i].checked
  /\ IF incoming = "on"
     THEN entries' = [entries EXCEPT ![i].checked = TRUE] /\ UNCHANGED counters
     ELSE entries' = Without({i}) /\ counters' = Released(i)
  /\ UNCHANGED <<limit, dial, ready, turn, registered, incoming>>

\* mark_established; a cancelled connection may still get here.
Establish(i) ==
  /\ entries[i].checked /\ entries[i].phase = "connecting"
  /\ entries' = [entries EXCEPT ![i].phase = "established"]
  /\ counters' = [Released(i) EXCEPT ![<<entries[i].direction, "established">>] = @ + 1]
  /\ UNCHANGED <<limit, dial, ready, turn, registered, incoming>>

\* PeerBudgetPermit::drop: the dial fails, the peer leaves, or the task sees its token.
Close(i) ==
  /\ entries[i].checked
  /\ entries' = Without({i}) /\ counters' = Released(i)
  /\ UNCHANGED <<limit, dial, ready, turn, registered, incoming>>

\* Eviction order of reconfigure: connecting first, the newest generation first.
Before(i, j) ==
  IF entries[i].phase = entries[j].phase THEN i > j ELSE entries[i].phase = "connecting"

Standing == {i \in DOMAIN entries : ~entries[i].cancelled}

\* mutant: tokens already cancelled are not counted
EvictedIgnoringRequested(n) ==
  LET excess == Max({Total - (EffectiveLimit(n) + Slack), 0})
  IN {i \in Standing : Cardinality({j \in Standing : Before(j, i)}) < excess}

\* mutant: one too few
EvictedTooFew(n) ==
  LET excess == Max({Total - (EffectiveLimit(n) + Slack), 0})
      additional == excess - (Len(entries) - Cardinality(Standing))
  IN {i \in Standing : Cardinality({j \in Standing : Before(j, i)}) + 1 < additional}

\* The permits whose token reconfigure cancels.
Evicted(n) ==
  LET excess == Max({Total - (EffectiveLimit(n) + Slack), 0})
      additional == excess - (Len(entries) - Cardinality(Standing))
  IN {i \in Standing : Cardinality({j \in Standing : Before(j, i)}) < additional}

Cancel(S) == entries' = [i \in DOMAIN entries |->
                           [entries[i] EXCEPT !.cancelled = @ \/ i \in S]]

Reconfigure(n) ==
  /\ limit' = EffectiveLimit(n)
  /\ Cancel(Evicted(n))
  /\ UNCHANGED <<counters, dial, ready, turn, registered, incoming>>

\* set_incoming_enabled(false): the flag, then cancel_incoming.
DisableIncoming ==
  /\ incoming = "on"
  /\ incoming' = "disabling"
  /\ UNCHANGED <<budget, dial, ready, turn, registered>>

CancelIncoming ==
  /\ incoming = "disabling"
  /\ incoming' = "off"
  /\ Cancel({i \in DOMAIN entries : entries[i].direction = "incoming"})
  /\ UNCHANGED <<limit, counters, dial, ready, turn, registered>>

EnableIncoming ==
  /\ incoming = "off"
  /\ incoming' = "on"
  /\ UNCHANGED <<budget, dial, ready, turn, registered>>

\* mutant: the torrent stays queued for a turn
UnregisterKeepsQueue(t) ==
  /\ t \in registered
  /\ registered' = registered \ {t} /\ ready' = ready \ {t} /\ turn' = turn \ {t}
  /\ UNCHANGED <<budget, dial, incoming>>

\* The torrent ends: its socket set drops its permits, its registration leaves the turns
\* (FairDialAdmission::remove).
Unregister(t) ==
  LET gone == {i \in DOMAIN entries : entries[i].owner = t}
  IN /\ t \in registered
     /\ registered' = registered \ {t} /\ ready' = ready \ {t} /\ turn' = turn \ {t}
     /\ entries' = Without(gone)
     /\ counters' = [k \in DOMAIN counters |->
          counters[k] - Cardinality({i \in gone : <<entries[i].direction, entries[i].phase>> = k})]
     /\ dialQueue' = Retain(dialQueue, {i \in DOMAIN dialQueue : dialQueue[i] # t})
     /\ lastGranted' = IF lastGranted = t THEN None ELSE lastGranted
     /\ yieldedLast' = IF lastGranted = t THEN FALSE ELSE yieldedLast
     /\ UNCHANGED <<limit, incoming>>

Next ==
  \/ \E t \in Torrent : FindCandidate(t) \/ LoseCandidate(t) \/ AskTurn(t) \/ StartDial(t)
                        \/ Unregister(t)
  \/ Accept \/ DisableIncoming \/ CancelIncoming \/ EnableIncoming
  \/ \E i \in DOMAIN entries : CheckAccepting(i) \/ Establish(i) \/ Close(i)
  \/ \E n \in Limits : Reconfigure(n)
Spec == Init /\ [][Next]_vars

\* A run loop keeps asking while it is ready, and uses the turn it was given.  A metadata
\* loop is ready while it has a candidate and a place in its cohort; the pacer lets it ask
\* in the end.  Nothing obliges it to ask otherwise.
Fairness == \A t \in Torrent : WF_vars(t \in ready /\ AskTurn(t)) /\ WF_vars(StartDial(t))
FairSpec == Spec /\ Fairness
-----------------------------------------------------------------------------
TypeOK ==
  /\ limit \in Nat /\ entries \in Seq(Entry) /\ counters \in [Direction \X Phase -> Nat]
  /\ dialQueue \in Seq(Torrent) /\ lastGranted \in Torrent \cup {None} /\ yieldedLast \in BOOLEAN
  /\ ready \subseteq registered /\ turn \subseteq registered
  /\ incoming \in {"on", "disabling", "off"}

\* The counters the ceilings are tested against are the permits that exist, and what is
\* not already being cancelled fits under the absolute limit: dials, accepts, phase
\* changes, lowered settings and torrent ends in any order lose no permit and count none
\* twice (T114-C13, "every generation releases once").
BudgetExact ==
  /\ \A d \in Direction, p \in Phase :
       counters[<<d, p>>] = Cardinality({i \in DOMAIN entries : entries[i].direction = d
                                                            /\ entries[i].phase = p})
  /\ Cardinality(Standing) <= AbsoluteLimit

\* The state of PeerBudget and of the dial queue is well formed and the budget is exact.
BudgetSound == TypeOK /\ BudgetExact

\* A listener that was disabled keeps no peer: whatever passed the flag before it went
\* down has been cancelled.
IncomingRetired ==
  incoming = "off" => \A i \in DOMAIN entries :
    entries[i].direction = "incoming" /\ entries[i].checked => entries[i].cancelled

\* Lowering the limit cancels no more peers than it must: an established peer only when
\* no standing one is still connecting, and nobody while the rest already fits.
NoNeedlessEviction ==
  [][limit' # limit =>
       LET evicted == {i \in DOMAIN entries : entries'[i].cancelled /\ ~entries[i].cancelled}
       IN evicted # {} =>
            /\ Cardinality(Standing \ evicted) = limit' + Slack
            /\ (\E i \in evicted : entries[i].phase = "established") =>
                 \A i \in Standing \ evicted : entries[i].phase = "established"]_vars

\* u waits for a turn it can no longer use: its last candidate is gone or in back-off.
Dormant(u) == u \in (ToSet(dialQueue) \cap registered) \ ready

\* A ready torrent is given an outbound turn, whatever the others do ("ready torrents
\* receive outgoing dial opportunities round-robin", T114-C13), so long as the torrents
\* queued with it have somebody to dial.  The premise is needed: a torrent leaves the queue
\* only by a grant or by ending, and one without a candidate keeps its place at the front.
DialTurnComes ==
  (\A u \in Torrent : <>[]~Dormant(u)) =>
    \A t \in Torrent : (t \in ready) ~> (t \in turn \/ t \notin ready)
=============================================================================
