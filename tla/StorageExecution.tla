-------------------------- MODULE StorageExecution --------------------------
(***************************************************************************)
(* The session's shared execution slots for storage writes and hashes:     *)
(* FairExecutionAuthority of crates/rstorrent-engine/src/                  *)
(* session_resources.rs.  A job asks for a slot, waits in a queue that     *)
(* alternates between storage roots and, within a root, between torrents,  *)
(* and gives the slot back when its permit is dropped.                     *)
(*                                                                         *)
(* The state is changed under a mutex; wake-ups go through one tokio       *)
(* Notify after the mutex is released, so every change and its             *)
(* notify_waiters are two steps here.  A waiter creates its Notified       *)
(* future before it looks at the state: notify_waiters wakes every future  *)
(* that exists, awaited or not, and leaves nothing for later ones.         *)
(*                                                                         *)
(* Abstractions.  A job is one future; it may ask again and again, and its *)
(* identity stands for its ticket.  A waiting future may be dropped; it is *)
(* when its torrent ends, so that job asks no more.                        *)
(***************************************************************************)
EXTENDS Integers, Sequences, FiniteSets, SequencesExt, FiniteSetsExt

CONSTANTS
  Job,         \* futures that acquire slots
  TorrentOf,   \* [Job -> registration key]
  RootOf,      \* [Job -> storage root]
  Slots,       \* FairExecutionAuthority.limit
  None

ASSUME SlotAssumption ==
  /\ IsFiniteSet(Job) /\ DOMAIN TorrentOf = Job /\ DOMAIN RootOf = Job
  /\ Slots \in Nat \ {0} /\ None \notin Job
  /\ \A j \in Job : None \notin {TorrentOf[j], RootOf[j]}

Roots == {RootOf[j] : j \in Job}

VARIABLES
  pc,        \* [Job -> idle, arm, check, await, granted, holding, released, cancelled, gone]
  signalled, \* jobs whose current Notified future has been woken
  waiters,   \* FairExecutionState.waiters
  active,    \* FairExecutionState.active
  rootActive, rootQueued, \* [Roots -> RootExecutionState]
  lastRoot,  \* last_granted_root
  lastTorrent \* [Roots -> last_granted_torrent_by_root]

slotVars == <<pc, signalled, waiters, active, rootActive, rootQueued, lastRoot, lastTorrent>>
Phases == {"idle", "arm", "check", "await", "granted", "holding", "released", "cancelled",
           "gone"}

SlotInit ==
  /\ pc = [j \in Job |-> "idle"] /\ signalled = {}
  /\ waiters = <<>> /\ active = 0
  /\ rootActive = [r \in Roots |-> 0] /\ rootQueued = [r \in Roots |-> 0]
  /\ lastRoot = None /\ lastTorrent = [r \in Roots |-> None]

\* The first waiter that is one of jobs, None if there is none.
FirstWaiter(jobs) ==
  LET found == {i \in DOMAIN waiters : waiters[i] \in jobs}
  IN IF found = {} THEN None ELSE waiters[Min(found)]

\* mutant: oldest waiter of the root that was served last goes first
StickyRoot ==
  LET same == FirstWaiter({j \in Job : RootOf[j] = lastRoot})
  IN RootOf[IF same = None THEN Head(waiters) ELSE same]

\* The root to serve: the oldest waiter of another root than last time, if any.
SelectedRoot ==
  LET other == FirstWaiter({j \in Job : RootOf[j] # lastRoot})
  IN RootOf[IF other = None THEN Head(waiters) ELSE other]

\* selected_waiter: in that root the oldest waiter of another torrent than last time.
SelectedWaiter ==
  LET root == SelectedRoot
      other == FirstWaiter({j \in Job : RootOf[j] = root /\ TorrentOf[j] # lastTorrent[root]})
  IN IF other # None THEN other ELSE FirstWaiter({j \in Job : RootOf[j] = root})

\* notify_waiters: every Notified future that exists is woken.
NotifyWaiters == signalled' = signalled \cup {j \in Job : pc[j] \in {"check", "await"}}

Enqueue(j) ==
  /\ pc[j] = "idle"
  /\ waiters' = Append(waiters, j)
  /\ rootQueued' = [rootQueued EXCEPT ![RootOf[j]] = @ + 1]
  /\ pc' = [pc EXCEPT ![j] = "arm"]
  /\ UNCHANGED <<signalled, active, rootActive, lastRoot, lastTorrent>>

\* let notified = self.notify.notified()
Arm(j) ==
  /\ pc[j] = "arm"
  /\ signalled' = signalled \ {j}
  /\ pc' = [pc EXCEPT ![j] = "check"]
  /\ UNCHANGED <<waiters, active, rootActive, rootQueued, lastRoot, lastTorrent>>

\* The locked part of the loop in acquire.
Check(j) ==
  /\ pc[j] = "check"
  /\ IF active < Slots /\ SelectedWaiter = j
     THEN /\ waiters' = RemoveFirst(waiters, j)
          /\ rootQueued' = [rootQueued EXCEPT ![RootOf[j]] = @ - 1]
          /\ rootActive' = [rootActive EXCEPT ![RootOf[j]] = @ + 1]
          /\ active' = active + 1
          /\ lastRoot' = RootOf[j]
          /\ lastTorrent' = [lastTorrent EXCEPT ![RootOf[j]] = TorrentOf[j]]
          /\ pc' = [pc EXCEPT ![j] = "granted"]
     ELSE /\ pc' = [pc EXCEPT ![j] = "await"]
          /\ UNCHANGED <<waiters, rootQueued, rootActive, active, lastRoot, lastTorrent>>
  /\ UNCHANGED signalled

Wake(j) ==
  /\ pc[j] = "await" /\ j \in signalled
  /\ pc' = [pc EXCEPT ![j] = "arm"]
  /\ UNCHANGED <<signalled, waiters, active, rootActive, rootQueued, lastRoot, lastTorrent>>

\* mutant: a grant tells nobody
HoldSilently(j) ==
  /\ pc[j] = "granted"
  /\ pc' = [pc EXCEPT ![j] = "holding"]
  /\ UNCHANGED <<signalled, waiters, active, rootActive, rootQueued, lastRoot, lastTorrent>>

\* The end of acquire: the waiters that lost learn that the queue has moved.
Hold(j) ==
  /\ pc[j] = "granted"
  /\ pc' = [pc EXCEPT ![j] = "holding"]
  /\ NotifyWaiters
  /\ UNCHANGED <<waiters, active, rootActive, rootQueued, lastRoot, lastTorrent>>

\* release, when the permit is dropped.
Release(j) ==
  /\ pc[j] = "holding"
  /\ active' = active - 1
  /\ rootActive' = [rootActive EXCEPT ![RootOf[j]] = @ - 1]
  /\ pc' = [pc EXCEPT ![j] = "released"]
  /\ UNCHANGED <<signalled, waiters, rootQueued, lastRoot, lastTorrent>>

\* mutant: a dropped future stays in the queue
CancelForgets(j) ==
  /\ pc[j] = "await"
  /\ pc' = [pc EXCEPT ![j] = "cancelled"]
  /\ UNCHANGED <<signalled, waiters, active, rootActive, rootQueued, lastRoot, lastTorrent>>

\* cancel_waiter, when a waiting future is dropped.
CancelWaiter(j) ==
  /\ pc[j] = "await"
  /\ waiters' = RemoveFirst(waiters, j)
  /\ rootQueued' = [rootQueued EXCEPT ![RootOf[j]] = @ - 1]
  /\ pc' = [pc EXCEPT ![j] = "cancelled"]
  /\ UNCHANGED <<signalled, active, rootActive, lastRoot, lastTorrent>>

Notify(j) ==
  /\ pc[j] \in {"released", "cancelled"}
  /\ pc' = [pc EXCEPT ![j] = IF @ = "released" THEN "idle" ELSE "gone"]
  /\ NotifyWaiters
  /\ UNCHANGED <<waiters, active, rootActive, rootQueued, lastRoot, lastTorrent>>

Run(j) == Arm(j) \/ Check(j) \/ Wake(j) \/ Hold(j) \/ Notify(j)

\* Every job's torrent has ended.
SlotOver == (\A j \in Job : pc[j] = "gone") /\ UNCHANGED slotVars
SlotNext == SlotOver \/ \E j \in Job : Enqueue(j) \/ Run(j) \/ Release(j) \/ CancelWaiter(j)
SlotSpec == SlotInit /\ [][SlotNext]_slotVars

\* A runnable future is polled, and the job of a permit ends.
SlotFairness == \A j \in Job : WF_slotVars(Run(j)) /\ WF_slotVars(Release(j))
SlotFairSpec == SlotSpec /\ SlotFairness
-----------------------------------------------------------------------------
SlotTypeOK ==
  /\ pc \in [Job -> Phases] /\ signalled \subseteq Job
  /\ waiters \in Seq(Job) /\ active \in Nat
  /\ rootActive \in [Roots -> Nat] /\ rootQueued \in [Roots -> Nat]
  /\ lastRoot \in Roots \cup {None} /\ DOMAIN lastTorrent = Roots

\* The queue holds exactly the jobs that are waiting, and every counter the number of jobs
\* it stands for: a cancelled waiter, a grant and a release are each accounted once, and no
\* more jobs run than there are slots.
SlotsExact ==
  LET running == {j \in Job : pc[j] \in {"granted", "holding"}}
      waiting == {j \in Job : pc[j] \in {"arm", "check", "await"}}
  IN /\ IsInjective(waiters) /\ ToSet(waiters) = waiting
     /\ active = Cardinality(running) /\ active <= Slots
     /\ \A r \in Roots : /\ rootActive[r] = Cardinality({j \in running : RootOf[j] = r})
                         /\ rootQueued[r] = Cardinality({j \in waiting : RootOf[j] = r})

\* The authority's state is well formed and its counts are exact.
SlotsSound == SlotTypeOK /\ SlotsExact

\* No wake-up is lost: while a slot is free and somebody waits, the waiter whose turn it is
\* is awake, or a notification that will wake it is about to be sent.
NoLostWakeup ==
  active < Slots /\ waiters # <<>> =>
    \/ pc[SelectedWaiter] \in {"arm", "check"}
    \/ SelectedWaiter \in signalled
    \/ \E j \in Job : pc[j] \in {"granted", "released", "cancelled"}

\* A healthy root and a quiet torrent are served however busy the others are: every job
\* that waits gets a slot, or is dropped (T114-C14, T114-C11).
WaiterServed == \A j \in Job : (pc[j] = "arm") ~> (pc[j] \in {"granted", "cancelled"})
=============================================================================
