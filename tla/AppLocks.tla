------------------------------- MODULE AppLocks -------------------------------
(***************************************************************************)
(* The two read-write locks of AppData, sync and data_intent_tracker, and  *)
(* the order in which the background tasks and the handlers of requests    *)
(* take them.  The locks are tokio's: one FIFO queue each, so that a       *)
(* reader waits behind a writer that waits.                                *)
(*                                                                         *)
(* A task's work is a sequence of spans.  A span is the list of guards     *)
(* that are alive together: they are acquired one by one, each awaited     *)
(* while the earlier ones are held, and dropped together when the          *)
(* statement or block that owns them ends.                                 *)
(***************************************************************************)
EXTENDS Integers, Sequences, SequencesExt

CONSTANTS
    Tasks,      \* background tasks and requests being handled
    Kind        \* what each of them runs

BackgroundTasks == {"sender", "subscriber", "evict", "checks"}

\* the routes whose handlers take the locks
Routes == {"sync_route", "gas", "post", "cancel", "data", "balance", "home", "metrics"}

ASSUME KindAssumption == Kind \in [Tasks -> BackgroundTasks \union Routes]

VARIABLES
    work,       \* the spans each task still has to go through; <<>> when idle
    got,        \* how many guards of its current span each task holds
    queue       \* the tasks that wait for each lock

vars == <<work, got, queue>>

Locks == {"sync", "tracker"}

Read(l) == [lock |-> l, mode |-> "read"]
Write(l) == [lock |-> l, mode |-> "write"]

\* The spans there are: one statement with one guard ...
ReadSync == <<Read("sync")>>
WriteSync == <<Write("sync")>>
ReadTracker == <<Read("tracker")>>
WriteTracker == <<Write("tracker")>>

\* ... get_all_intents_available_for_packing, and balance_of_user, whose guards
\* are temporaries of one expression ...
ReadSyncThenTracker == <<Read("sync"), Read("tracker")>>

BalanceOfUser == ReadSyncThenTracker

\* ... pending_total_data_len, the same with the locks in the other order ...
PendingTotalDataLen == <<Read("tracker"), Read("sync")>>

\* ... and get_sync, whose first guard is alive when the second is awaited.
GetSync == <<Read("sync"), Read("sync")>>

\* Operations that hold one guard, get_next_available_nonce through a call to the node
\* and sync_data_intents through one to the database
SyncDataIntents == WriteTracker
HeadGas == ReadSync
AssertNodeSynced == ReadSync
PendingTxCount == ReadSync
GetNextAvailableNonce == ReadSync
DetectNonceDeadlock == ReadSync
RegisterSentSelfTransfer == WriteSync
AvailableForPacking == ReadSyncThenTracker

\* Mutant of RegisterSentBlobTx: the tracker's guard is alive when sync is locked.
RegisterUnderOneGuard == <<<<Write("tracker"), Write("sync")>>>>

\* register_sent_blob_tx: the tracker's guard ends with its statement.
RegisterSentBlobTx == <<WriteTracker, WriteSync>>

\* Mutant of MaybeAdvanceAnchorBlock: the anchor is read under the write guard.
AdvanceUnderWriteGuard == <<<<Write("sync"), Read("sync")>>, WriteTracker, WriteTracker>>

\* maybe_advance_anchor_block; the last guard is held while the anchor is persisted.
MaybeAdvanceAnchorBlock == <<WriteSync, WriteTracker, WriteTracker, ReadSync>>

\* maybe_send_blob_tx: packing, and then the count of pending transactions and the
\* nonce, the registration and another fetch; or a self-transfer.
Packing == <<AssertNodeSynced, SyncDataIntents, HeadGas, AvailableForPacking>>
BlobTx == Packing \o <<PendingTxCount, GetNextAvailableNonce>> \o RegisterSentBlobTx
                  \o <<SyncDataIntents>>
SelfTransfer == Packing \o <<DetectNonceDeadlock, RegisterSentSelfTransfer>>

\* sync_block: sync_next_head asks for the parent and the anchor of each block it
\* fetches (once here) and then applies them; the anchor may advance.
SyncBlock == <<ReadSync, ReadSync, WriteSync>> \o MaybeAdvanceAnchorBlock

EvictStaleIntents == <<HeadGas, ReadTracker, WriteTracker>>
ConsistencyChecks == <<ReadSync>>

CancelDataIntent == <<ReadTracker, WriteTracker>>
PostData == <<PendingTotalDataLen, SyncDataIntents, BalanceOfUser>>
CollectMetrics == <<ReadSync, ReadTracker>>
GetHome == <<HeadGas, AvailableForPacking>>

Paths(kind) ==
    CASE kind = "sender"     -> {BlobTx, SelfTransfer}
      [] kind = "subscriber" -> {SyncBlock}
      [] kind = "evict"      -> {EvictStaleIntents}
      [] kind = "checks"     -> {ConsistencyChecks}
      [] kind = "sync_route" -> {<<GetSync>>}
      [] kind = "gas"        -> {<<HeadGas>>}
      [] kind = "post"       -> {PostData}
      [] kind = "cancel"     -> {CancelDataIntent}
      [] kind = "data"       -> {<<AvailableForPacking>>}
      [] kind = "balance"    -> {<<BalanceOfUser>>}
      [] kind = "home"       -> {GetHome}
      [] kind = "metrics"    -> {CollectMetrics}

Init ==
    /\ work = [t \in Tasks |-> <<>>]
    /\ got = [t \in Tasks |-> 0]
    /\ queue = [l \in Locks |-> <<>>]

-----------------------------------------------------------------------------

Active(t) == work[t] # <<>>
Span(t) == Head(work[t])
Held(t) == IF Active(t) THEN {Span(t)[i] : i \in 1 .. got[t]} ELSE {}
Wanted(t) == Span(t)[got[t] + 1]

Waiting(t) == \E l \in Locks : t \in Range(queue[l])

Begin(t) ==
    /\ ~Active(t)
    /\ \E path \in Paths(Kind[t]) : work' = [work EXCEPT ![t] = path]
    /\ UNCHANGED <<got, queue>>

\* The task reaches the next .await of a lock.
Ask(t) ==
    /\ Active(t) /\ ~Waiting(t) /\ got[t] < Len(Span(t))
    /\ queue' = [queue EXCEPT ![Wanted(t).lock] = Append(@, t)]
    /\ UNCHANGED <<work, got>>

\* A reader shares the lock with readers, a writer with nobody, itself included.
Free(l, mode) ==
    \A u \in Tasks : \A g \in Held(u) :
      g.lock = l => mode = "read" /\ g.mode = "read"

Grantable(l) == queue[l] # <<>> /\ Free(l, Wanted(Head(queue[l])).mode)

\* The lock goes to the first of its queue.
Grant(l) ==
    /\ Grantable(l)
    /\ got' = [got EXCEPT ![Head(queue[l])] = @ + 1]
    /\ queue' = [queue EXCEPT ![l] = Tail(@)]
    /\ UNCHANGED work

\* All guards of the span are dropped; the task goes on, or returns early.
Finish(t) ==
    /\ Active(t) /\ ~Waiting(t) /\ got[t] = Len(Span(t))
    /\ \E rest \in {<<>>, Tail(work[t])} : work' = [work EXCEPT ![t] = rest]
    /\ got' = [got EXCEPT ![t] = 0]
    /\ UNCHANGED queue

Next ==
    \/ \E t \in Tasks : Begin(t) \/ Ask(t) \/ Finish(t)
    \/ \E l \in Locks : Grant(l)

Spec == Init /\ [][Next]_vars

\* The runtime resumes a task that can go on, and what a task awaits while it holds
\* a guard, the node or the database, answers or fails.
FairSpec ==
    /\ Spec
    /\ \A t \in Tasks : WF_vars(Ask(t)) /\ WF_vars(Finish(t))
    /\ \A l \in Locks : WF_vars(Grant(l))

-----------------------------------------------------------------------------
(* Properties *)

Spans == {ReadSync, WriteSync, ReadTracker, WriteTracker, ReadSyncThenTracker,
          PendingTotalDataLen, GetSync}

\* TypeOK: a task waits in at most one queue, the one of the lock it wants next.
TypeOK ==
    /\ work \in [Tasks -> Seq(Spans)]
    /\ got \in [Tasks -> Nat]
    /\ \A t \in Tasks : IF Active(t) THEN got[t] <= Len(Span(t)) ELSE got[t] = 0
    /\ queue \in [Locks -> Seq(Tasks)]
    /\ \A l \in Locks : /\ IsInjective(queue[l])
                        /\ \A t \in Range(queue[l]) :
                             Active(t) /\ got[t] < Len(Span(t)) /\ Wanted(t).lock = l

\* Every task that works waits, and no lock can be given to the one that is next.
Hung ==
    /\ \E t \in Tasks : Active(t)
    /\ \A t \in Tasks : Active(t) => Waiting(t)
    /\ \A l \in Locks : ~Grantable(l)

\* A guard is held while the same lock, or sync below tracker, is awaited.
OutOfOrder(t) ==
    /\ Waiting(t)
    /\ \E g \in Held(t) : g.lock = Wanted(t).lock \/ g.lock = "tracker"

\* HangNeedsRequest: the bundler's tasks can hang on their locks only while a request to
\* post data or for the sync status waits for a lock of sync under a guard it holds;
\* no interleaving of the sender, the subscriber, the eviction and all other
\* requests ends in a deadlock.
HangNeedsRequest ==
    Hung => \E t \in Tasks : Kind[t] \in {"post", "sync_route"} /\ OutOfOrder(t)

\* Served: whoever waits for a lock gets it, however many others come and go, unless
\* such a request keeps it.
Served ==
    \A t \in Tasks :
      Waiting(t) ~> \/ ~Waiting(t)
                    \/ \E u \in Tasks : Kind[u] \in {"post", "sync_route"} /\ OutOfOrder(u)

\* NeverHung: the background tasks go on (lib.rs: "Long running future progressing
\* server and background tasks futures").
NeverHung == ~Hung
===============================================================================
