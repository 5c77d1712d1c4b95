-------------------------------- MODULE Runner --------------------------------
(***************************************************************************)
(* The process: what App::build does before the tasks start, the loops of  *)
(* the tasks that App::run joins, what wakes the blob sender, how errors   *)
(* are backed off, and what an interrupt does.                             *)
(*                                                                         *)
(* Blocks are counted relative to the node's head: lag is how far the head *)
(* of BlockSync is behind it (negative: ahead of it).  What a block or an  *)
(* attempt of the sender does to the pool and to the chain is in           *)
(* BlockSync and IntentPool; here an attempt may end in every way.  A      *)
(* sleep ends some time: its length is left out.  The subscriber is not    *)
(* disabled (TEST_DISABLE_BLOCK_SUBSCRIBER).                               *)
(***************************************************************************)
EXTENDS Integers, FiniteSets

CONSTANTS
    Intents,        \* intents users may post
    Periodic,       \* those of the periodic tasks that are not turned off
    MaxDistance,    \* MAX_DISTANCE_SYNC
    MaxLag,         \* bound: unread notifications; a lag of MaxLag is MaxLag or more
    MaxInterrupts   \* bound: interrupts of the process

ASSUME RunnerAssumption ==
    /\ Periodic \subseteq {"remote_node_tracker", "push_metrics", "evict_stale_intents"}
    /\ MaxDistance \in Nat \ {0} /\ MaxLag \in Nat /\ MaxLag > MaxDistance
    /\ MaxInterrupts \in Nat

VARIABLES
    panic,      \* panic_on_background_task_errors
    phase,      \* "build", "run" or "ended"
    task,       \* where each task is
    permit,     \* the Notify of AppData holds a permit
    lag, unread,    \* blocks the head is behind; notifications not yet read
    posts,      \* of each intent: "none", "old" (stored before the start), "committed"
                \* by its handler, or "answered": after the handler's notify_one
    healthy,    \* the database and the node answer; calls fail only while they do not
    signalled,  \* tasks whose ctrl_c() is ready
    interrupts, \* how many interrupts there were
    begun,      \* ghost: intents stored when some attempt of the sender began
    offered,    \* ghost: intents fetched by an attempt that goes on to pack
    missed      \* ghost: the last interrupt did not end some task

nodeVars == <<lag, unread>>
stored == {i \in Intents : posts[i] # "none"}

signalVars == <<signalled, interrupts, missed>>
ghosts == <<begun, offered>>
vars == <<panic, phase, task, permit, nodeVars, posts, healthy, signalVars, ghosts>>

Tasks == Periodic \union {"server", "blob_sender", "block_subscriber", "consistency_checks"}

\* The first state of each task's loop: metrics are pushed before the first wait.
Started(t) == CASE t \in {"consistency_checks", "push_metrics"} -> "working"
                [] t = "block_subscriber" -> "subscribing"
                [] OTHER -> "waiting"

Init ==
    /\ panic \in BOOLEAN
    /\ phase = "build" /\ task = [t \in Tasks |-> Started(t)] /\ permit = FALSE
    /\ lag \in -MaxDistance .. MaxLag /\ unread = 0
    /\ posts \in [Intents -> {"none", "old"}] /\ healthy \in BOOLEAN
    /\ signalled = {} /\ interrupts = 0 /\ begun = {} /\ offered = {} /\ missed = FALSE

\* the tasks whose loops await ctrl_c(); the server listens on its own
Listening == Periodic \union {"blob_sender", "block_subscriber"}

Goto(t, s) == task' = [task EXCEPT ![t] = s]

\* The process ends, and what it had in memory is gone: App::build or a task returns an
\* error, or all tasks have returned.
Ends ==
    /\ phase' = "ended" /\ task' = [t \in Tasks |-> "done"]
    /\ permit' = FALSE /\ unread' = 0 /\ signalled' = {}
    /\ UNCHANGED <<interrupts, missed>>

\* A task takes the other branch of its select!: an interrupt that is ready is lost.
TakesOtherBranch(t) ==
    /\ missed' = (missed \/ t \in signalled)
    /\ signalled' = signalled \ {t}
    /\ UNCHANGED interrupts

-----------------------------------------------------------------------------
(* Start and end *)

\* initial_block_sync stops at its first test unless the head is ahead of the node:
\* then its loop does nothing until the node has caught up.
InitialBlockSync ==
    /\ phase = "build" /\ healthy /\ lag > -MaxDistance
    /\ phase' = "run"
    /\ UNCHANGED <<panic, task, permit, nodeVars, posts, healthy, signalVars, ghosts>>

BuildFails ==
    /\ phase = "build" /\ ~healthy
    /\ Ends
    /\ UNCHANGED <<panic, lag, posts, healthy, ghosts>>

\* try_join! ends when a task has failed or all have returned.
AllReturned ==
    /\ phase = "run" /\ \A t \in Tasks : task[t] = "done"
    /\ Ends
    /\ UNCHANGED <<panic, lag, posts, healthy, ghosts>>


-----------------------------------------------------------------------------
(* The http handlers, as far as they concern the sender *)

StorePost(i) ==
    /\ phase = "run" /\ task["server"] = "waiting" /\ posts[i] = "none"
    /\ posts' = [posts EXCEPT ![i] = "committed"]
    /\ UNCHANGED <<panic, phase, task, permit, nodeVars, healthy, signalVars, ghosts>>

\* Mutant of NotifyOne: only a sender that waits hears of a post.
NotifyWaiters(i) ==
    /\ phase = "run" /\ posts[i] = "committed"
    /\ posts' = [posts EXCEPT ![i] = "answered"]
    /\ permit' = (permit \/ task["blob_sender"] = "waiting")
    /\ UNCHANGED <<panic, phase, task, nodeVars, healthy, signalVars, ghosts>>

\* notify_one leaves a permit when nobody waits, and wakes the sender when it does:
\* either way the next notified() of the sender returns.
NotifyOne(i) ==
    /\ phase = "run" /\ posts[i] = "committed"
    /\ posts' = [posts EXCEPT ![i] = "answered"] /\ permit' = TRUE
    /\ UNCHANGED <<panic, phase, task, nodeVars, healthy, signalVars, ghosts>>

\* The actix server stops by itself on an interrupt, after the requests it is serving.
ServerStops ==
    /\ phase = "run" /\ task["server"] = "stopping" /\ \A i \in Intents : posts[i] # "committed"
    /\ Goto("server", "done")
    /\ UNCHANGED <<panic, phase, permit, nodeVars, posts, healthy, signalVars, ghosts>>

-----------------------------------------------------------------------------
(* blob_sender_task *)

SenderAt(s) == phase = "run" /\ task["blob_sender"] = s

BeginAttempt == Goto("blob_sender", "checking") /\ begun' = begun \union stored

WakeSender ==
    /\ SenderAt("waiting") /\ permit
    /\ permit' = FALSE
    /\ BeginAttempt /\ TakesOtherBranch("blob_sender")
    /\ UNCHANGED <<panic, phase, nodeVars, posts, healthy, offered>>

\* assert_node_synced
AssertNodeSynced ==
    /\ SenderAt("checking") /\ lag <= MaxDistance
    /\ Goto("blob_sender", "syncing")
    /\ UNCHANGED <<panic, phase, permit, nodeVars, posts, healthy, signalVars, ghosts>>

\* sync_data_intents of the attempt
SyncDataIntents ==
    /\ SenderAt("syncing")
    /\ Goto("blob_sender", "packing") /\ offered' = offered \union stored
    /\ UNCHANGED <<panic, phase, permit, nodeVars, posts, healthy, signalVars, begun>>

\* SentBlobTx: loop again
SentBlobTx ==
    /\ SenderAt("packing")
    /\ BeginAttempt
    /\ UNCHANGED <<panic, phase, permit, nodeVars, posts, healthy, signalVars, offered>>

\* SentSelfTransfer, NoViableSet and NoNonceAvailable: wait for a notification
BreakInner ==
    /\ SenderAt("packing")
    /\ Goto("blob_sender", "waiting")
    /\ UNCHANGED <<panic, phase, permit, nodeVars, posts, healthy, signalVars, ghosts>>

\* Mutant of AttemptFails: an error breaks out of the outer loop, too.
AttemptReturns ==
    /\ SenderAt("checking") \/ SenderAt("syncing") \/ SenderAt("packing")
    /\ ~healthy \/ (SenderAt("checking") /\ lag > MaxDistance)
    /\ IF panic THEN Ends
       ELSE Goto("blob_sender", "done") /\ UNCHANGED <<phase, permit, unread, signalVars>>
    /\ UNCHANGED <<panic, lag, posts, healthy, ghosts>>

\* The attempt returns an error.
AttemptFails ==
    /\ SenderAt("checking") \/ SenderAt("syncing") \/ SenderAt("packing")
    /\ ~healthy \/ (SenderAt("checking") /\ lag > MaxDistance)
    /\ IF panic THEN Ends
       ELSE Goto("blob_sender", "sleeping") /\ UNCHANGED <<phase, permit, unread, signalVars>>
    /\ UNCHANGED <<panic, lag, posts, healthy, ghosts>>

\* The end of BackoffState::on_error: the sender waits, it does not retry.
BackedOff(t) ==
    /\ phase = "run" /\ task[t] = "sleeping"
    /\ Goto(t, "waiting")
    /\ permit' = (permit \/ t = "block_subscriber")
    /\ UNCHANGED <<panic, phase, nodeVars, posts, healthy, signalVars, ghosts>>

-----------------------------------------------------------------------------
(* block_subscriber_task *)

SubscriberAt(s) == phase = "run" /\ task["block_subscriber"] = s

\* Heads announced before are not delivered.
SubscribeBlocks ==
    /\ SubscriberAt("subscribing")
    /\ IF healthy
       THEN Goto("block_subscriber", "waiting") /\ UNCHANGED <<phase, permit, unread, signalVars>>
       ELSE Ends
    /\ UNCHANGED <<panic, lag, posts, healthy, ghosts>>

NextBlock ==
    /\ SubscriberAt("waiting") /\ unread > 0
    /\ Goto("block_subscriber", "fetching") /\ TakesOtherBranch("block_subscriber")
    /\ UNCHANGED <<panic, phase, permit, nodeVars, posts, healthy, ghosts>>

StreamClosed ==
    /\ SubscriberAt("waiting") /\ ~healthy /\ Ends
    /\ UNCHANGED <<panic, lag, posts, healthy, ghosts>>

\* sync_next_head, and the first notification: the head is now the announced block.
SyncNextHead ==
    /\ SubscriberAt("fetching") /\ lag >= unread
    /\ unread' = unread - 1 /\ lag' = unread - 1
    /\ Goto("block_subscriber", "finalizing") /\ permit' = TRUE
    /\ UNCHANGED <<panic, phase, posts, healthy, signalVars, ghosts>>

\* The announced block is not above the head: the anchor is ahead of the node, or the
\* reorganisation is too deep.
ReorgTooDeep ==
    /\ SubscriberAt("fetching") /\ lag < unread /\ Ends
    /\ UNCHANGED <<panic, lag, posts, healthy, ghosts>>

\* maybe_advance_anchor_block is done; the second notification
Finalized ==
    /\ SubscriberAt("finalizing")
    /\ Goto("block_subscriber", "waiting") /\ permit' = TRUE
    /\ UNCHANGED <<panic, phase, nodeVars, posts, healthy, signalVars, ghosts>>

\* A call fails before or after the new head is in; the notification is consumed.
SyncFails ==
    /\ SubscriberAt("fetching") \/ SubscriberAt("finalizing")
    /\ ~healthy
    /\ IF panic THEN Ends
       ELSE /\ Goto("block_subscriber", "sleeping")
            /\ unread' = IF SubscriberAt("fetching") THEN unread - 1 ELSE unread
            /\ UNCHANGED <<phase, permit, signalVars>>
    /\ UNCHANGED <<panic, lag, posts, healthy, ghosts>>

-----------------------------------------------------------------------------
(* The other tasks: their calls may fail, which is logged *)

Ticks(t) ==
    /\ phase = "run" /\ task[t] = "waiting"
    /\ Goto(t, "working") /\ TakesOtherBranch(t)
    /\ UNCHANGED <<panic, phase, permit, nodeVars, posts, healthy, ghosts>>

WorkDone(t) ==
    /\ phase = "run" /\ task[t] = "working"
    /\ Goto(t, IF t = "consistency_checks" THEN "done" ELSE "waiting")
    /\ UNCHANGED <<panic, phase, permit, nodeVars, posts, healthy, signalVars, ghosts>>

-----------------------------------------------------------------------------
(* Interrupts *)

\* Before the tasks run nobody listens, and the process is killed.
Killed ==
    /\ phase = "build" /\ Ends
    /\ UNCHANGED <<panic, lag, posts, healthy, ghosts>>

\* ctrl_c() becomes ready for the tasks that await it; a busy task makes its next
\* ctrl_c() later and does not see this one.
Interrupt ==
    /\ phase = "run" /\ interrupts < MaxInterrupts
    /\ interrupts' = interrupts + 1
    /\ signalled' = {t \in Listening : task[t] = "waiting"}
    /\ missed' = \E t \in Listening : task[t] \notin {"waiting", "done"}
    /\ task' = [task EXCEPT !["server"] = IF @ = "waiting" THEN "stopping" ELSE @]
    /\ UNCHANGED <<panic, phase, permit, nodeVars, posts, healthy, ghosts>>

\* Mutant of CtrlC: the interval of the pushes is awaited outside of the select!.
CtrlCUnheard(t) ==
    /\ phase = "run" /\ t \in signalled
    /\ signalled' = signalled \ {t}
    /\ IF t = "push_metrics" THEN UNCHANGED task ELSE Goto(t, "done")
    /\ UNCHANGED <<panic, phase, permit, nodeVars, posts, healthy, interrupts, missed, ghosts>>

CtrlC(t) ==
    /\ phase = "run" /\ t \in signalled
    /\ Goto(t, "done") /\ signalled' = signalled \ {t}
    /\ UNCHANGED <<panic, phase, permit, nodeVars, posts, healthy, interrupts, missed, ghosts>>

-----------------------------------------------------------------------------
(* The node and the database *)

NewHead ==
    /\ phase # "ended" /\ unread < MaxLag
    /\ lag' = IF lag = MaxLag THEN lag ELSE lag + 1
    /\ unread' = IF phase = "run" /\ task["block_subscriber"] \notin {"subscribing", "done"}
                 THEN unread + 1 ELSE unread
    /\ UNCHANGED <<panic, phase, task, permit, posts, healthy, signalVars, ghosts>>

HealthChanges ==
    /\ phase # "ended"
    /\ healthy' = ~healthy
    /\ UNCHANGED <<panic, phase, task, permit, nodeVars, posts, signalVars, ghosts>>

-----------------------------------------------------------------------------

Build == InitialBlockSync \/ BuildFails \/ Killed
Handlers == ServerStops \/ \E i \in Intents : StorePost(i) \/ NotifyOne(i)
BlobSender == WakeSender \/ AssertNodeSynced \/ SyncDataIntents \/ SentBlobTx \/ BreakInner
              \/ AttemptFails \/ BackedOff("blob_sender") \/ CtrlC("blob_sender")
BlockSubscriber == SubscribeBlocks \/ NextBlock \/ SyncNextHead \/ ReorgTooDeep \/ Finalized
                   \/ SyncFails \/ BackedOff("block_subscriber") \/ CtrlC("block_subscriber")
Others == \E t \in Periodic \union {"consistency_checks"} : WorkDone(t) \/ CtrlC(t)
Environment == StreamClosed \/ Interrupt \/ NewHead \/ HealthChanges
               \/ \E t \in Periodic : Ticks(t)

Next == Build \/ Handlers \/ BlobSender \/ BlockSubscriber \/ Others \/ AllReturned
        \/ Environment

Spec == Init /\ [][Next]_vars

\* What is awaited answers or fails, a sleep ends, a ready task is resumed, and the
\* loop over one notification reaches its end.
Fairness ==
    /\ WF_vars(InitialBlockSync \/ BuildFails) /\ WF_vars(AllReturned)
    /\ WF_vars(ServerStops) /\ \A i \in Intents : WF_vars(NotifyOne(i))
    /\ WF_vars(BlobSender) /\ WF_vars(BlockSubscriber)
    /\ \A t \in Periodic \union {"consistency_checks"} : WF_vars(WorkDone(t) \/ CtrlC(t))

FairSpec == Spec /\ Fairness

-----------------------------------------------------------------------------
(* Properties *)

\* PostsAttempted: an intent whose post has been answered is stored when some attempt
\* of the sender begins, whatever the sender was doing at the post: packing, sending
\* or sleeping off an error.  No further post, block or working call is needed.
PostsAttempted ==
    \A i \in Intents : posts[i] = "answered" ~>
      (i \in begun \/ phase = "ended" \/ task["blob_sender"] = "done")

\* PostsOffered: an attempt that fails is not repeated, and rows from before the start are
\* announced by nobody; still every stored intent reaches an attempt that packs, once
\* calls succeed, blocks come and the bundler keeps up with them.
PostsOffered ==
    <>[](healthy /\ lag <= MaxDistance) /\ []<><<NewHead>>_vars =>
      \A i \in Intents : posts[i] # "none" ~>
        (i \in offered \/ phase = "ended" \/ interrupts > 0)

\* InterruptEnds: an interrupt ends the process, except if it came when a task was busy
\* or at the moment its wait ended: such a task goes on without the server
\* (metrics.rs: "race against an interrupt signal to not hang to process forever").
InterruptEnds == interrupts > 0 ~> (phase = "ended" \/ missed)
=============================================================================
