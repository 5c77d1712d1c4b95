------------------------------ MODULE BlockSync ------------------------------
(***************************************************************************)
(* The bundler's view of the chain it publishes to: BlockSync of sync.rs,  *)
(* the block subscriber that feeds it and persists its anchor              *)
(* (block_subscriber_task.rs, app.rs, anchor_block.rs), and the blob       *)
(* sender that reserves nonces from it and registers what it has sent      *)
(* (blob_sender_task.rs).  Subscriber and sender are two tasks that share  *)
(* BlockSync under a read-write lock; each action is what one of them does *)
(* under one acquisition of the lock, or in one call to the node or the    *)
(* database.  The intents behind the transactions are abstracted: packing  *)
(* may choose any participant list, and may find none.                     *)
(***************************************************************************)
EXTENDS Ethereum, SequencesExt

CONSTANTS
    Fees,           \* fees the sender may estimate, records [base, blob]
    Depth,          \* finalize_depth
    MaxPending,     \* max_pending_transactions
    MaxSent,        \* bound: transactions the node has accepted
    MaxFaults       \* bound: crashes, failed calls and lost answers

ASSUME BlockSyncAssumption ==
    /\ Depth \in Nat
    /\ MaxPending \in Nat \ {0}
    /\ MaxSent \in Nat /\ MaxFaults \in Nat
    /\ Fees \subseteq [base : Nat, blob : 0 .. TopFee - 1]

VARIABLES
    anchor,     \* AnchorBlock: its hash, and the blocks added to its balances
    chain,      \* unfinalized_head_chain, with the placeholders of each block
    pending,    \* pending_transactions, a set with at most one tx per slot
    repriced,   \* repriced_transactions
    cache,      \* cache_transactions_by_hash: {} Pending, {h} Included in h
    phase,      \* where the block subscriber is
    result,     \* the FinalizeResult being acted on
    saved,      \* rows of table anchor_block
    job,        \* the transaction the sender is working on: <<>> or <<job>>
    registered, \* ghost: transactions registered since the last start
    faults      \* faults so far

subscriberVars == <<anchor, chain, phase, result, saved>>
vars == <<blocks, elHead, news, pool, anchor, chain, pending, repriced, cache,
          phase, result, saved, job, registered, faults>>

HeadHash == IF chain = <<>> THEN anchor.hash ELSE chain[Len(chain)].hash
HeadPrice == blocks[HeadHash].price
Known == {anchor.hash} \union {chain[i].hash : i \in DOMAIN chain}

\* Mutant of Position: a reorganisation drops nothing.
NoPivot(h) == Len(chain)

\* block_position_plus_one, for a known hash
Position(h) == IF h = anchor.hash THEN 0
               ELSE CHOOSE i \in DOMAIN chain : chain[i].hash = h

\* BlockSummary::from_block: what the senders did in block h
BlobTxs(h) == {t \in blocks[h].txs : t.kind = "blob"}
Transfers(h) == blocks[h].txs \ BlobTxs(h)

At(T, slots) == {t \in T : Slot(t) \in slots}

\* Mutant of Without: transactions stay after their nonce is used.
WithoutNone(T, slots) == T

Without(T, slots) == {t \in T : Slot(t) \notin slots}

\* Mutant of Put: the map is keyed by hash, not by nonce.
PutBeside(P, T) == P \union T

\* HashMap::insert of each of T, keyed by its slot
Put(P, T) == Without(P, Slots(T)) \union T

\* anchor_block_from_starting_block
StartingAnchor == [hash |-> Genesis, applied |-> <<Genesis>>]

NoResult == [included |-> {}, excluded |-> {}]

Up == phase # "down"

Init ==
    /\ EthInit
    /\ anchor = StartingAnchor
    /\ chain = <<>>
    /\ pending = {} /\ repriced = {} /\ cache = << >>
    /\ phase = "listen" /\ result = NoResult
    /\ saved = {}
    /\ job = <<>> /\ registered = {}
    /\ faults = 0

-----------------------------------------------------------------------------
(* The block subscriber *)

\* Where the path to h leaves what is known: sync_next_head walks back from h
\* until it meets a block whose parent is known, which is the last such place.
Attach(h) == {i \in 2 .. Len(Path(h)) : Path(h)[i - 1] \in Known}

\* drop_reorged_blocks down to the first keep blocks: blob transactions of the
\* dropped blocks, and the placeholders their transfers had removed, go back.
Reorged(keep) == {chain[i] : i \in keep + 1 .. Len(chain)}

\* Mutants of Restored: the placeholders, or the blob transactions, are forgotten.
RestoredBlobsOnly(keep) == UNION {BlobTxs(b.hash) : b \in Reorged(keep)}
RestoredHeldOnly(keep) == UNION {b.held : b \in Reorged(keep)}

Restored(keep) == UNION {BlobTxs(b.hash) \union b.held : b \in Reorged(keep)}

\* sync_next_head of a block whose ancestry attaches at first: all its unknown
\* ancestors and h itself are applied under one write lock.
Import(h, first) ==
    LET keep     == Position(Path(h)[first - 1])
        fresh    == SubSeq(Path(h), first, Len(Path(h)))
        new      == Range(fresh)
        before   == Put(pending, Restored(keep))
        held(g)  == At(before, Slots(Transfers(g)))
        included == UNION {BlobTxs(g) : g \in new}
        dropped  == UNION {held(g) : g \in new}
        consumed == Slots(UNION {blocks[g].txs : g \in new})
        blockOf(t) == {g \in new : t \in blocks[g].txs}
    IN  /\ chain' = SubSeq(chain, 1, keep) \o
                      [i \in 1 .. Len(fresh) |->
                         [hash |-> fresh[i], held |-> held(fresh[i])]]
        /\ pending' = Without(before, consumed)
        /\ cache' = [t \in (DOMAIN cache \union Restored(keep) \union included) \ dropped |->
                       IF t \in included THEN blockOf(t)
                       ELSE IF t \in Restored(keep) THEN {} ELSE cache[t]]

\* Mutant of SyncNextHead: a block whose parent is unknown is skipped.
SyncSkipsOrphan ==
    /\ phase = "listen" /\ news # <<>>
    /\ LET h == news[1] IN
         IF h \in Known \/ Len(Path(h)) \notin Attach(h)
         THEN UNCHANGED <<chain, pending, cache>>
         ELSE Import(h, Len(Path(h)))
    /\ news' = Tail(news)
    /\ phase' = "synced"
    /\ UNCHANGED <<blocks, elHead, pool, anchor, repriced, result, saved, job,
                   registered, faults>>

\* A known block changes nothing, wherever on the chain it is.
SyncNextHead ==
    /\ phase = "listen" /\ news # <<>>
    /\ LET h == news[1] IN
         \/ /\ h \in Known /\ Attach(h) # {}
            /\ UNCHANGED <<chain, pending, cache>>
         \/ /\ h \notin Known
            /\ \E first \in Attach(h) :
                 /\ \A i \in Attach(h) : i <= first
                 /\ Import(h, first)
    /\ news' = Tail(news)
    /\ phase' = "synced"
    /\ UNCHANGED <<blocks, elHead, pool, anchor, repriced, result, saved, job,
                   registered, faults>>

\* ReorgTooDeep: the walk passed the anchor's number.  The task returns the
\* error and the process exits.
ReorgTooDeep ==
    /\ phase = "listen" /\ news # <<>>
    /\ Attach(news[1]) = {}
    /\ phase' = "down"
    /\ UNCHANGED <<blocks, elHead, news, pool, anchor, chain, pending, repriced,
                   cache, result, saved, job, registered, faults>>

\* The node does not answer: the error is logged and the notification is gone.
SyncFails ==
    /\ phase = "listen" /\ news # <<>>
    /\ faults < MaxFaults /\ faults' = faults + 1
    /\ news' = Tail(news)
    /\ UNCHANGED <<blocks, elHead, pool, anchor, chain, pending, repriced, cache,
                   phase, result, saved, job, registered>>

\* Mutant of MustAdvance: the anchor waits for one block more.
AdvanceLate == Number(anchor.hash) + Depth + 1 < Number(HeadHash)

MustAdvance == Number(anchor.hash) + Depth < Number(HeadHash)

\* Mutant of NewAnchorPositions: the anchor goes one block too far.
PositionsTooFar == {i \in DOMAIN chain : Number(chain[i].hash) = Number(HeadHash) - Depth + 1}

NewAnchorPositions == {i \in DOMAIN chain : Number(chain[i].hash) = Number(HeadHash) - Depth}

\* Mutant of AdvanceTo: only the new anchor itself is added to the balances.
AdvanceInOneGo(k) ==
    /\ anchor' = [hash |-> chain[k].hash, applied |-> Append(anchor.applied, chain[k].hash)]
    /\ chain' = SubSeq(chain, k + 1, Len(chain))
    /\ UNCHANGED <<repriced, cache, result>>

\* Mutant of AdvanceTo: only blob transactions retire what they have repriced.
AdvanceBlobsOnly(k) ==
    LET done   == {chain[i].hash : i \in 1 .. k}
        blobs  == UNION {BlobTxs(g) : g \in done}
        losers == At(repriced, Slots(blobs))
    IN  /\ anchor' = [hash |-> chain[k].hash,
                      applied |-> anchor.applied \o [i \in 1 .. k |-> chain[i].hash]]
        /\ chain' = SubSeq(chain, k + 1, Len(chain))
        /\ repriced' = repriced \ losers
        /\ cache' = [t \in DOMAIN cache \ (blobs \union losers) |-> cache[t]]
        /\ result' = [included |-> blobs, excluded |-> losers]

\* apply_finalized_block on each finalized block, and the transactions that the
\* finalized slots have decided are forgotten.
AdvanceTo(k) ==
    LET final  == SubSeq(chain, 1, k)
        done   == {final[i].hash : i \in 1 .. k}
        slots  == Slots(UNION {blocks[g].txs : g \in done})
        blobs  == UNION {BlobTxs(g) : g \in done}
        losers == At(repriced, slots)
        gone   == blobs \union losers
    IN  /\ anchor' = [hash |-> chain[k].hash,
                      applied |-> anchor.applied \o [i \in 1 .. k |-> final[i].hash]]
        /\ chain' = SubSeq(chain, k + 1, Len(chain))
        /\ repriced' = repriced \ losers
        /\ cache' = [t \in DOMAIN cache \ gone |-> cache[t]]
        /\ result' = [included |-> blobs, excluded |-> losers]

MaybeAdvanceAnchorBlock ==
    /\ phase = "synced"
    /\ IF MustAdvance
       THEN /\ \E k \in NewAnchorPositions : AdvanceTo(k)
            /\ phase' = "finalizing"
       ELSE /\ phase' = "listen"
            /\ UNCHANGED <<anchor, chain, repriced, cache, result>>
    /\ UNCHANGED <<blocks, elHead, news, pool, pending, saved, job, registered, faults>>

\* The tracker and the intents' rows are brought up to date, then the anchor
\* is persisted by a DELETE ...
DeleteAnchorRows ==
    /\ phase = "finalizing"
    /\ saved' = {}
    /\ phase' = "persisting"
    /\ UNCHANGED <<blocks, elHead, news, pool, anchor, chain, pending, repriced,
                   cache, result, job, registered, faults>>

\* ... and an INSERT, with no transaction around the two.
InsertAnchorRow ==
    /\ phase = "persisting"
    /\ saved' = saved \union {anchor}
    /\ phase' = "listen" /\ result' = NoResult
    /\ UNCHANGED <<blocks, elHead, news, pool, anchor, chain, pending, repriced,
                   cache, job, registered, faults>>

\* A database call fails: the subscriber logs it and waits for the next head.
PersistFails ==
    /\ phase \in {"finalizing", "persisting"}
    /\ faults < MaxFaults /\ faults' = faults + 1
    /\ phase' = "listen" /\ result' = NoResult
    /\ UNCHANGED <<blocks, elHead, news, pool, anchor, chain, pending, repriced,
                   cache, saved, job, registered>>

-----------------------------------------------------------------------------
(* The blob sender: one task, one transaction at a time *)

PendingCount(s) == Cardinality({t \in pending : t.from = s})

\* get_next_available_nonce: the first nonce of the window that has no pending
\* transaction, or one that the head underprices.
UsableNonces(s) ==
    LET count == TransactionCount(HeadHash, s)
    IN  {n \in count .. count + MaxPending - 1 :
           \A t \in At(pending, {<<s, n>>}) : Underpriced(t.fee, HeadPrice)}

\* GasConfig::reprice_to_at_least: the estimate, or a bump of the old fee
\* (one level stands for 10 percent).
Larger(a, b) == IF a >= b THEN a ELSE b
Reprice(fee, old) == [base |-> Larger(fee.base, old.base + 1),
                      blob |-> Larger(fee.blob, old.blob + 1)]

\* pick_sender_with_fewest_pending
FewestPending(s) == \A other \in Senders : PendingCount(s) <= PendingCount(other)

Sign(t) == job' = <<[tx |-> t, accepted |-> FALSE]>>

\* maybe_send_blob_tx up to the signature.  The fee was estimated at an earlier
\* head, so any estimate is possible.  A placeholder's blob fee overflows when it
\* is repriced: such a transaction is never accepted, and is left out here.
PrepareBlobTx(s, estimate, parts) ==
    /\ Up /\ job = <<>> /\ Cardinality(pool) < MaxSent
    /\ FewestPending(s)
    /\ \E n \in UsableNonces(s) :
         /\ \A m \in UsableNonces(s) : n <= m
         /\ LET old == At(pending, {<<s, n>>})
                fee == IF old = {} THEN estimate
                       ELSE Reprice(estimate, (CHOOSE t \in old : TRUE).fee)
            IN  /\ fee \in Fees
                /\ Sign([from |-> s, nonce |-> n, kind |-> "blob", fee |-> fee,
                         parts |-> parts])
    /\ UNCHANGED <<blocks, elHead, news, pool, anchor, chain, pending, repriced,
                   cache, phase, result, saved, registered, faults>>

\* detect_nonce_deadlock: something is pending, the head underprices all of it;
\* the answer is a transaction of the lowest nonce.
NonceDeadlock ==
    /\ pending # {}
    /\ \A t \in pending : Underpriced(t.fee, HeadPrice)

LowestPending == {t \in pending : \A u \in pending : t.nonce <= u.nonce}

\* No intents can be packed, and the nonces are deadlocked: a self-transfer
\* will take the stuck nonce.
PrepareSelfTransfer(estimate) ==
    /\ Up /\ job = <<>> /\ Cardinality(pool) < MaxSent
    /\ NonceDeadlock
    /\ \E stuck \in LowestPending :
         LET fee == [base |-> Reprice(estimate, stuck.fee).base, blob |-> TopFee]
         IN  /\ \E f \in Fees : f.base = fee.base
             /\ Sign([from |-> stuck.from, nonce |-> stuck.nonce, kind |-> "transfer",
                      fee |-> fee, parts |-> <<>>])
    /\ UNCHANGED <<blocks, elHead, news, pool, anchor, chain, pending, repriced,
                   cache, phase, result, saved, registered, faults>>

\* send_raw_transaction succeeds
NodeAccepts ==
    /\ Up /\ job # <<>> /\ ~job[1].accepted
    /\ Acceptable(job[1].tx)
    /\ pool' = pool \union {job[1].tx}
    /\ job' = <<[job[1] EXCEPT !.accepted = TRUE]>>
    /\ UNCHANGED <<blocks, elHead, news, anchor, chain, pending, repriced, cache,
                   phase, result, saved, registered, faults>>

\* send_raw_transaction fails and nothing is registered ...
NodeRejects ==
    /\ Up /\ job # <<>> /\ ~job[1].accepted
    /\ ~Acceptable(job[1].tx)
    /\ job' = <<>>
    /\ UNCHANGED <<blocks, elHead, news, pool, anchor, chain, pending, repriced,
                   cache, phase, result, saved, registered, faults>>

\* ... which is also what happens when only the node's answer is lost.
AnswerLost ==
    /\ Up /\ job # <<>> /\ ~job[1].accepted
    /\ Acceptable(job[1].tx)
    /\ faults < MaxFaults /\ faults' = faults + 1
    /\ pool' = pool \union {job[1].tx}
    /\ job' = <<>>
    /\ UNCHANGED <<blocks, elHead, news, anchor, chain, pending, repriced, cache,
                   phase, result, saved, registered>>

\* register_sent_blob_tx and register_sent_self_transfer: the old transaction of
\* the slot is kept as repriced.  The write lock waits while the subscriber
\* holds a read lock on the anchor it persists.
RegisterSent ==
    /\ Up /\ phase # "persisting"
    /\ job # <<>> /\ job[1].accepted
    /\ LET t == job[1].tx
       IN  /\ pending' = Put(pending, {t})
           /\ repriced' = repriced \union At(pending, {Slot(t)})
           /\ cache' = [u \in DOMAIN cache \union {t} |-> IF u = t THEN {} ELSE cache[u]]
           /\ registered' = registered \union {t}
    /\ job' = <<>>
    /\ UNCHANGED <<blocks, elHead, news, pool, anchor, chain, phase, result, saved,
                   faults>>

-----------------------------------------------------------------------------
(* Crash and restart *)

Crash ==
    /\ Up
    /\ faults < MaxFaults /\ faults' = faults + 1
    /\ phase' = "down"
    /\ UNCHANGED <<blocks, elHead, news, pool, anchor, chain, pending, repriced,
                   cache, result, saved, job, registered>>

\* get_anchor_block and BlockSync::new: the latest saved anchor or else the starting
\* block; everything else was in memory, and the subscription is a new one.
Restart ==
    /\ phase = "down"
    /\ anchor' \in IF saved = {} THEN {StartingAnchor}
                   ELSE {a \in saved : \A b \in saved : Number(a.hash) >= Number(b.hash)}
    /\ chain' = <<>> /\ pending' = {} /\ repriced' = {} /\ cache' = << >>
    /\ phase' = "listen" /\ result' = NoResult
    /\ job' = <<>> /\ registered' = {}
    /\ news' = <<>>
    /\ UNCHANGED <<blocks, elHead, pool, saved, faults>>

-----------------------------------------------------------------------------

Environment ==
    /\ \/ \E parent \in Hashes, T \in SUBSET pool, tops \in TopupChoices,
             price \in Prices : MineBlock(parent, T, tops, price)
       \/ \E h \in Hashes : SwitchHead(h)
    /\ UNCHANGED <<anchor, chain, pending, repriced, cache, phase, result, saved,
                   job, registered, faults>>

Subscriber == \/ SyncNextHead \/ ReorgTooDeep \/ MaybeAdvanceAnchorBlock
              \/ DeleteAnchorRows \/ InsertAnchorRow

Sender == \/ \E s \in Senders, f \in Fees, ps \in PartChoices : PrepareBlobTx(s, f, ps)
          \/ \E f \in Fees : PrepareSelfTransfer(f)
          \/ NodeAccepts \/ NodeRejects \/ RegisterSent

Faults == SyncFails \/ PersistFails \/ AnswerLost \/ Crash

Next == Environment \/ Subscriber \/ Sender \/ Faults \/ Restart

Spec == Init /\ [][Next]_vars

-----------------------------------------------------------------------------
(* Properties *)

AnchorRecord == [hash : Hashes, applied : Seq(Hashes)]

\* TypeOK: each variable has the shape of the field of BlockSync, AppData or the
\* database table that it stands for.
TypeOK ==
    /\ blocks \in Seq(Block) /\ elHead \in Hashes /\ news \in Seq(Hashes)
    /\ pool \subseteq Tx
    /\ anchor \in AnchorRecord
    /\ chain \in Seq([hash : Hashes, held : SUBSET Tx])
    /\ pending \subseteq Tx /\ repriced \subseteq Tx
    /\ DOMAIN cache \subseteq Tx
    /\ \A t \in DOMAIN cache : cache[t] \subseteq Hashes
    /\ phase \in {"listen", "synced", "finalizing", "persisting", "down"}
    /\ result \in [included : SUBSET Tx, excluded : SUBSET Tx]
    /\ saved \subseteq AnchorRecord /\ \A a, b \in saved : a = b
    /\ job \in Seq([tx : Tx, accepted : BOOLEAN])
    /\ registered \subseteq Tx
    /\ faults \in 0 .. MaxFaults

AnchorLength == Len(Path(anchor.hash))

\* The anchor followed by the unfinalized chain is the path of the head.
ChainIsPath ==
    /\ Len(Path(HeadHash)) = AnchorLength + Len(chain)
    /\ Path(HeadHash)[AnchorLength] = anchor.hash
    /\ \A i \in DOMAIN chain : Path(HeadHash)[AnchorLength + i] = chain[i].hash

\* ChainLinked: the unfinalized chain leads from the anchor to the head, each block
\* the parent of the next, through any reorganisation, finalization and restart; so
\* the block to finalize is always found ("inconsistent unfinalized chain" is
\* unreachable).
ChainLinked == ChainIsPath /\ (MustAdvance => NewAnchorPositions # {})

\* AppliedOnce: the finalized balances, in memory and in the database, contain
\* each block from the starting block to the anchor once and in order, whatever
\* crashes or failed writes came between.
AppliedOnce ==
    \A a \in {anchor} \union saved : a.applied = Path(a.hash)

\* Inv: what makes ChainLinked and AppliedOnce inductive.  Each block's path ends in
\* the block and agrees with the paths of its ancestors; only finitely many
\* transactions exist; and the table is empty while the anchor is being replaced.
TreeOK ==
    /\ Genesis \in Hashes /\ Path(Genesis) = <<Genesis>>
    /\ \A h \in Hashes :
         /\ Path(h) \in Seq(Hashes) /\ Len(Path(h)) > 0
         /\ Path(h)[1] = Genesis /\ Path(h)[Len(Path(h))] = h
         /\ \A i \in 1 .. Len(Path(h)) : Path(Path(h)[i]) = SubSeq(Path(h), 1, i)

TxsFinite == IsFiniteSet(pool) /\ \A h \in Hashes : IsFiniteSet(blocks[h].txs)

Inv ==
    /\ TypeOK /\ TreeOK /\ TxsFinite
    /\ ChainIsPath /\ AppliedOnce
    /\ phase = "persisting" => saved = {}

\* AnchorDeep: between two events of the subscriber no more than finalize_depth
\* blocks stay unfinalized, and a new anchor never has fewer on top of it.
AnchorDeep ==
    /\ phase = "listen" => Len(chain) <= Depth
    /\ phase \in {"finalizing", "persisting"} => Len(chain) = Depth

\* OnePerSlot: no two pending transactions share a sender and nonce, even when
\* reorganised blocks and their placeholders are put back among newer ones.
OnePerSlot == \A t, u \in pending : Slot(t) = Slot(u) => t = u

\* NoStaleInclusion: get_tx_status answers Included only for a blob transaction
\* of a block that is on the unfinalized chain now; no reorganisation or
\* finalization leaves an intent looking included when it no longer is.
NoStaleInclusion ==
    \A t \in DOMAIN cache : cache[t] # {} =>
      \E i \in DOMAIN chain : /\ cache[t] = {chain[i].hash}
                             /\ t \in BlobTxs(chain[i].hash)

\* NonceHeld: the nonce of a transaction the sender registered stays taken: it has
\* a pending transaction until a block of the head chain uses it, and again when
\* that block is reorganised away.  So a nonce in use is never handed out as free.
NonceHeld ==
    \A t \in registered :
      \/ Slot(t) \in Slots(pending)
      \/ t.nonce < TransactionCount(HeadHash, t.from)

\* DroppedTxsPend: when a step takes a blob transaction off the head chain, it is
\* pending again unless another one of its nonce came with the new branch.
DroppedTxsPend ==
    [][phase' # "listen" =>
         \A i \in DOMAIN chain : \A t \in BlobTxs(chain[i].hash) :
           t \in pending' \/ Slot(t) \in Slots(TxsUpTo(HeadHash)')]_vars

\* RepricedHasRival: every repriced transaction shares its nonce with one that is pending
\* or on the unfinalized chain, which is what will one day retire it.
RepricedHasRival ==
    \A t \in repriced :
      \/ \E u \in pending : Slot(u) = Slot(t)
      \/ Slot(t) \in Slots(UNION {blocks[chain[i].hash].txs : i \in DOMAIN chain})

\* ImplementsFinalityLog: the paths of the anchor, of the head and of the persisted
\* anchor behave as the final, head and stored chains of FinalityLog.
SavedPath == IF saved = {} THEN <<Genesis>> ELSE Path((CHOOSE a \in saved : TRUE).hash)
Log == INSTANCE FinalityLog
         WITH Block <- Nat, Start <- Genesis,
              final <- Path(anchor.hash), head <- Path(HeadHash), stored <- SavedPath
ImplementsFinalityLog == Log!Spec

-----------------------------------------------------------------------------
(* Liveness, with a subscriber that keeps running *)

FairSpec == Spec /\ WF_vars(Subscriber)

\* FollowsHead: as long as no call fails, a head the node announced becomes the
\* bundler's head, unless the node moves on or the bundler goes down.  (After a
\* failed call its notification is gone, and nothing tries again.  A later switch to
\* an ancestor of the bundler's head is then taken for a known block.)
FollowsHead ==
    \A h \in 1 .. MaxBlocks :
      (Up /\ elHead = h /\ news # <<>> /\ faults = 0)
        ~> (HeadHash = h \/ elHead # h \/ ~Up \/ faults # 0)

=============================================================================
