------------------------------ MODULE IntentPool ------------------------------
(***************************************************************************)
(* The life of a data intent: its row in data_intents, the summaries that  *)
(* DataIntentTracker keeps in memory, its inclusions in blob transactions  *)
(* (table intent_inclusions and its two in-memory indexes), cancellation   *)
(* and eviction, and what finalization does to all of these.  Tasks: the   *)
(* API's handlers, the blob sender, the block subscriber, the eviction     *)
(* task and the consistency check.  Each action is one statement of the    *)
(* database or one acquisition of the tracker's lock.                      *)
(*                                                                         *)
(* The chain is abstracted from BlockSync: one sender, whose transactions  *)
(* are mined in the order of their nonces (onChain), the first finalCount  *)
(* of them under the anchor.  One price level stands for base fee and blob *)
(* price.                                                                  *)
(***************************************************************************)
EXTENDS Integers, FiniteSets, SequencesExt, FiniteSetsExt

CONSTANTS
    Intents,        \* the intents users may post
    Cap,            \* max_blob_gas_price of each intent
    Prices,         \* prices a head may have
    MaxPending,     \* max_pending_transactions
    MaxInclusions,  \* MAX_PREVIOUS_INCLUSIONS
    Reorgs,         \* bound: whether the node reorganises its chain
    MaxClock,       \* bound: instants of the database's clock
    MaxSent,        \* bound: transactions sent
    MaxFaults       \* bound: failed calls and restarts

ASSUME IntentPoolAssumption ==
    /\ Prices \subseteq Nat \ {0} /\ Prices # {}
    /\ Cap \in [Intents -> Nat]
    /\ Reorgs \in BOOLEAN
    /\ MaxPending \in Nat \ {0} /\ MaxInclusions \in Nat
    /\ MaxClock \in Nat /\ MaxSent \in Nat /\ MaxFaults \in Nat

VARIABLES
    rows,           \* table data_intents, by id
    inclusions,     \* table intent_inclusions: pairs <<id, tx>>
    savedCount,     \* finalCount of the persisted anchor
    clock,          \* the database's clock
    pendingIntents, lastSync, includedIntents, cacheInclusions, \* DataIntentTracker
    sent,           \* transactions the node accepted, records [nonce, fee, ids]
    pendingTxs,     \* pending_transactions, by nonce
    repriced,       \* repriced_transactions
    cache,          \* cache_transactions_by_hash: "pending" or "included"
    onChain,        \* what used each nonce on the head chain, records [tx, held]
    finalCount,     \* how many of these the anchor has
    deepest,        \* how many of them an anchor ever had: no reorganisation is deeper
    price,          \* the head's price
    job,            \* what the sender is doing: <<>> or <<record>>
    fin,            \* where maybe_advance_anchor_block is: <<>> or <<record>>
    drop,           \* a cancellation or an eviction: <<>> or <<record>>
    toCheck,        \* the consistency check has not run since the start
    faults

dbVars == <<rows, inclusions, savedCount, clock>>
trackerVars == <<pendingIntents, lastSync, includedIntents, cacheInclusions>>
syncVars == <<pendingTxs, repriced, cache, finalCount>>
chainVars == <<sent, onChain, deepest, price>>
vars == <<dbVars, trackerVars, syncVars, chainVars, job, fin, drop, toCheck, faults>>

Txs == DOMAIN sent
Committed == {i \in DOMAIN rows : rows[i].committed}

\* HashMap::insert of f at each of K, and HashMap::remove
With(f, K, v(_)) == [k \in DOMAIN f \union K |-> IF k \in K THEN v(k) ELSE f[k]]
Without(f, K) == [k \in DOMAIN f \ K |-> f[k]]

\* Vec::retain: the elements of s that are in S, in their order
Retain(s, S) == FlattenSeq([k \in DOMAIN s |-> IF s[k] \in S THEN <<s[k]>> ELSE <<>>])

\* A self-transfer has no intents.
Transfer(t) == sent[t].ids = {}

Fail == faults < MaxFaults /\ faults' = faults + 1

Init ==
    /\ rows = << >> /\ inclusions = {} /\ savedCount = 0 /\ clock = 0
    /\ pendingIntents = {} /\ lastSync = 0
    /\ includedIntents = << >> /\ cacheInclusions = << >>
    /\ sent = <<>> /\ pendingTxs = << >> /\ repriced = {} /\ cache = << >>
    /\ onChain = <<>> /\ finalCount = 0 /\ deepest = 0 /\ price \in Prices
    /\ job = <<>> /\ fin = <<>> /\ drop = <<>> /\ toCheck = FALSE
    /\ faults = 0

-----------------------------------------------------------------------------
(* Posting, and fetching what was posted *)

\* store_data_intent inserts the row in a database transaction ...
StoreDataIntent(i) ==
    /\ i \notin DOMAIN rows
    /\ rows' = With(rows, {i}, LAMBDA j : [at |-> clock, committed |-> FALSE, data |-> TRUE,
                                            cancelled |-> FALSE, finalized |-> FALSE,
                                            numbered |-> FALSE])
    /\ UNCHANGED <<inclusions, savedCount, clock, trackerVars, syncVars, chainVars, job,
                   fin, drop, toCheck, faults>>

\* ... that commits at some later time.
CommitIntent(i) ==
    /\ i \in DOMAIN rows \ Committed
    /\ rows' = [rows EXCEPT ![i].committed = TRUE]
    /\ UNCHANGED <<inclusions, savedCount, clock, trackerVars, syncVars, chainVars, job,
                   fin, drop, toCheck, faults>>

Tick ==
    /\ clock < MaxClock /\ clock' = clock + 1
    /\ UNCHANGED <<rows, inclusions, savedCount, trackerVars, syncVars, chainVars, job,
                   fin, drop, toCheck, faults>>

Live == {i \in Committed : ~rows[i].finalized /\ ~rows[i].cancelled}

\* Mutants of Fetched: cancelled rows are fetched too, or the window's start is left out.
FetchedCancelled(from) == {i \in Committed : ~rows[i].finalized /\ rows[i].at >= from}
FetchedAfter(from) == {i \in Live : rows[i].at > from}

\* The SELECT of sync_with_db: both ends of the window are included.
Fetched(from) == {i \in Live : rows[i].at >= from}

\* sync_with_db, under the tracker's write lock: by post_data, and by the sender
\* before it packs and after it has sent.  It may find rows of intents outside of the
\* model, too, the last of them at other.
SyncWithDb ==
    /\ pendingIntents' = pendingIntents \union Fetched(lastSync)
    /\ \E other \in {lastSync, clock} :
         lastSync' = Max({other} \union {rows[i].at : i \in Fetched(lastSync)})
    /\ UNCHANGED <<dbVars, includedIntents, cacheInclusions, syncVars, chainVars, job,
                   fin, drop, toCheck, faults>>

-----------------------------------------------------------------------------
(* The blob sender *)

Underpriced(t) == sent[t].fee < price

Uses(i) == IF i \in DOMAIN cacheInclusions THEN cacheInclusions[i] ELSE <<>>

\* get_all_intents_available_for_packing
Available ==
    {i \in pendingIntents :
       /\ Cap[i] >= price
       /\ Uses(i) # <<>> =>
            /\ Last(Uses(i)) \in DOMAIN cache /\ cache[Last(Uses(i))] = "pending"
            /\ Len(Uses(i)) < MaxInclusions
            /\ Underpriced(Last(Uses(i)))}

\* Packing chooses among the intents that are available, at the head's price.
Pack ==
    /\ job = <<>>
    /\ \E ids \in (SUBSET Available) \ {{}} :
         job' = <<[step |-> "packed", ids |-> ids, price |-> price, tx |-> 0]>>
    /\ UNCHANGED <<dbVars, trackerVars, syncVars, chainVars, fin, drop, toCheck, faults>>

UsableNonces ==
    {n \in Len(onChain) + 1 .. Len(onChain) + MaxPending :
       n \in DOMAIN pendingTxs => Underpriced(pendingTxs[n])}

\* The nonce and fee of the packed transaction: reprice_to_at_least what it replaces.
NextNonce == Min(UsableNonces)
NextFee == IF NextNonce \in DOMAIN pendingTxs
           THEN Max({job[1].price, sent[pendingTxs[NextNonce]].fee + 1})
           ELSE job[1].price

\* The node wants an unused nonce, and a fee above those of the versions it has.
Accepts(n, fee) ==
    /\ n > Len(onChain)
    /\ \A t \in Txs : sent[t].nonce = n => fee > sent[t].fee

\* data_intents_by_id finds a row whose data was pruned, no nonce is available, or
\* the node rejects the transaction.
GiveUp ==
    /\ job # <<>> /\ job[1].step = "packed"
    /\ \/ \E i \in job[1].ids : ~rows[i].data
       \/ UsableNonces = {}
       \/ UsableNonces # {} /\ ~Accepts(NextNonce, NextFee)
    /\ job' = <<>>
    /\ UNCHANGED <<dbVars, trackerVars, syncVars, chainVars, fin, drop, toCheck, faults>>

Send(n, ids, fee, step) ==
    /\ Len(sent) < MaxSent
    /\ Accepts(n, fee)
    /\ sent' = Append(sent, [nonce |-> n, fee |-> fee, ids |-> ids])
    /\ job' = <<[step |-> step, ids |-> ids, price |-> fee, tx |-> Len(sent) + 1]>>

\* construct_and_send_tx, from rows read without regard to what became of them
SendBlobTx ==
    /\ job # <<>> /\ job[1].step = "packed" /\ UsableNonces # {}
    /\ \A i \in job[1].ids : rows[i].data
    /\ Send(NextNonce, job[1].ids, NextFee, "sent")
    /\ UNCHANGED <<dbVars, trackerVars, syncVars, onChain, deepest, price, fin, drop, toCheck, faults>>

\* Packing finds no viable set, which can happen whatever is available, and every
\* pending transaction is underpriced.
SendSelfTransfer ==
    /\ job = <<>>
    /\ DOMAIN pendingTxs # {} /\ \A n \in DOMAIN pendingTxs : Underpriced(pendingTxs[n])
    /\ LET n == Min(DOMAIN pendingTxs)
       IN  Send(n, {}, Max({price, sent[pendingTxs[n]].fee + 1}), "recorded")
    /\ UNCHANGED <<dbVars, trackerVars, syncVars, onChain, deepest, price, fin, drop, toCheck, faults>>

\* insert_many_intent_tx_inclusions, all under the tracker's write lock
RecordInclusions ==
    /\ job # <<>> /\ job[1].step = "sent"
    /\ LET t == job[1].tx
           ids == job[1].ids
       IN  /\ inclusions' = inclusions \union (ids \X {t})
           /\ cacheInclusions' = With(cacheInclusions, ids, LAMBDA i : Append(Uses(i), t))
           /\ includedIntents' = With(includedIntents, {t}, LAMBDA u : ids)
    /\ job' = <<[job[1] EXCEPT !.step = "recorded"]>>
    /\ UNCHANGED <<rows, savedCount, clock, pendingIntents, lastSync, syncVars, chainVars,
                   fin, drop, toCheck, faults>>

\* BlockSync::register_sent_blob_tx or register_sent_self_transfer
RegisterSent ==
    /\ job # <<>> /\ job[1].step = "recorded"
    /\ LET t == job[1].tx
       IN  /\ repriced' = repriced \union {pendingTxs[n] : n \in DOMAIN pendingTxs \intersect {sent[t].nonce}}
           /\ pendingTxs' = With(pendingTxs, {sent[t].nonce}, LAMBDA n : t)
           /\ cache' = With(cache, {t}, LAMBDA u : "pending")
    /\ job' = <<>>
    /\ UNCHANGED <<dbVars, trackerVars, finalCount, chainVars, fin, drop, toCheck, faults>>

\* The INSERT fails, whether or not the rows were written: the sender gives up a
\* transaction the node has.
RecordFails ==
    /\ job # <<>> /\ job[1].step = "sent"
    /\ Fail
    /\ inclusions' \in {inclusions, inclusions \union (job[1].ids \X {job[1].tx})}
    /\ job' = <<>>
    /\ UNCHANGED <<rows, savedCount, clock, trackerVars, syncVars, chainVars, fin, drop,
                   toCheck>>

-----------------------------------------------------------------------------
(* The chain, as BlockSync sees it *)

\* Mutant of Mine: the cache keeps the status of what is mined.
MineStale(t, p) ==
    /\ sent[t].nonce = Len(onChain) + 1 /\ sent[t].fee >= p
    /\ LET held == IF Transfer(t) THEN {pendingTxs[n] : n \in DOMAIN pendingTxs \intersect {sent[t].nonce}}
                   ELSE {}
       IN  /\ onChain' = Append(onChain, [tx |-> t, held |-> held])
           /\ cache' = IF Transfer(t) THEN Without(cache, held) ELSE cache
    /\ pendingTxs' = Without(pendingTxs, {sent[t].nonce})
    /\ price' = p
    /\ UNCHANGED <<dbVars, trackerVars, sent, deepest, repriced, finalCount, job, fin, drop,
                   toCheck, faults>>

\* A block with t: the next nonce of the head chain, at a price t pays.  A transfer
\* takes with it what was pending at its nonce.
Mine(t, p) ==
    /\ sent[t].nonce = Len(onChain) + 1 /\ sent[t].fee >= p
    /\ LET held == IF Transfer(t) THEN {pendingTxs[n] : n \in DOMAIN pendingTxs \intersect {sent[t].nonce}}
                   ELSE {}
       IN  /\ onChain' = Append(onChain, [tx |-> t, held |-> held])
           /\ cache' = IF Transfer(t) THEN Without(cache, held)
                       ELSE With(cache, {t}, LAMBDA u : "included")
    /\ pendingTxs' = Without(pendingTxs, {sent[t].nonce})
    /\ price' = p
    /\ UNCHANGED <<dbVars, trackerVars, sent, deepest, repriced, finalCount, job, fin, drop,
                   toCheck, faults>>

\* A block without our transactions.
MineEmpty(p) ==
    /\ price' = p
    /\ UNCHANGED <<dbVars, trackerVars, syncVars, sent, onChain, deepest, job, fin, drop, toCheck,
                   faults>>

\* A reorganisation back to the first k: what the dropped blocks had is pending again.
Reorg(k) ==
    /\ Reorgs /\ k \in deepest .. Len(onChain) - 1
    /\ LET back == UNION {IF Transfer(onChain[n].tx) THEN onChain[n].held ELSE {onChain[n].tx} :
                         n \in k + 1 .. Len(onChain)}
       IN  /\ pendingTxs' = With(pendingTxs, {sent[t].nonce : t \in back},
                                  LAMBDA n : CHOOSE t \in back : sent[t].nonce = n)
           /\ cache' = With(cache, back, LAMBDA t : "pending")
    /\ onChain' = SubSeq(onChain, 1, k)
    /\ UNCHANGED <<dbVars, trackerVars, sent, deepest, repriced, finalCount, price, job, fin,
                   drop, toCheck, faults>>

-----------------------------------------------------------------------------
(* maybe_advance_anchor_block of app.rs, by the block subscriber *)

\* The repriced transactions of the nonces that the first k on the chain finalize.
Losers(k) == {t \in repriced : sent[t].nonce \in finalCount + 1 .. k}

\* BlockSync::maybe_advance_anchor_block, under the lock of sync.
AdvanceAnchor(k) ==
    /\ fin = <<>> /\ k \in finalCount + 1 .. Len(onChain)
    /\ LET blobs == {t \in {onChain[n].tx : n \in finalCount + 1 .. k} : ~Transfer(t)}
       IN  /\ fin' = <<[step |-> "advanced", ids |-> {}, included |-> blobs,
                        excluded |-> Losers(k)]>>
           /\ cache' = Without(cache, blobs \union Losers(k))
    /\ repriced' = repriced \ Losers(k)
    /\ finalCount' = k /\ deepest' = Max({deepest, k})
    /\ UNCHANGED <<dbVars, trackerVars, pendingTxs, sent, onChain, price, job, drop, toCheck,
                   faults>>

\* Mutant of FinalizeTxs: the uses stay.
KeepUses ==
    /\ fin # <<>> /\ fin[1].step = "advanced"
    /\ LET known == fin[1].included \intersect DOMAIN includedIntents
           ids   == UNION {includedIntents[t] : t \in known}
       IN  /\ pendingIntents' = pendingIntents \ ids
           /\ includedIntents' = Without(includedIntents, known)
           /\ fin' = <<[fin[1] EXCEPT !.step = "finalized", !.ids = ids]>>
    /\ UNCHANGED <<dbVars, lastSync, cacheInclusions, syncVars, chainVars, job, drop, toCheck,
                   faults>>

\* finalize_tx of each included transaction, under one lock of the tracker
FinalizeTxs ==
    /\ fin # <<>> /\ fin[1].step = "advanced"
    /\ LET known == fin[1].included \intersect DOMAIN includedIntents
           ids   == UNION {includedIntents[t] : t \in known}
       IN  /\ pendingIntents' = pendingIntents \ ids
           /\ cacheInclusions' = Without(cacheInclusions, ids)
           /\ includedIntents' = Without(includedIntents, known)
           /\ fin' = <<[fin[1] EXCEPT !.step = "finalized", !.ids = ids]>>
    /\ UNCHANGED <<dbVars, lastSync, syncVars, chainVars, job, drop, toCheck, faults>>

MarkFinalized(ids) ==
    rows' = [i \in DOMAIN rows |->
               IF i \in ids THEN [rows[i] EXCEPT !.finalized = TRUE, !.at = clock] ELSE rows[i]]

\* mark_data_intents_as_inclusion_finalized ...
MarkIncluded ==
    /\ fin # <<>> /\ fin[1].step = "finalized"
    /\ MarkFinalized(fin[1].ids)
    /\ fin' = <<[fin[1] EXCEPT !.step = "numbering"]>>
    /\ UNCHANGED <<inclusions, savedCount, clock, trackerVars, syncVars, chainVars, job,
                   drop, toCheck, faults>>

\* ... and set_finalized_block_number, without which a row is never pruned
SetFinalizedBlockNumber ==
    /\ fin # <<>> /\ fin[1].step = "numbering"
    /\ rows' = [i \in DOMAIN rows |->
                  IF i \in fin[1].ids THEN [rows[i] EXCEPT !.numbered = TRUE, !.at = clock]
                  ELSE rows[i]]
    /\ fin' = <<[fin[1] EXCEPT !.step = "marked"]>>
    /\ UNCHANGED <<inclusions, savedCount, clock, trackerVars, syncVars, chainVars, job,
                   drop, toCheck, faults>>

\* Mutant of DropExcluded: the excluded transactions' uses stay.
KeepExcluded ==
    /\ fin # <<>> /\ fin[1].step = "marked"
    /\ fin' = <<[fin[1] EXCEPT !.step = "dropped"]>>
    /\ UNCHANGED <<dbVars, trackerVars, syncVars, chainVars, job, drop, toCheck, faults>>

\* drop_excluded_tx of each excluded transaction, under one lock of the tracker
DropExcluded ==
    /\ fin # <<>> /\ fin[1].step = "marked"
    /\ LET known   == fin[1].excluded \intersect DOMAIN includedIntents
           kept(i) == Retain(Uses(i), Txs \ {t \in known : i \in includedIntents[t]})
       IN  /\ cacheInclusions' = [i \in {j \in DOMAIN cacheInclusions : kept(j) # <<>>} |-> kept(i)]
           /\ includedIntents' = Without(includedIntents, known)
    /\ fin' = <<[fin[1] EXCEPT !.step = "dropped"]>>
    /\ UNCHANGED <<dbVars, pendingIntents, lastSync, syncVars, chainVars, job, drop, toCheck,
                   faults>>

\* Mutant of DeleteInclusions: every inclusion of the transaction's intents is deleted.
DeleteOfIntents ==
    /\ fin # <<>> /\ fin[1].step = "dropped" /\ fin[1].excluded # {}
    /\ \E t \in fin[1].excluded :
         /\ inclusions' = {r \in inclusions : r[1] \notin sent[t].ids}
         /\ fin' = <<[fin[1] EXCEPT !.excluded = @ \ {t}]>>
    /\ UNCHANGED <<rows, savedCount, clock, trackerVars, syncVars, chainVars, job, drop,
                   toCheck, faults>>

\* delete_intent_inclusions_by_tx_hash, a statement for each excluded transaction
DeleteInclusions ==
    /\ fin # <<>> /\ fin[1].step = "dropped" /\ fin[1].excluded # {}
    /\ \E t \in fin[1].excluded :
         /\ inclusions' = {r \in inclusions : r[2] # t}
         /\ fin' = <<[fin[1] EXCEPT !.excluded = @ \ {t}]>>
    /\ UNCHANGED <<rows, savedCount, clock, trackerVars, syncVars, chainVars, job, drop,
                   toCheck, faults>>

\* The UPDATE of prune_finalized_intent_data; some rows are old enough.
Prunable == {i \in DOMAIN rows : rows[i].finalized /\ rows[i].data /\ rows[i].numbered}

\* persist_anchor_block_to_db, then the pruning
PersistAnchor ==
    /\ fin # <<>> /\ fin[1].step = "dropped" /\ fin[1].excluded = {}
    /\ savedCount' = finalCount
    /\ \E old \in SUBSET Prunable :
         rows' = [i \in DOMAIN rows |->
                    IF i \in old THEN [rows[i] EXCEPT !.data = FALSE, !.at = clock] ELSE rows[i]]
    /\ fin' = <<>>
    /\ UNCHANGED <<inclusions, clock, trackerVars, syncVars, chainVars, job, drop, toCheck,
                   faults>>

\* A statement fails: the rest is not done, and nothing remembers it.
FinalizeFails ==
    /\ fin # <<>> /\ fin[1].step \in {"finalized", "numbering", "marked", "dropped"}
    /\ Fail
    /\ fin' = <<>>
    /\ UNCHANGED <<dbVars, trackerVars, syncVars, chainVars, job, drop, toCheck>>

-----------------------------------------------------------------------------
(* Cancellation and eviction *)

\* cancel_data_intent up to its last check: the row is there and not cancelled, the
\* tracker knows no inclusion.
CheckCancel(i) ==
    /\ drop = <<>>
    /\ i \in Committed /\ ~rows[i].cancelled /\ Uses(i) = <<>>
    /\ drop' = <<[ids |-> {i}, marked |-> {}]>>
    /\ UNCHANGED <<dbVars, trackerVars, syncVars, chainVars, job, fin, toCheck, faults>>

\* find_stale_underpriced_intents; some are old enough
FindStale(ids) ==
    /\ drop = <<>> /\ ids # {} /\ ids \subseteq pendingIntents
    /\ \A i \in ids : Uses(i) = <<>> /\ Cap[i] < price
    /\ drop' = <<[ids |-> ids, marked |-> {}]>>
    /\ UNCHANGED <<dbVars, trackerVars, syncVars, chainVars, job, fin, toCheck, faults>>

\* mark_data_intent_cancelled, a statement for each
MarkCancelled ==
    /\ drop # <<>>
    /\ \E i \in drop[1].ids \ drop[1].marked :
         /\ rows' = [rows EXCEPT ![i].cancelled = TRUE, ![i].at = clock]
         /\ drop' = <<[drop[1] EXCEPT !.marked = @ \union {i}]>>
    /\ UNCHANGED <<inclusions, savedCount, clock, trackerVars, syncVars, chainVars, job, fin,
                   toCheck, faults>>

\* remove_pending_intent, once all are marked
RemovePending ==
    /\ drop # <<>> /\ drop[1].ids = drop[1].marked
    /\ pendingIntents' = pendingIntents \ drop[1].ids
    /\ drop' = <<>>
    /\ UNCHANGED <<dbVars, lastSync, includedIntents, cacheInclusions, syncVars, chainVars,
                   job, fin, toCheck, faults>>

\* A statement fails: the handler returns, and removes nothing.
DropFails ==
    /\ drop # <<>> /\ drop[1].ids # drop[1].marked
    /\ Fail
    /\ drop' = <<>>
    /\ UNCHANGED <<dbVars, trackerVars, syncVars, chainVars, job, fin, toCheck>>

-----------------------------------------------------------------------------
(* Restart *)

\* The memory is lost.  The anchor comes back as persisted and the tracker fetches
\* every live row before the tasks start; the sender does nothing before the blocks
\* above the anchor are synced again (assert_node_synced), so they are here at once.
Restart ==
    /\ Fail
    /\ rows' = [i \in Committed |-> rows[i]]
    /\ LET live == Live
       IN  /\ pendingIntents' = live
           /\ lastSync' = Max({0} \union {rows[i].at : i \in live})
    /\ includedIntents' = << >> /\ cacheInclusions' = << >>
    /\ finalCount' = savedCount
    /\ onChain' = [n \in DOMAIN onChain |-> [onChain[n] EXCEPT !.held = {}]]
    /\ pendingTxs' = << >> /\ repriced' = {}
    /\ cache' = [t \in {onChain[n].tx : n \in savedCount + 1 .. Len(onChain)} |-> "included"]
    /\ job' = <<>> /\ fin' = <<>> /\ drop' = <<>> /\ toCheck' = TRUE
    /\ UNCHANGED <<inclusions, savedCount, clock, sent, deepest, price>>

\* fetch_all_intents_with_inclusion_not_finalized
NotFinalized == {r \in inclusions : r[1] \in DOMAIN rows /\ ~rows[r[1]].finalized}

\* Mutant of ConsistencyCheck: it asks for an inclusion, not for a final one.
CheckIncluded ==
    /\ toCheck /\ toCheck' = FALSE
    /\ MarkFinalized({r[1] : r \in NotFinalized})
    /\ UNCHANGED <<inclusions, savedCount, clock, trackerVars, syncVars, chainVars, job, fin,
                   drop, faults>>

\* initial_consistency_check_intents_with_inclusion_finalized, a task of its own
ConsistencyCheck ==
    /\ toCheck /\ toCheck' = FALSE
    /\ LET final == {onChain[n].tx : n \in 1 .. finalCount}
       IN  MarkFinalized({r[1] : r \in {q \in NotFinalized : q[2] \in final}})
    /\ UNCHANGED <<inclusions, savedCount, clock, trackerVars, syncVars, chainVars, job, fin,
                   drop, faults>>

-----------------------------------------------------------------------------

Api == \/ \E i \in Intents : StoreDataIntent(i) \/ CommitIntent(i) \/ CheckCancel(i)
       \/ SyncWithDb

Sender == \/ Pack \/ GiveUp \/ SendBlobTx \/ SendSelfTransfer \/ RecordInclusions \/ RegisterSent

Subscriber == \/ \E k \in 1 .. MaxSent : AdvanceAnchor(k)
              \/ FinalizeTxs \/ MarkIncluded \/ SetFinalizedBlockNumber
              \/ DropExcluded \/ DeleteInclusions \/ PersistAnchor

Dropping == \/ \E ids \in SUBSET Intents : FindStale(ids)
            \/ MarkCancelled \/ RemovePending

Environment == \/ \E t \in Txs, p \in Prices : Mine(t, p)
               \/ \E p \in Prices : MineEmpty(p)
               \/ \E k \in 0 .. MaxSent : Reorg(k)
               \/ Tick

Faults == RecordFails \/ FinalizeFails \/ DropFails \/ Restart

Next == Api \/ Sender \/ Subscriber \/ Dropping \/ Environment \/ Faults \/ ConsistencyCheck

Spec == Init /\ [][Next]_vars

-----------------------------------------------------------------------------
(* Properties *)

\* IndexesAgree: the tracker's two indexes never disagree on an inclusion it could
\* still offer for packing: whatever order sending, finalizing and excluding take,
\* an intent counts a transaction among its uses, and once, only if that
\* transaction lists it.
IndexesAgree ==
    \A i \in DOMAIN cacheInclusions :
      /\ IsInjective(Uses(i))
      /\ \A t \in Range(Uses(i)) : t \in DOMAIN includedIntents /\ i \in includedIntents[t]

\* InclusionsStored: the tracker knows of no inclusion that the table lacks, so that
\* the status of an intent that is not offered for packing is never Pending, though
\* either side is updated first in some handler and any statement may fail.
InclusionsStored ==
    \A i \in DOMAIN cacheInclusions : \A t \in Range(Uses(i)) : <<i, t>> \in inclusions

\* FinalizedIsFinal: a row is marked finalized only for a transaction that is under
\* an anchor, whichever of finalization, a crash in its middle, the consistency check
\* at the next start and a second finalization gets to mark it.
FinalizedIsFinal ==
    \A i \in DOMAIN rows :
      rows[i].finalized => \E n \in 1 .. deepest : i \in sent[onChain[n].tx].ids

\* CancelledStaysOut: once a cancellation or eviction is over its intents are out of
\* the pool for good: no fetch that overlaps with it brings one back.  (A statement
\* that fails half-way through an eviction leaves in the pool what was marked before.)
CancelledStaysOut ==
    \A i \in pendingIntents :
      rows[i].cancelled /\ faults = 0 => drop # <<>> /\ i \in drop[1].ids

Final == UNION {sent[onChain[n].tx].ids : n \in 1 .. finalCount}

\* A row that no later fetch returns, being older than the last fetched timestamp, of a
\* live intent that is not in the pool.
Missed(i) == rows[i].at < lastSync /\ i \notin pendingIntents /\ i \in Live \ Final

\* FetchesAll: an intent is missed by the fetches only if its row was not visible yet
\* when a later one was fetched, having been committed after it: whatever else happens
\* to rows and window, no visible row falls out of it (data_intent_tracker.rs: "Before
\* each packing run check if there are new records after the last fetched timestamp").
FetchesAll == [][\A i \in Committed : Missed(i)' => Missed(i)]_vars

InBlocks == UNION {sent[onChain[n].tx].ids : n \in finalCount + 1 .. Len(onChain)}

\* What BlockSync takes for pending though it is mined, having been mined before it was
\* registered.
RegisteredLate == {pendingTxs[n] : n \in {m \in DOMAIN pendingTxs : m <= Len(onChain)}}

\* NotRebundled: while nothing fails, what packing is offered is not in a block above
\* the anchor (app.rs: "Do not re-bundle intents part of a block"), unless the intent
\* has been sent again in a later transaction, or the one in the block was mined before
\* it was registered.  (What is packed may be mined before it is sent again.)
NotRebundled ==
    [][\A k \in DOMAIN job' :
         job = <<>> /\ job'[k].step = "packed" /\ faults = 0 =>
           \A i \in (job'[k].ids \intersect InBlocks) \ Final :
             Last(Uses(i)) \in RegisteredLate
             \/ \A n \in DOMAIN onChain : onChain[n].tx # Last(Uses(i))]_vars
=============================================================================
