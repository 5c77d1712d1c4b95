------------------------------ MODULE Admission ------------------------------
(***************************************************************************)
(* POST /v1/data (routes/post_data.rs): its checks against the pool and    *)
(* the user's balance, and the database transaction that checks the nonce  *)
(* and stores the intent, or its chunks.  Requests run concurrently with   *)
(* each other, and with the sender and the subscriber of IntentPool.       *)
(*                                                                         *)
(* An intent is <<p, k>>: chunk k of the post p.  Both reads of a balance  *)
(* or of a pending length are one step: the first guard is held until the  *)
(* second read, so both values are those of the second.                    *)
(***************************************************************************)
EXTENDS IntentPool

CONSTANTS
    Posts,          \* the requests
    Users, Owner,   \* from
    Nonce, PostLen, MaxPrice, \* nonce, data_len and max_blob_gas_price of each
    Deposit,        \* what each user has paid in
    MaxDataSize,    \* max_data_size
    MaxUserLen,     \* MAX_PENDING_DATA_LEN_PER_USER
    ChunkLen,       \* MAX_USABLE_BLOB_DATA_LEN
    MinCharged,     \* MIN_CHARGEABLE_DATA_LEN
    MaxNonce        \* i64::MAX

\* split_into_chunks, by length; an empty post is one intent without data.
Chunks(p) == IF PostLen[p] <= ChunkLen THEN 1 ELSE (PostLen[p] + ChunkLen - 1) \div ChunkLen
LenOf(i) == IF i[2] < Chunks(i[1]) THEN ChunkLen ELSE PostLen[i[1]] - ChunkLen * (i[2] - 1)

ChunksOf(p) == {p} \X (1 .. Chunks(p))

ASSUME AdmissionAssumption ==
    /\ Owner \in [Posts -> Users] /\ Nonce \in [Posts -> Nat]
    /\ PostLen \in [Posts -> Nat] /\ MaxPrice \in [Posts -> Nat]
    /\ Deposit \in [Users -> Nat]
    /\ MaxDataSize \in Nat /\ MaxUserLen \in Nat /\ MaxNonce \in Nat
    /\ ChunkLen \in Nat \ {0} /\ MinCharged \in Nat
    /\ Intents = UNION {ChunksOf(p) : p \in Posts}
    /\ Cap = [i \in Intents |-> MaxPrice[i[1]]]

VARIABLES
    post,           \* where each request is
    nonces,         \* table users: the rows and their post_data_nonce
    minedAt,        \* the price of the block that has each entry of onChain
    forgotten       \* history: transactions that BlockSync had registered and lost sight of

postVars == <<post, nonces, minedAt, forgotten>>
allVars == <<vars, postVars>>

OwnerOf(i) == Owner[i[1]]
Of(u, ids) == {i \in ids : OwnerOf(i) = u}

\* Some users have posted before, with nonce 0.
InitAdmission ==
    /\ Init
    /\ post = [p \in Posts |-> "new"]
    /\ nonces \in UNION {[known -> {0}] : known \in SUBSET Users}
    /\ minedAt = <<>> /\ forgotten = {}

-----------------------------------------------------------------------------
(* The checks *)

\* DataIntent::max_cost, and that of an intent's summary
MaxCost(len, maxPrice) == Max({len, MinCharged}) * maxPrice

TotalLen(ids) == MapThenSumSet(LenOf, ids)

\* The intents of non_included_intents_total_cost and of .._total_data_len
NonIncluded(u) == Of(u, pendingIntents \ DOMAIN cacheInclusions)

\* BlockSync::pending_txs_data_len
PendingTxsLen(u) ==
    MapThenSumSet(LAMBDA n : TotalLen(Of(u, sent[pendingTxs[n]].ids)), DOMAIN pendingTxs)

\* Mutant of PendingTotalDataLen: what is in pending transactions is not counted.
PoolDataLen(u) == TotalLen(NonIncluded(u))

PendingTotalDataLen(u) == TotalLen(NonIncluded(u)) + PendingTxsLen(u)

\* What transaction t costs u at a price: one unit of blob gas per byte, the unused
\* part of the blob and the EVM gas left out (module Packing).
TxCost(t, u, p) == TotalLen(Of(u, sent[t].ids)) * p

\* BlockSync::balance_with_pending
BalanceWithPending(u) ==
    Deposit[u]
      - MapThenSumSet(LAMBDA n : TxCost(onChain[n].tx, u, minedAt[n]), DOMAIN onChain)
      - MapThenSumSet(LAMBDA n : TxCost(pendingTxs[n], u, sent[pendingTxs[n]].fee), DOMAIN pendingTxs)

BalanceOfUser(u) ==
    BalanceWithPending(u) - MapThenSumSet(LAMBDA i : MaxCost(LenOf(i), Cap[i]), NonIncluded(u))

Go(p, from, to) == post[p] = from /\ post' = [post EXCEPT ![p] = to]

TooLong(p) ==
    \/ PostLen[p] > MaxDataSize
    \/ PendingTotalDataLen(Owner[p]) + PostLen[p] > MaxUserLen

Unpaid(p) == BalanceOfUser(Owner[p]) < MaxCost(PostLen[p], MaxPrice[p])

CheckLen(p) == Go(p, "new", "sync") /\ ~TooLong(p) /\ UNCHANGED <<vars, nonces, minedAt, forgotten>>

\* sync_data_intents
SyncForPost(p) == Go(p, "sync", "balance") /\ SyncWithDb /\ UNCHANGED <<nonces, minedAt, forgotten>>

CheckBalance(p) == Go(p, "balance", "begin") /\ ~Unpaid(p) /\ UNCHANGED <<vars, nonces, minedAt, forgotten>>

Refuse(p) ==
    /\ \/ Go(p, "new", "refused") /\ TooLong(p)
       \/ Go(p, "balance", "refused") /\ Unpaid(p)
    /\ UNCHANGED <<vars, nonces, minedAt, forgotten>>

-----------------------------------------------------------------------------
(* The database transaction: atomic_update_post_data_on_unsafe_channel, or *)
(* atomic_update_post_data_chunks.  Isolation is MySQL's default: SELECT   *)
(* ... FOR UPDATE takes the user's row, and where there is none a gap lock *)
(* that others may take too and that an INSERT of another waits for.       *)

Others(p, steps) == {q \in Posts \ {p} : Owner[q] = Owner[p] /\ post[q] \in steps}

\* Mutant of UserRowFree: the nonce is read without FOR UPDATE.
RowNotAsked(p) == TRUE

UserRowFree(p) ==
    Others(p, IF Owner[p] \in DOMAIN nonces THEN {"locked", "storing"} ELSE {"storing"}) = {}

\* SELECT post_data_nonce ... FOR UPDATE, and the check of the nonce: on its failure
\* the transaction is rolled back.
SelectNonce(p) ==
    /\ Go(p, "begin", IF Owner[p] \notin DOMAIN nonces THEN "gap"
                      ELSE IF Nonce[p] <= nonces[Owner[p]] THEN "refused" ELSE "locked")
    /\ UserRowFree(p)
    /\ UNCHANGED <<vars, nonces, minedAt, forgotten>>

\* upsert_user_nonce, seen by nobody before the commit
UpsertUserNonce(p) ==
    /\ \/ post[p] = "locked"
       \/ post[p] = "gap" /\ Others(p, {"gap"}) = {}
    /\ post' = [post EXCEPT ![p] = IF Nonce[p] <= MaxNonce THEN "storing" ELSE "refused"]
    /\ UNCHANGED <<vars, nonces, minedAt, forgotten>>

\* Two INSERTs wait for each other's gap lock: the database rolls one of them back.
GapDeadlock(p) ==
    /\ Others(p, {"gap"}) # {}
    /\ Go(p, "gap", "refused")
    /\ UNCHANGED <<vars, nonces, minedAt, forgotten>>

Stored(p) == ChunksOf(p) \intersect DOMAIN rows

StoreChunk(p) ==
    /\ post[p] = "storing" /\ Stored(p) # ChunksOf(p)
    /\ StoreDataIntent(<<p, Cardinality(Stored(p)) + 1>>)
    /\ UNCHANGED postVars

\* Mutant of Commit: each chunk is committed by itself.
CommitEarly(p) ==
    /\ Stored(p) # {}
    /\ Go(p, "storing", IF Stored(p) = ChunksOf(p) THEN "stored" ELSE "storing")
    /\ rows' = [i \in DOMAIN rows |-> IF i \in Stored(p) THEN [rows[i] EXCEPT !.committed = TRUE]
                                     ELSE rows[i]]
    /\ nonces' = With(nonces, {Owner[p]}, LAMBDA u : Nonce[p])
    /\ UNCHANGED <<inclusions, savedCount, clock, trackerVars, syncVars, chainVars, job,
                   fin, drop, toCheck, faults, minedAt, forgotten>>

Commit(p) ==
    /\ Stored(p) = ChunksOf(p)
    /\ Go(p, "storing", "stored")
    /\ rows' = [i \in DOMAIN rows |-> IF i \in Stored(p) THEN [rows[i] EXCEPT !.committed = TRUE]
                                     ELSE rows[i]]
    /\ nonces' = With(nonces, {Owner[p]}, LAMBDA u : Nonce[p])
    /\ UNCHANGED <<inclusions, savedCount, clock, trackerVars, syncVars, chainVars, job,
                   fin, drop, toCheck, faults, minedAt, forgotten>>

\* A statement fails: the transaction is rolled back, and the request is over.
Rollback(p) ==
    /\ post[p] \in {"begin", "gap", "locked", "storing"}
    /\ post' = [post EXCEPT ![p] = "refused"]
    /\ rows' = Without(rows, Stored(p))
    /\ UNCHANGED <<inclusions, savedCount, clock, trackerVars, syncVars, chainVars, job,
                   fin, drop, toCheck, faults, nonces, minedAt, forgotten>>

PostData(p) ==
    \/ CheckLen(p) \/ SyncForPost(p) \/ CheckBalance(p) \/ Refuse(p)
    \/ SelectNonce(p) \/ UpsertUserNonce(p) \/ GapDeadlock(p)
    \/ StoreChunk(p) \/ Commit(p) \/ Rollback(p)

-----------------------------------------------------------------------------

(* The rest of the bundler goes on as in IntentPool. *)

Mined == UNION {{b.tx} \union b.held : b \in Range(onChain)}

\* BlockSync forgets what another version of it takes the place of in pending_transactions
\* or in a block: it becomes neither pending again nor repriced.
Supersede ==
    forgotten' = (forgotten \union Range(pendingTxs)) \ (Range(pendingTxs') \union Mined')

MineAt(t, p) ==
    /\ Mine(t, p) /\ Supersede
    /\ minedAt' = Append(minedAt, p) /\ UNCHANGED <<post, nonces>>

ReorgAt(k) ==
    /\ Reorg(k) /\ Supersede
    /\ minedAt' = SubSeq(minedAt, 1, k) /\ UNCHANGED <<post, nonces>>

\* Finalization fails, and with it the excluded transactions are out of sight.
LoseExcluded ==
    /\ FinalizeFails
    /\ forgotten' = forgotten \union fin[1].excluded
    /\ UNCHANGED <<post, nonces, minedAt>>

\* Requests that are under way end with the bundler, and their database transactions.
RestartAll ==
    /\ Restart
    /\ post' = [p \in Posts |-> IF post[p] \in {"new", "stored"} THEN post[p] ELSE "refused"]
    /\ forgotten' = {}
    /\ UNCHANGED <<nonces, minedAt>>

Elsewhere ==
    /\ \/ SyncWithDb \/ Sender \/ Subscriber \/ Dropping \/ ConsistencyCheck
       \/ RecordFails \/ DropFails \/ Tick
       \/ \E i \in Intents : CheckCancel(i)
       \/ \E p \in Prices : MineEmpty(p)
    /\ UNCHANGED postVars

NextAdmission ==
    \/ \E p \in Posts : PostData(p)
    \/ \E t \in Txs, p \in Prices : MineAt(t, p)
    \/ \E k \in 0 .. MaxSent : ReorgAt(k)
    \/ LoseExcluded \/ RestartAll
    \/ Elsewhere

SpecAdmission == InitAdmission /\ [][NextAdmission]_allVars

-----------------------------------------------------------------------------
(* Properties *)

\* ReplayProtected: of the requests with one nonce of a user, however they overlap
\* and also where the user has no row yet, one is stored at most, and the row keeps
\* the highest nonce stored.
ReplayProtected ==
    \A p \in Posts : post[p] = "stored" =>
       /\ Nonce[p] <= nonces[Owner[p]]
       /\ \A q \in Posts \ {p} :
            post[q] = "stored" /\ Owner[q] = Owner[p] => Nonce[q] # Nonce[p]

\* StoredWhole: what other tasks see of a post is nothing, or all of its
\* chunks and with them the nonce that protects it, whatever fails in between.
StoredWhole ==
    \A p \in Posts : ChunksOf(p) \intersect Committed # {} =>
       /\ ChunksOf(p) \subseteq Committed
       /\ post[p] = "stored" /\ Owner[p] \in DOMAIN nonces

\* Intents in the pool whose data does not count, or not now: they are not offered for
\* packing, and each transaction with them is in a block, or recorded and not registered
\* yet, or replaced by one that may be without them and not deleted yet, or forgotten.
Uncounted ==
    {i \in pendingIntents :
       /\ Uses(i) # <<>>
       /\ \A t \in Range(Uses(i)) :
            \/ t \in Mined
            \/ job # <<>> /\ job[1].step = "recorded" /\ job[1].tx = t
            \/ t \in repriced \union UNION {f.excluded : f \in Range(fin)}
            \/ t \in forgotten}

\* LimitSeesPool: apart from these, the length that a new post is checked with counts
\* every intent of the user in the pool, in whatever order it is sent, replaced, mined,
\* reorganised out of its block, excluded and offered again, and whatever fails.
LimitSeesPool ==
    \A u \in Users : PendingTotalDataLen(u) >= TotalLen(Of(u, pendingIntents \ Uncounted))
=============================================================================
