# Blob share: specifications, model checking and proofs

The bundler of this repository collects small pieces of data ("intents") from
users, packs several of them into one EIP-4844 blob transaction, sends it from
one of its wallets, follows the chain to see what became of it, and charges each
user for their share. This directory holds TLA+ modules of that program, the TLC
configurations that check them on small instances, and theorems about them with
proofs for TLAPS.

`PROJECT.json` lists components, runs, mutants, the source lines each definition
models, findings, hazards and theorems.

## 1. Inventory

### Components, their state, their operations

| Component (under `src/bundler/src/`) | State | Operations | What makes it correct |
|---|---|---|---|
| block sync, `sync.rs` | anchor block with finalized balances; chain of unfinalized blocks; pending and repriced transactions; status by transaction hash | `sync_next_head`, `drop_reorged_blocks`, `maybe_advance_anchor_block`, `get_next_available_nonce`, `detect_nonce_deadlock`, `register_sent_*`, `balance_with_pending` | the chain is linked; each block counts once in the balances; no nonce in use is handed out; statuses follow reorganisations |
| block subscriber, `block_subscriber_task.rs` | position between sync, finalize and persist | one turn per `newHeads` notification | the head is followed; a lost notification is made up for |
| anchor persistence, `anchor_block.rs` | table `anchor_block` | DELETE then INSERT; read at start | a restart resumes from a final block |
| blob sender, `blob_sender_task.rs` | the transaction in the works | pack, pick a wallet and nonce, reprice, sign, send, register; self-transfer out of a nonce deadlock | nothing is sent twice, nothing sent is forgotten |
| intent pool, `data_intent_tracker.rs` | tables `data_intents`, `intent_inclusions`; in memory the pending summaries, two indexes of inclusions, the last fetched timestamp | fetch, record inclusions, finalize, drop excluded, cancel, evict | tables and indexes agree; a cancelled intent stays out; finalized means mined under the anchor |
| app, `app.rs`, `evict_stale_intents_task.rs` | both of the above, behind two read-write locks, and the database pool | post, cancel, evict, finalize, consistency check, initial sync, queries | the locks never hang; each step survives the failure of the next |
| packing, `packing.rs` | none | brute force, greedy, knapsack | the selection fits, pays, and is as long as promised |
| charges, `blob_tx_data.rs`, `gas.rs` | none | cost of a participation, repricing, is-underpriced | the participants pay the blob between them |
| http routes, `routes/` | none of their own | post, cancel, status, history, sync, gas | a post is admitted only if the user can pay, and its nonce is new |
| startup and tasks, `lib.rs`, `main.rs`, `remote_node_tracker_task.rs` | node head; what each task waits for; the permit of `Notify` | load, initial sync, join eight tasks, end | no post is left unattempted, an error in one task stops no other, an interrupt ends the process |
| back-off, `backoff.rs` | errors in a row | sleep after an error | a task that failed goes on |
| KZG and transaction encoding, `kzg.rs`, `reth_fork/` | none | pack bytes into field elements, build, sign, encode, decode, hash | what the node decodes is what was registered |
| consumer and beacon client, `consumer.rs`, `beacon_api_client.rs` | cache of responses | find the slot and the blob of a transaction, cut it into the data of the participants | users get their own data, and nobody else's |
| client library and CLI, `bundler_client*` | the run of a command | top up, sign, post, poll, read | the wait for an inclusion ends |
| explorer, `explorer/mod.rs` | none | pages of an address and of a transaction | the pages show every intent |
| execution node client, metrics, hex and serde helpers | none the program reads | forward, count, format | |

### How they interact

Everything runs in one process on the tokio runtime. The tasks `blob_sender_task`,
`block_subscriber_task`, `evict_stale_intents_task`, the consistency checks, the
node tracker and the HTTP handlers run concurrently and share `AppData`: block
sync and tracker behind one `RwLock` each, and a MySQL pool. A post wakes the
sender through a `Notify`; so does each synced head. The process ends at the first
task that returns an error, or when all have returned (`try_join!` in `lib.rs`). The
execution node is reached by RPC:
it announces heads, has a mempool with replacement rules, and reorganises.

### What is hard here

* *Interleavings*: the sender reads the pool and the chain under locks that it
  releases before it sends and registers; blocks arrive in between.
* *Reorganisations* below, at and above blocks that contain the bundler's own
  transactions, of which several versions may exist at one nonce.
* *Partial failure*: finalization updates memory first and then several tables
  without a common transaction; a statement can fail between any two.
* *Crash and restart*: balances, pending transactions and the inclusion indexes live in
  memory only; the anchor row is replaced in two statements.
* *Unreliable delivery*: a notification is consumed even if syncing it fails; the
  answer of `send_raw_transaction` can get lost after the node has accepted.
* *Lock order*: statements that hold one read guard while they await another.
* *Liveness*: the sender sleeps off an error or waits for a wake-up given while it
  was busy; nobody repeats a wake-up. An interrupt reaches only who is waiting for it.
* *Readers* see two answers of different moments: a block and its sidecars, a page
  and a count, a status and a transaction's block.
* *Arithmetic*: rounded divisions in packing and in charges, bumps by 10 percent.

Each is listed with its line in `PROJECT.json`, under `hazards`.

## 2. Modules

| Module | Models | Extends |
|---|---|---|
| `Ethereum` | the node (external): block tree, canonical head, notifications, mempool | |
| `BlockSync` | `sync.rs`, the subscriber, anchor persistence, and the part of the sender that reserves nonces and registers transactions | `Ethereum` |
| `FinalityLog` | abstract: what the rest of the program may rely on about the chain | |
| `Balances` | the balances derived from `BlockSync`'s state | `BlockSync` |
| `IntentPool` | life of an intent: tables, tracker, sender, finalization, cancellation, eviction, restart | |
| `Admission` | posting: the checks against pool and balance, the transaction that stores | `IntentPool` |
| `Queries` | what an owner is told: status and history | `IntentPool` |
| `AppLocks` | the two locks and the order in which tasks take them | |
| `Packing` | the three selection algorithms and the blob gas charged to what they select | |
| `Runner` | the process: build, eight tasks, wake-ups, back-off, interrupts | |
| `Fees` | blob gas price, excess, repricing, is-underpriced, in numbers | |
| `TxEncoding` | the encodings of a blob transaction and their lengths | |
| `Blobs` | from the data of intents to a transaction, a block and back | `TxEncoding`, `Fees` |
| `Client` | the clients: the CLI, users who cancel, a reader of the pages of an address | |
| `Sums` | lemmas: induction, sums over finite sets, concatenations of sequences | community and proof modules |
| `BlockSync_proofs` | theorems about the chain, about transactions by sender and nonce, and about balances | `Balances`, `Sums` |
| `AppLocks_proofs` | theorems | the module of that name |
| `Client_proofs` | theorems about the pages of an address | `Client`, `Sums` |
| `Packing_proofs`, `Blobs_proofs` | theorems; those of `Blobs` cover `Fees` and `TxEncoding` | the module of that name, `Sums` |
| `IntentPool_proofs` | theorems about the pool and about what owners are told | `Queries`, `Sums` |
| `Admission_proofs` | theorems | `Admission`, `IntentPool_proofs` |
| `MC*` | instances for TLC | |

### Ethereum and BlockSync

A block carries its whole ancestry as a path, so a parent's hash and a block's number need no
recursion; its hash is its index. A transaction is its own hash. A fee has two
parts, the fee per gas *less the tip* (what `is_underpriced` compares with the base
fee) and the blob fee; the model's fees are levels, and one level stands for a
replacement's 10 percent.

`SyncNextHead` is one notification: it walks back from the announced block to what is
known (`Attach`) and applies all new blocks under one write lock (`Import`):
dropped blocks give their blob transactions and the placeholders of their
transfers back to the pending map, new blocks take their nonces out of it.
`MaybeAdvanceAnchorBlock` finalizes; `DeleteAnchorRows` and `InsertAnchorRow`
persist; `ReorgTooDeep`, `SyncFails`, `PersistFails`, `Crash` and `Restart` are
the ways things end. The sender is `PrepareBlobTx` or `PrepareSelfTransfer`
(nonce, fee), `NodeAccepts`/`NodeRejects`/`AnswerLost`, and `RegisterSent`. Each
action is what happens under one acquisition of a lock or in one call; the
subscriber and the sender interleave at those points, the node at any.

The finalized balances are kept as the list `applied` of blocks added to them,
which tells order and repetition apart; `Balances` turns the list into amounts
with the code's formulas. `registered` is a ghost.

Abstracted: packing may choose any participant list (the intents are in
`IntentPool`); the fee estimate may be of any earlier head; the placeholder's blob
fee is `TopFee`, standing for `u128::MAX`.

### FinalityLog

Three chains: *final* (up to the anchor), *head*, *stored*. The head moves freely
above the final chain; the final chain grows along the head, to a block that
`finalize_depth` blocks confirm; what is stored is final or the start; a restart
falls back to what is stored. `ImplementsFinalityLog` is `BlockSync => FinalityLog`
with the paths of anchor, head and persisted anchor as the mapping.

### IntentPool

Rows are inserted and commit in two steps (`StoreDataIntent`, `CommitIntent`),
with a clock behind `updated_at`, so that commits can be out of timestamp order.
`SyncWithDb` fetches. The sender is `Pack`, `SendBlobTx` or `GiveUp`,
`RecordInclusions`, `RegisterSent`. The chain is abstracted to what used each
nonce, in order. Finalization is the sequence of `maybe_advance_anchor_block` in
`app.rs`, one action per statement or lock. Cancellation and eviction are a check,
the statements, then the removal. `Restart` keeps the tables only.

### Admission

An intent is a pair of a post and a chunk number; `IntentPool`'s insert and fetch
are used on these. `post` is where a request is: length check (`CheckLen`),
`SyncForPost`, balance check (`CheckBalance`), then the transaction: `SelectNonce`
(`SELECT ... FOR UPDATE`), `UpsertUserNonce`, `StoreChunk` for each chunk, `Commit`;
`Refuse` and `Rollback` are the early returns. `nonces` is the table `users`. The
locks of MySQL are external: a row that exists is locked by one transaction; the
gap of a missing row can be locked by several, whose inserts then wait for each
other until the database rolls one back (`GapDeadlock`). `minedAt` gives each mined
transaction the price that its owner is charged. Amounts are lengths and levels of price; the
unused part of a blob and the EVM gas are left to `Packing`. The rest of the
bundler goes on as in `IntentPool`, with every action of it: reorganisations, cancellation
and eviction, failed statements, restarts, which end the requests under way. The ghost
`forgotten` has the transactions that block sync had registered and lost sight of:
`Supersede` is what a block or a reorganisation takes out of the pending map without
putting it into a block or among the repriced, `LoseExcluded` a finalization that fails
before the exclusion is done.

### Queries

No state of its own: `StatusById` and `HistoryEntry` are computed from the tables of
`IntentPool` as the two SQL queries and the node's answer compute them. The status
takes the last inclusion by nonce and then time, the history the newest by time.

### AppLocks

One named operation per function of `AppData` that takes a lock; a kind of task is
the list of what it calls. A task's work is a list of *spans*: guards that are alive together, acquired one
after the other. Each lock has a FIFO queue (tokio's), so a reader waits behind
a waiting writer. The spans were read off the code: temporaries of one expression
live to the end of the statement. Work between two spans needs no lock and takes
no step. A handler may return early after any span.

### Packing

Each loop iteration is an action: a mask of brute force, a threshold of greedy, a
cell of the knapsack's table. Early exits are those of the code. The floating-point
`increase_by_min_percent` is exact in the range used (its doc says that a value
that stays the same is increased by one; for zero the code returns zero, which
greedy never meets since the price of blob gas is at least 1).

### Runner

Each task is a place in its loop: waiting in its `select!`, working, sleeping off an
error, done. `permit` is the `Notify`: `notify_one` leaves one permit, whoever waits.
What an attempt of the sender does is in `BlockSync` and `IntentPool`; here it may
end in each of its ways. Blocks are counted relative to the node's head (`lag`).
`healthy` tells whether the database and the node answer; calls fail only while they
do not. An interrupt is heard by the tasks that await `ctrl_c()` at that moment; a
task that leaves its `select!` through another branch drops what it heard
(`TakesOtherBranch`). `begun`, `offered` and `missed` are ghosts.

### Fees, TxEncoding and Blobs

`Fees` has the code's integer formulas with the protocol's numbers as constants; only the
width of u128 is left out. `TxEncoding` writes a byte string as a list of tokens, each
with its kind, its value and its number of bytes, so that the order of fields, what
each header announces, and every length the code computes ahead can be compared with
what is written and read; a hash is what was hashed, and RLP of one value is external.

`Blobs` follows the data: `FetchMany` (rows in whatever order the database returns
them), `ConstructBlobTx` (participants as bytes in the input, data in field elements,
signature, sidecar), the node decoding it (`NodeTx`), a block with the transactions of
others, and the two readers, `LookUpTx`/`FetchBlob` with the cache and
`ExtractDataParticipation`. The beacon node answers for the block of a slot that is canonical
when it is asked, which may not be the one the execution node has told.

### Client

`Cli(r)` is a run of the CLI: top up when the balance is low, then for each round sign,
post and poll. `DeleteData` is the owner's cancellation. `OpenHistory`, `FetchHistory`,
`CountHistory` and `NextPage` are a reader of an address's pages; the page and the
count are separate statements. The bundler is reduced to what its answers tell; every
UPDATE of a row changes `updated_at`, by which the pages are ordered.

## 3. Runs

| Run | Question | Bounds | Distinct states |
|---|---|---|---|
| `chain` | Is the unfinalized chain right, the anchor final, each block applied once, whatever the tree and whatever fails? Is the head followed? | 6 blocks in any tree, finalize depth 2, 2 undelivered heads, 2 faults, no transactions | 168 thousand |
| `sender` | Do pending, repriced and status maps follow the chain? | 3 transactions of one sender at 2 fees, 4 blocks, depth 1, 1 pending nonce, 1 fault | 3.5 million |
| `balances` | Are balances the sum of the chain's deltas less what is pending? | 2 users, 2 transactions, top-ups, 4 blocks | 982 thousand |
| `pool` | Do tracker, tables and chain agree through failures? Can a cancelled intent come back, a visible row be missed, a mined intent be offered again? Is its owner told? | 1 intent that pays 2 of 3 prices, 2 transactions, 2 pending nonces, reorganisations, 2 instants, 1 fault | 2.7 million |
| `admission` | Is a nonce used once and a post stored whole? Does the length limit see the pool, through reorganisations, too? | 2 posts of one user with one nonce (two chunks; one), 2 transactions, 1 pending nonce, reorganisations, up to the first fault | 661 thousand |
| `locks` | Is everyone served? Can the locks hang otherwise than through the two requests? | sender, subscriber, a post, a sync-status request, all repeating | 120 thousand |
| `packing` | Do the three algorithms select what they promise, and return? | up to 4 items of 6 lengths and 3 prices, 2 prices of the blob, brute force below 4 items | 591 thousand |
| `blobs` | Is what the node decodes what was registered? Do both readers give users their own data? Is the fee enough for the next block? | 3 intents of 2 users, 2 transactions, 3 blocks in 2 slots, blobs of 3 elements of 2 bytes, up to 3 blobs a block | 297 thousand |
| `runner` | Is every post attempted, and offered in the end? Does an interrupt end the process? | 1 intent, 1 interrupt, up to 3 unread notifications, a distance of 2; one of the periodic tasks, which all have the same loop | 287 thousand |
| `client` | Do the pages of an address show what nobody touches? | 1 user, 1 run of two rounds, 3 instants, 2 rows, pages of one row, 1 fault | 1.1 million |

What is proved of these for all values of the constants is in section 4.

Violation runs, each showing one disagreement between the code and what it says
of itself (quoted in `PROJECT.json`, `findings`):

* `v_history` - the inclusions of a finalized transaction are deleted when an older
  version won its nonce, and the history of the owner's address fails from then on.
* `v_hung` - a request for the sync status waits behind the subscriber, which waits
  for that request.

Three more disagreements are named as the exceptions of properties that hold otherwise:

* `ExactWithoutRepeats`: `apply_finalized_block` (`sync.rs:692`) adds a block's delta
  once per *mention* of a user.
* `NotRebundled`: an intent whose transaction was mined before it was registered, or
  that was sent again at another nonce, is offered again though a block has it.
* `FetchesAll`: a row that commits after a later one was fetched is never fetched.

Why the bounds are enough. *Tree*: six blocks hold two branches of two above a
finalized block, reorganisations of one, two and three blocks, and an anchor that
advances over two blocks at once (a notification two behind); depth 2 is the
least at which "some but not all" of the unfinalized chain can go. *Transactions*:
three are a first version, its replacement, and either the next nonce or a third
version; that is what repricing, mining of an old version and late registration
need; in `pool` two transactions are two versions at one nonce, or one and its
successor. *Posts*: one of two chunks can be cut in its middle; a post and its
replay meet at every pair of steps, with and without a row of the user; the longest
pool leaves no room for another post. `admission` has a constraint (`Explored`), for time:
TLC checks the states after a failed call, a restart, a cancellation or an eviction, and those
where a second transaction was sent while a request has no answer, but goes no further from
them. Each of the four exceptions of `LimitSeesPool` is met all the same: without any one of
them TLC finds the property violated. The refusal of a nonce above `i64::MAX` is not
reached in this instance. The theorems about `Admission` cover all of this, unconstrained. *Faults*: one already separates any two neighbouring steps; `chain` has two so that a
fault can hit the recovery. *Clock*: two instants order two rows both ways.
*Locks*: one task of each kind that can wait under a guard, and the two writers;
`locks` cannot show more of a kind, which the theorem does. *Blobs*: of the three
intents any two fit a blob, two fill it and three do not; one user has two of them;
lengths take two digits; a foreign transaction may have an input that does not parse
or claims too much, and one or two blobs, before or after the bundler's; two slots and three blocks
give a reorganisation between lookup and fetch. *Runner*: the subscriber can fall behind by
more than the distance at which the sender refuses to work. *Client*: two rows on
pages of one are a walk of two pages; three instants order and equate all updates.
*Packing*: four items
reach every case of the two loops; the limit `MAX_COUNT_FOR_BRUTEFORCE` (8) is a constant.

Deadlock is not checked where bounds stop the model (blocks, transactions,
faults), where an algorithm ends (`packing`) or the process does (`runner`). That the
program itself does not stop is `HangNeedsRequest`, `Served`, `FollowsHead`,
`PostsAttempted`, `PostsOffered` and `Terminates`.

### Fairness

* `chain`: weak fairness of the subscriber's own actions. It awaits a channel in a loop, and the
  calls it makes answer or fail. Nothing is assumed of the node: `FollowsHead` is
  about announced heads only.
* `locks`: weak fairness of asking, granting and finishing for each task and lock:
  the runtime resumes a ready task, tokio's lock is FIFO, what is awaited under a
  guard (database, node) answers or fails. A client that disconnects, whose
  handler is dropped at an `.await`, is not modelled.
* `packing`: weak fairness of the loop.
* `runner`: weak fairness of each task's own steps: what is awaited answers or fails, a
  sleep ends, a ready task is resumed. `PostsOffered` assumes in its statement that from some moment on
  calls succeed, the bundler is close enough to the head, and new heads keep coming;
  `PostsAttempted` assumes none of these.

No action of the environment (node, database, users, interrupts) is fair.

## 4. Proofs

`BlockSync_proofs`, from the assumptions on the constants (`PricesAssumption`,
`ChoicesAssumption`, `BlockSyncAssumption`):

* `InvHolds`: `Inv` is inductive. Its parts: types; `TreeOK`, every block's path
  starts at the starting block, ends in the block and agrees with the paths of
  its ancestors; `ChainIsPath`, the anchor's path continued by the unfinalized
  chain is the path of the head; `AppliedOnce`; the anchor table is empty while it
  is being rewritten; transactions on the chain are finitely many (they are
  counted). `ChainIsPath` alone is not inductive: that a reorganisation re-attaches
  rightly needs `TreeOK`, and that a restart does, needs `AppliedOnce` of the saved row.
* `TypeCorrect`, `AppliedOnceHolds`, `ChainLinkedHolds`: from `Inv`; the last also
  needs that the path position of a number is unique (`WhenToAdvance`), so
  "inconsistent unfinalized chain" is unreachable.
* `AnchorDeepHolds`: a step lemma on top of `Inv`.
* `Implementation`: every step of `BlockSync` is a step of `FinalityLog` or a
  stutter. The steps that matter are `ImportMovesHead` (the new head is above the
  anchor) and `AdvanceFinalizes` (the new anchor is on the head's path with
  `Depth` blocks above it).

And about its transactions, on top of `Inv`, for any senders, fees, depth and number of faults:

* `SlotInvHolds`: `SlotInv` is inductive. Its parts: on a path each nonce is used once
  and those used are the ones below the count (`NoncesOK`, by counting: as many nonces
  as transactions); a block holds placeholders at nonces that its transfers have used,
  one at each (`HeldOK`), and of every registered one of them (`HeldAll`); and the four
  invariants that the `sender` run checks. `OnePerSlot` needs `HeldOK`, for what a
  reorganisation puts back must not collide with itself; `NonceHeld` needs `HeldAll`,
  for a transfer that is dropped leaves nothing else to hold its nonce. The argument
  goes by `Grafts`, which states what `Import` does to sets of blocks and transactions.
* `OnePerSlotHolds`, `NonceHeldHolds`, `RepricedHasRivalHolds`, `NoStaleInclusionHolds`:
  from `SlotInv`.
* `DroppedTxsPendHolds`: an action property, step by step on top of `SlotInv`.

And for any amounts of top-ups (`BalancesAssumption`):

* `AcceptedInvHolds`: what is pending, held or in a block was accepted by the node, so that
  the sums have finitely many terms, and the transactions of a block pay its price.
* `ExactWithoutRepeatsHolds`: the balance is a sum over the blocks applied and the
  unfinalized chain less a sum over pending transactions, the reference is a sum over the
  head's path. `Inv` makes the two lists of blocks one; what remains is that a delta
  added per mention is the delta when nobody is mentioned twice.
* `InclusionNeverChargesHolds`, `ReorgNeverCreditsHolds`: action properties. What a block
  charges is at most what was reserved, as its transactions pay its price; what a
  reorganisation drops is pending again (`DroppedTxsPend`) at the highest it can cost.

`IntentPool_proofs`, for any intents, prices and bounds:

* `FinalInvHolds`: `FinalInv` is inductive. `FinalizedIsFinal` speaks of rows and of the
  chain under the deepest anchor; added to it is what finalization goes by: the
  inclusions, in memory, in the table and in a job of the sender, are of intents that
  the transaction has (`InclusionsOK`, `JobOK`), what an anchor once had stays on the
  chain (`AnchorsOK`, though the anchor itself goes back in a restart), and a finalization
  under way marks only what is published (`FinOK`).
* `FinalizedIsFinalHolds`: from `FinalInv`.
* `CancelInvHolds`, `CancelledStaysOutHolds`: a drop under way keeps to its intents, and
  whatever gets into the pool has a row that is not cancelled.
* `IndexInvHolds`, `IndexesAgreeHolds`, `InclusionsStoredHolds`: added to the two properties
  is that what the sender has not recorded yet is in no index and about to be excluded by
  nobody (`SentIsNew`, so that a use is appended once), and that rows are deleted only of
  transactions that the indexes have lost (`DroppedOK`, so that the table has what memory
  has). What `Retain` keeps of a list is proved by induction.
* `FetchInvHolds`, `FetchesAllHolds`: an action property. No row and no window is later
  than the clock, so that a row touched now is in every window. What remains are the rows
  that leave the pool: they are finalized, or cancelled, or (`IncludedOK`) about to be
  marked final and under the anchor already.
* `RebundleInvHolds`, `NotRebundledHolds`: an action property, of the packing step. Its
  parts: transactions are pending, held and mined at their own nonces (`NoncesAgree`); what
  is on the chain and has the status pending was registered late (`PendingLate`), for which
  what the sender is about to register must not collide with another such one (`JobClear`);
  an exclusion is of nonces under the anchor (`ExcludedOK`); and while nothing fails each
  intent counts all of its transactions among its uses (`UsesAll`), so that the one in the
  block is among them and the last one decides.
* `ToldInvHolds`, `PublishedIsToldHolds`: an action property. Nonces are numbers, so that the
  last row of an intent is unique, and it is the row of the transaction in the block when
  nothing hides it (`RowTells`); a row is lost only with an excluded transaction.

`Admission_proofs`, from `AdmissionAssumption`, for any users, requests and nonces:

* `NonceInvHolds`: `NonceInv` is inductive. `ReplayProtected` speaks of stored posts
  only; added to it is what the locks are for: a transaction that has read the
  nonce reads the one still in the row when it writes (`ReadNonce`), one transaction
  of a user writes at a time, and none is left in the gap when one writes (`OneHolder`).
* `ReplayProtectedHolds`: from `NonceInv`. It rests on the model of the database's
  locks, which is external.
* `WholeInvHolds`, `StoredWholeHolds`: a post has no rows before it stores and after a
  rollback, none that is committed while it stores, and all of them once it is stored.
* `LimitInvHolds`, `LimitSeesPoolHolds`: `LimitSeesPool` compares the length that a post is
  checked with to the sum over the pool. Each use of an intent is of a transaction that is
  in a block, about to be registered, on its way out, forgotten, or pending (`UsesPlaced`);
  the first four are what the property names, so that every other intent of the pool has no
  use or a pending one. A reorganisation keeps this up because what was in a block, or was
  held by a transfer in it, is pending again: at each nonce one transaction, and that one
  (`NoncesAgree`, `HeldOK`), while what it takes the place of is forgotten
  (`SupersedePlaces`). The code's sum over the users' intents without uses and over
  pending transactions then covers the pool (`TotalCover`).

`AppLocks_proofs`, for any number of tasks of any kind:

* `LInvHolds`: types, and that only the two requests ever have spans out of order.
* `HangNeedsRequestHolds`: by lock order. A task that waits for `tracker` in order
  holds only `sync`; one that waits for `sync` in order holds nothing. So if all
  wait in order and nobody can be granted, the holder of `tracker` waits for nothing.

`Packing_proofs`, from `PackingAssumption`, for any number of items of any lengths and prices:

* `PackingCorrect`: `PackingInv` is inductive. It says how far each loop has come: brute
  force has kept the longest viable selection of the masks below the current one; greedy
  runs on sorted items at a positive threshold; a cell of the knapsack holds, for its
  weight, the longest selection of the items seen, of these the one of the lowest mask,
  and no item twice. A cell filled in place reads a lower weight that still has the selection of the
  items before (`Kept`, `Replaced`).
* `PackingOptimal`, `PackingKnapsack`, `PackingGreedy`: from `PackingInv`.
* `PackingPaid`, `PackingNearMax`: the shares of a blob by integer division lose less
  than one unit each; and a selection that pays has no item charged above its highest price by
  more than the unusable part of the blob and the rounding of brute force. Items cost something (`PackingAssumption`), as
  the price of blob gas does.
* Masks are numbers: that each set of items has one, and each number below `2^n` is of
  one set, is `BitsOf` and `Masked`, by induction from `TwoPower`.

`Blobs_proofs`, for all fees, any intents and data, and blobs and elements of every size
(`BlobsAssumption`: the intents are finitely many, a length fits the digits written for
it, and transactions of others have another sender):

* `RepriceOutbids`: a repriced fee is no lower than estimated, meets the 10 percent a
  node asks for in each of its parts, and is above each part of at least 10 wei.
* `NoBumpBelowTen`: where all parts are below 10 wei and no lower than the estimate it
  is the same fee, which no node takes.
* `BlobDecodes`: a full blob decodes to the bytes it was made from, by the uniqueness
  of quotient and remainder. `BlobRoundTrip`: data that fits is what the decoded blob
  starts with.
* `NodeDecodes`: for any transaction, the node finds in the bytes it is sent the fields,
  the signature and the sidecar that were encoded, announced lengths included, and the hash
  it computes is the one the bundler registers.
* `TreeInvHolds`, `IncludableNextHolds`: each block's excess is what its parent leaves, so
  that the price computed from a block is the one its children ask.
* `NodeAgreesHolds`: an action property, of each transaction that is sent. A number is what
  its digits make (`NumberOfDigits`, by the sum of `Lower` over the digits), so that the
  participants are read as they were written (`ReadsWritten`, by induction over the
  records of the input). What is encoded is a sequence of tokens with lengths, and the sums the
  code computes ahead are the lengths of what it writes (`FieldsLenIs`, `SignedLen`,
  `PooledLen`), so that every header announces what follows it (`TokensDecode`).
* `ServedOwnDataHolds`, `ExtractsOwnDataHolds`: from `ServeInv` (`ServeInit`, `ServeStep`).
  The two properties compare bytes of a blob with posted data; `ServeInv` adds what
  says *which* blob is read: a transaction is the bundler's, with the input and the one
  blob made of its intents, or has another sender or type (`TxsAre`); no two blocks share a
  slot and no block has a transaction twice (`BlocksOK`), so that a slot asked for after
  a reorganisation has the block that was looked up or no block at all (`OneBlock`); and a
  request is for a transaction of the block it names (`ReaderOK`). The blobs before
  the bundler's are then as many as the blob transactions before it, unless one
  has several (`OwnBlob`), and each participant's stretch of the blob is what it
  posted (`PartOfBlob`).

`Client_proofs`, for any rows, page sizes and clocks:

* `ClientInvHolds`: types and `WalkInv`. A row that is undisturbed and not shown has a place
  in the order of the pages, right after the rows updated later (`PlaceOf`); it was not on
  the pages before, so that place is behind them: at least `offset` rows are above it. Rows
  are never taken away and their `updated_at` never goes back (`RowsGrowHolds`, an action
  property), so that the rows above it only become more. A page that shows the row has it
  at its place; a page without it leaves more rows above it than the pages hold, so that the
  count is beyond the page and there is a next one.
* `UndisturbedIsShownHolds`: from `WalkInv`, since at the last page nothing is left above.

`Sums` is what the others need of induction and sums. No prover here can be given a
property as an operator, so it is given as a set: a non-empty set of naturals has a
least element (`LeastNumber`, since the finite subsets of a set are well-founded),
from which `NumberInduction` and `SetInduction` follow for sets. `FoldSet` chooses the
order of its terms; that its sums depend on the terms only is `SumsAny`, and `TotalAdd`,
`TotalUnion`, `TotalOrder`, `TotalCover` are what is used. `FlattenIs` says what a
concatenation has at each place, `FlattenPart` where in it each of its parts is, and
`FlattenMap` that the parts may be mapped first.

Only model-checked:

* Liveness (`FollowsHead`, `Served`, `Terminates`, `PostsAttempted`, `PostsOffered`,
  `InterruptEnds`), which is out of the prover's reach.
* Everything about `Runner` (its properties are liveness).

## 5. What the models say of the code besides the findings

Behaviours met while modelling; where one is at odds with a comment, it says so:

* A transaction mined before it is registered stays in the pending map at a used
  nonce. `ReorgNeverCredits` and `NonceHeld` are stated around it. Once the price
  rises it also keeps `detect_nonce_deadlock` answering a nonce that no
  self-transfer can take.
* A registered replacement whose older version is mined leaves the pending map without
  becoming repriced; no finalization excludes it, and intents that only it carries
  are not offered again before a restart.
* A reorganisation below the anchor ends the process; its restart begins at the
  same anchor.
* A notification that is lost to a failed call is made up for by the next head, except if the node
  switched to an ancestor of the bundler's head: that block is known.
* A statement that fails half-way through an eviction leaves cancelled intents in the pool.
* An intent that is cancelled between packing and sending is published.
* `pending_total_data_len` takes the locks in the order tracker, sync and
  `balance_of_user` in the order sync, tracker.
* `cost_to_intent` shares the whole blob (131072 bytes) while packing prices the
  usable part (126976): an intent can be charged 32/31 of its highest price, plus
  EVM gas (`ChargeNearMax` is the bound that holds). `max_cost`, against which a
  post is admitted, is "Max possible cost of data intent" in `types.rs`.
* An intent that no block has is counted in no sum of its owner (balance, pending length)
  while each of its transactions is in one of three states, `Uncounted` in `Admission`:
  recorded and not yet registered; replaced by one that may be without the intent, until the
  exclusion is dropped; or lost sight of by block sync, until a restart. The last comes
  about when another version is mined (`sync.rs:557`), and lasts if that block is reorganised
  away (`sync.rs:459` makes the other version pending, the lost one stays lost); when a
  reorganisation puts an older version back in its place; and when a statement fails during
  the finalization that was to exclude it (`app.rs:205-250`). Posts checked then
  are admitted beyond the limit. `balance_of_user` (`app.rs:370`) says that the two
  sums complement each other; it does not say at every moment.
* Two concurrent posts of one user pass the same checks, and together exceed them.
* A pending blob transaction whose nonce is taken by a self-transfer, or by another
  version, that is mined before it is registered leaves the pending map without
  becoming repriced: its intents are not offered again before a restart.
* Rows that the consistency check of the start marks finalized get no
  `finalized_block_number`, so their data is never pruned; the same if the
  statement that sets the number fails.
* An intent of length zero is never selected by brute force: it lengthens nothing.
* A transaction that is mined, reorganised away and registered only then becomes
  repriced as its own rival (`sync.rs:310-321`); when it is final it is excluded too, and its
  inclusions are deleted.
* Status and history may name different transactions of an intent (last by nonce, newest by
  time), and the status one that is in no block while another is.
* When an older version of a transaction wins its nonce, the status of the newer stays
  pending in the cache of block sync.
* The bundler counts blob *transactions* before its own where the beacon node counts
  *blobs* (`consumer.rs:129-146, 221`), though the comment at `consumer.rs:78` is about
  transactions of several blobs: after a foreign transaction of several blobs in the same
  block, readers get another's blob, and it stays in the cache. `ServedOwnData`
  and `ExtractsOwnData` name the case.
* `initial_block_sync` (`app.rs:612`) stops at its first test unless the bundler is *ahead* of
  the node by the margin; it catches up at the next notification instead.
* An interrupt that arrives while a task is busy is lost to that task: the server stops,
  the others may go on.
* A failed attempt of the sender is not repeated; it waits for the next post or head.
* Pages of an address are ordered by `updated_at`, which one UPDATE sets for many rows;
  with OFFSET, rows can be skipped. An insertion between page and count can end the walk early.
* The CLI polls for ever when its intent is cancelled or evicted, and polls the first
  chunk of a post only. It goes on without a receipt of its top-up; its post may then be refused,
  as it may before the bundler has synced the block. After a lost answer, a second run stores the data twice.
* Rows of selected intents come back in the database's order; participants and data
  are both taken from them, so that they agree.
* Comments that differ from the code without effect on it: the order of the fields that are
  signed (`types.rs:60` and `92`), and the size of a participant's record.

## 6. Not modelled, and why

* KZG commitments and proofs, signatures, hashes, RLP of a single value: cryptography
  and byte formats; the trusted setup is data.
* `metrics.rs`, `api_metrics.rs`: counters that the program does not read. The loop
  that pushes them is in `Runner`, the locks a scrape takes in `AppLocks`.
* `eth_provider.rs` forwards each call to a library; the node is `Ethereum`.
* Hex and serde helpers, templates, argument parsing, logging: formats.
* The list of recent blob transactions on the explorer's front page: a query for
  display.
* The width of u128: sums of wei do not reach it, except the bump of a placeholder's
  `u128::MAX` (hazard at `gas.rs:25`).

These, and tests inside the source files, are most of the lines no definition maps to.

## 7. Plan

Done so far, in this order: `Ethereum` and `BlockSync` with `FinalityLog`;
`Balances`; `IntentPool`; `AppLocks`; `Packing`; `Admission`; `Runner`; `Fees`;
`TxEncoding` and `Blobs`; `Queries`; `Client`; proofs of all safety invariants and action
properties of `BlockSync`, `Balances`, `IntentPool`, `Queries`, `Admission`, `AppLocks`,
`Packing`, `Client` and `Blobs`.

Next, by importance:

1. `Admission`, more of it: how far below zero the balance can go, with an abstract
   account that is charged for what it accepted.
2. Larger instances: `sender` with two wallets; `admission` and `client` with two users.
3. A run that compares the initial sync with its comment.

## 8. Running

    tlc -workers 2 -config MCBlockSync_chain.cfg MCBlockSync
    tlapm BlockSync_proofs.tla

Each run is named in `PROJECT.json` with its module and configuration; each passing run
ends within a few minutes.
