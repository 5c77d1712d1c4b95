-------------------------------- MODULE Client --------------------------------
(***************************************************************************)
(* The clients of the API: runs of the CLI, which top up their user's      *)
(* balance, sign and post data and poll its status until it is in a block; *)
(* users who cancel; and a reader who walks through the history of an      *)
(* address with the explorer's links.  They meet the handlers of the API   *)
(* and, in the clock and the rows they read, each other.                   *)
(*                                                                         *)
(* The bundler's own work is reduced to what its answers tell: an intent's *)
(* transaction comes, is mined, is reorganised away and is finalized at    *)
(* any time.  IntentPool and Admission have the steps of these.            *)
(***************************************************************************)
EXTENDS Integers, FiniteSets, SequencesExt, FiniteSetsExt

CONSTANTS
    Users,
    Runs, Wallet,   \* runs of the CLI, and the user whose wallet each has
    Chunks,         \* how many blobs the data of each round of a run takes: there are
                    \* test_repeat_send rounds
    Prices,         \* the blob gas price of the next block
    Factor,         \* blob_gas_price_factor in thousandths, 1000 * factor as u128
    LowerBound, UpperBound, \* balance_lower_bound, balance_upper_bound
    Limit,          \* the page size asked for
    HistoryLimit,   \* ADDRESS_HISTORY_LIMIT
    MaxTime,        \* bound: instants
    MaxRows,        \* bound: intents
    MaxFaults       \* bound: lost answers, dropped top-ups and reorganisations

ASSUME ClientAssumption ==
    /\ Wallet \in [Runs -> Users]
    /\ \A r \in Runs : Chunks[r] \in Seq(Nat \ {0}) /\ Chunks[r] # <<>>
    /\ Prices \subseteq Nat \ {0} /\ Prices # {} /\ Factor \in Nat
    /\ LowerBound \in Nat /\ UpperBound \in Nat
    /\ Limit \in Nat \ {0} /\ HistoryLimit \in Nat \ {0}
    /\ MaxTime \in Nat /\ MaxRows \in Nat /\ MaxFaults \in Nat

VARIABLES
    now,            \* the time, in milliseconds, of users and database
    rows,           \* data_intents in the order of their commits: an id is a position
    nonces,         \* post_data_nonce of the users who posted
    paid,           \* the top-ups that the bundler has synced, by user
    price,          \* what GET /v1/gas recommends
    topups,         \* the funding transactions, records [from, value, step]
    cli,            \* where each run of the CLI is
    walk,           \* the reader: <<>> or <<record>>
    faults

server == <<rows, nonces, paid>>
vars == <<now, server, price, topups, cli, walk, faults>>

\* the fields of a record, over those of another
Over(new, old) ==
    [field \in DOMAIN new \union DOMAIN old |->
       IF field \in DOMAIN new THEN new[field] ELSE old[field]]

Fail == faults < MaxFaults /\ faults' = faults + 1

\* Some users have topped up before, and a run may be told not to wait.
Init ==
    /\ now = 1 /\ rows = <<>> /\ nonces = [u \in Users |-> 0] /\ paid \in [Users -> {0, UpperBound}]
    /\ price \in Prices /\ topups = <<>>
    /\ \E skipWait \in [Runs -> BOOLEAN] :
         cli = [r \in Runs |-> [step |-> "start", left |-> Len(Chunks[r]), skip_wait |-> skipWait[r]]]
    /\ walk = <<>> /\ faults = 0

Tick ==
    /\ now < MaxTime /\ now' = now + 1
    /\ price' \in Prices
    /\ UNCHANGED <<server, topups, cli, walk, faults>>

-----------------------------------------------------------------------------
(* Signed requests *)

SignHash(intent, nonce) == <<intent.data, intent.max_blob_gas_price, nonce>>

\* PostDataIntentV1Signed::with_signature
WithSignature(wallet, intent, nonce) ==
    [intent |-> intent, nonce |-> nonce,
     signature |-> [by |-> wallet, over |-> SignHash(intent, nonce)]]

VerifySignature(post) ==
    post.signature = [by |-> post.intent.from, over |-> SignHash(post.intent, post.nonce)]

\* TryInto<DataIntent>: the intent of a post whose signature is right
DataIntents(post) == IF VerifySignature(post) THEN {post.intent} ELSE {}

\* CancelDataIntentSigned::with_signature; the wallet's address is from.
CancelWithSignature(wallet, id) ==
    [from |-> wallet, id |-> id, signature |-> [by |-> wallet, over |-> <<id, "cancel">>]]

VerifyCancel(cancel) ==
    cancel.signature = [by |-> cancel.from, over |-> <<cancel.id, "cancel">>]

-----------------------------------------------------------------------------
(* A run of the CLI: its top-up *)

RowsOf(u) == {i \in DOMAIN rows : rows[i].from = u}

\* balance_of_user: module Balances has what is charged once an intent is published,
\* which is at most its maximal cost.
BalanceOfUser(u) ==
    paid[u] - MapThenSumSet(LAMBDA i : rows[i].price, {i \in RowsOf(u) : ~rows[i].cancelled})

\* how many chunks the data of the current round has
Count(r) == Chunks[r][cli[r].left]

MaxCost(r, maxPrice) == Count(r) * maxPrice

Go(r, from, to) == cli[r].step = from /\ cli' = [cli EXCEPT ![r] = Over(to, @)]

\* maybe_fund_sender_account: what the bundler does not know of yet is not counted.
MaybeFundSenderAccount(r) ==
    LET balance == Max({0, BalanceOfUser(Wallet[r])})
    IN  /\ \/ /\ balance < LowerBound
              /\ Go(r, "start", [step |-> "funding", tx |-> Len(topups) + 1])
              /\ topups' = Append(topups, [from |-> Wallet[r], step |-> "sent",
                                           value |-> Max({0, UpperBound - balance})])
           \/ balance >= LowerBound /\ Go(r, "start", [step |-> "post"]) /\ UNCHANGED topups
        /\ UNCHANGED <<now, server, price, walk, faults>>

\* A block has the transaction, or the node forgets it and there is no receipt.
ConfirmTopup(k) ==
    /\ topups[k].step = "sent"
    /\ \/ topups' = [topups EXCEPT ![k].step = "mined"] /\ UNCHANGED faults
       \/ topups' = [topups EXCEPT ![k].step = "dropped"] /\ Fail
    /\ UNCHANGED <<now, server, price, cli, walk>>

\* The bundler syncs the block, before or after the CLI hears of it.
SyncTopup(k) ==
    /\ topups[k].step = "mined"
    /\ topups' = [topups EXCEPT ![k].step = "synced"]
    /\ paid' = [paid EXCEPT ![topups[k].from] = @ + topups[k].value]
    /\ UNCHANGED <<now, rows, nonces, price, cli, walk, faults>>

\* The CLI goes on with or without a receipt.
TopupAnswered(r) ==
    /\ cli[r].step = "funding" /\ topups[cli[r].tx].step # "sent"
    /\ Go(r, "funding", [step |-> "post"])
    /\ UNCHANGED <<now, server, price, topups, walk, faults>>

-----------------------------------------------------------------------------
(* ... and its data *)

\* post_data_with_wallet, RelativeToHead and Timebased, up to the request
Request(r) ==
    WithSignature(Wallet[r],
                  [from |-> Wallet[r], data |-> <<r, cli[r].left>>,
                   max_blob_gas_price |-> IF Factor = 1000 THEN price ELSE (Factor * price) \div 1000],
                  now)

SendRequest(r) ==
    /\ Go(r, "post", [step |-> "posted", request |-> Request(r)])
    /\ UNCHANGED <<now, server, price, topups, walk, faults>>

\* The checks of POST /v1/data (module Admission has them in detail)
Admitted(r) ==
    \E intent \in DataIntents(cli[r].request) :
      /\ BalanceOfUser(intent.from) >= MaxCost(r, intent.max_blob_gas_price)
      /\ cli[r].request.nonce > nonces[intent.from]

\* After a round: the next one, or the end.
NextRound(r) == IF cli[r].left > 1 THEN [step |-> "post", left |-> cli[r].left - 1]
                ELSE [step |-> "done"]

\* The request is admitted and its chunks are stored, inserted at an instant since it
\* was sent.  The first one's id is the answer, which may be lost.
PostData(r) ==
    LET post == cli[r].request
        id   == Len(rows) + 1
    IN  /\ cli[r].step = "posted" /\ Admitted(r)
        /\ Len(rows) + Count(r) <= MaxRows
        /\ \E at \in post.nonce .. now :
             rows' = rows \o [k \in 1 .. Count(r) |->
                        [from |-> post.intent.from, price |-> post.intent.max_blob_gas_price,
                         at |-> at, cancelled |-> FALSE, finalized |-> FALSE, tx |-> "none"]]
        /\ nonces' = [nonces EXCEPT ![post.intent.from] = post.nonce]
        /\ \/ /\ Go(r, "posted", IF cli[r].skip_wait THEN NextRound(r)
                                 ELSE [step |-> "waiting", id |-> id])
              /\ UNCHANGED faults
           \/ Go(r, "posted", [step |-> "failed"]) /\ Fail
        /\ UNCHANGED <<now, paid, price, topups, walk>>

RefusePost(r) ==
    /\ cli[r].step = "posted" /\ ~Admitted(r)
    /\ Go(r, "posted", [step |-> "failed"])
    /\ UNCHANGED <<now, server, price, topups, walk, faults>>

\* GET /v1/status
StatusById(i) ==
    CASE rows[i].cancelled -> "Cancelled"
      [] ~rows[i].cancelled /\ rows[i].tx = "none"    -> "Pending"
      [] ~rows[i].cancelled /\ rows[i].tx = "pending" -> "InPendingTx"
      [] ~rows[i].cancelled /\ rows[i].tx = "mined"   -> "InConfirmedTx"

\* A poll, every second, that ends the wait; any other status prolongs it.
PollStatus(r) ==
    /\ cli[r].step = "waiting" /\ StatusById(cli[r].id) = "InConfirmedTx"
    /\ Go(r, "waiting", NextRound(r))
    /\ UNCHANGED <<now, server, price, topups, walk, faults>>

-----------------------------------------------------------------------------
(* What becomes of an intent.  Every UPDATE of a row sets updated_at.      *)

Publish(i) ==
    /\ \/ ~rows[i].cancelled /\ rows[i].tx = "none" /\ rows' = [rows EXCEPT ![i].tx = "pending"]
          /\ UNCHANGED faults
       \/ rows[i].tx = "pending" /\ rows' = [rows EXCEPT ![i].tx = "mined"]
          /\ UNCHANGED faults
       \/ rows[i].tx = "mined" /\ ~rows[i].finalized /\ rows' = [rows EXCEPT ![i].tx = "pending"]
          /\ Fail
    /\ UNCHANGED <<now, nonces, paid, price, topups, cli, walk>>

\* mark_data_intents_as_inclusion_finalized: the intents of a transaction, at once
MarkFinalized(ids) ==
    /\ ids # {} /\ \A i \in ids : rows[i].tx = "mined" /\ ~rows[i].finalized
    /\ rows' = [i \in DOMAIN rows |-> IF i \in ids THEN [rows[i] EXCEPT !.finalized = TRUE, !.at = now]
                                      ELSE rows[i]]
    /\ UNCHANGED <<now, nonces, paid, price, topups, cli, walk, faults>>

\* set_finalized_block_number, and prune_finalized_intent_data
TouchFinalized(i) ==
    /\ rows[i].finalized /\ rows[i].at < now
    /\ rows' = [rows EXCEPT ![i].at = now]
    /\ UNCHANGED <<now, nonces, paid, price, topups, cli, walk, faults>>

\* mark_data_intent_cancelled
MarkCancelled(i) ==
    /\ rows[i].tx = "none" /\ ~rows[i].cancelled
    /\ rows' = [rows EXCEPT ![i].cancelled = TRUE, ![i].at = now]
    /\ UNCHANGED <<now, nonces, paid, price, topups, cli, walk, faults>>

\* DELETE /v1/data/{path}: path and body agree, the signature is from's, and from owns
\* the intent.
DeleteData(path, cancel) ==
    /\ path = cancel.id
    /\ VerifyCancel(cancel)
    /\ rows[cancel.id].from = cancel.from
    /\ MarkCancelled(cancel.id)

\* evict_stale_intents_task, of intents the price has left behind
Evict(i) == rows[i].price < price /\ MarkCancelled(i)

-----------------------------------------------------------------------------
(* The pages of an address: GET /address/{address}?limit=&offset=          *)

\* GET /v1/history/{address} caps the limit it is asked for in the same way.
PageLimit == Min({Limit, HistoryLimit})

\* Mutant of Newest: ORDER BY di.updated_at ASC
Oldest(i, j) == rows[i].at <= rows[j].at

\* ORDER BY di.updated_at DESC
Newest(i, j) == rows[i].at >= rows[j].at

\* What may be the result of the query with LIMIT and OFFSET: rows with the same
\* updated_at come in any order.
HistoryPages(u, limit, offset) ==
    {Range(SubSeq(s, offset + 1, Min({offset + limit, Len(s)}))) :
       s \in {q \in SetToSeqs(RowsOf(u)) :
                \A m, n \in DOMAIN q : m < n => Newest(q[m], q[n])}}

NewPage(offset) == [offset |-> offset, entries |-> {}, fetched |-> FALSE, total |-> -1]

\* The reader opens the first page; sure is what the walk will have to show.
OpenHistory(u) ==
    /\ walk = <<>>
    /\ walk' = <<Over(NewPage(0), [of |-> u, open |-> TRUE, shown |-> {},
                                  sure |-> [i \in RowsOf(u) |-> rows[i].at]])>>
    /\ UNCHANGED <<now, server, price, topups, cli, faults>>

Reading == walk # <<>> /\ walk[1].open

\* Of what was there when the reader began, the rows that have not been updated since and
\* whose updated_at no other row has; none if rows were inserted between the two
\* statements of the page.
Undisturbed ==
    LET w == walk[1]
    IN  IF w.total \notin {-1, Cardinality(RowsOf(w.of))} THEN {}
        ELSE {i \in DOMAIN w.sure :
                /\ rows[i].at = w.sure[i]
                /\ \A j \in RowsOf(w.of) \ {i} : rows[j].at # rows[i].at}

\* fetch_history_for_address and count_history_for_address, concurrently
FetchHistory ==
    /\ Reading /\ ~walk[1].fetched
    /\ \E entries \in HistoryPages(walk[1].of, PageLimit, walk[1].offset) :
         walk' = <<[walk[1] EXCEPT !.entries = entries, !.fetched = TRUE,
                                   !.sure = [i \in Undisturbed |-> @[i]]]>>
    /\ UNCHANGED <<now, server, price, topups, cli, faults>>

CountHistory ==
    /\ Reading /\ walk[1].total = -1
    /\ walk' = <<[walk[1] EXCEPT !.total = Cardinality(RowsOf(walk[1].of))]>>
    /\ UNCHANGED <<now, server, price, topups, cli, faults>>

\* The page is shown; its link leads to next_offset if has_next.
NextPage ==
    /\ Reading /\ walk[1].fetched /\ walk[1].total # -1
    /\ LET w == [walk[1] EXCEPT !.shown = @ \union walk[1].entries]
           next == w.offset + PageLimit
       IN  walk' = <<IF next < w.total THEN Over(NewPage(next), w) ELSE [w EXCEPT !.open = FALSE]>>
    /\ UNCHANGED <<now, server, price, topups, cli, faults>>

-----------------------------------------------------------------------------

Cli(r) ==
    \/ MaybeFundSenderAccount(r) \/ TopupAnswered(r)
    \/ SendRequest(r) \/ PostData(r) \/ RefusePost(r) \/ PollStatus(r)

Bundler ==
    \/ \E k \in DOMAIN topups : SyncTopup(k)
    \/ \E i \in DOMAIN rows : Publish(i) \/ TouchFinalized(i) \/ Evict(i)
    \/ \E ids \in SUBSET DOMAIN rows : MarkFinalized(ids)

Next ==
    \/ \E r \in Runs : Cli(r)
    \/ \E u \in Users, id, path \in DOMAIN rows : DeleteData(path, CancelWithSignature(u, id))
    \/ \E u \in Users : OpenHistory(u)
    \/ FetchHistory \/ CountHistory \/ NextPage
    \/ Bundler
    \/ \E k \in DOMAIN topups : ConfirmTopup(k)
    \/ Tick

Spec == Init /\ [][Next]_vars

-----------------------------------------------------------------------------
(* Properties *)

\* UndisturbedIsShown: who follows the links through the pages of an address has seen,
\* at the last of them, every intent that was there at the first, though rows were
\* inserted and updated between the pages, except for those updated meanwhile, those
\* that share their updated_at with another, and what is inserted between the two
\* statements of one page.
UndisturbedIsShown ==
    \A w \in Range(walk) : ~w.open => DOMAIN w.sure \subseteq w.shown
===============================================================================
