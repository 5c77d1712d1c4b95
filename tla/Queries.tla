------------------------------- MODULE Queries --------------------------------
(***************************************************************************)
(* What the owner of an intent is told: its status (GET /v1/status), and   *)
(* its entry in the history of the owner's address.  Both are computed     *)
(* from the tables of IntentPool, and the status from the node's answer.   *)
(* Inclusions are inserted in the order of the transactions.               *)
(***************************************************************************)
EXTENDS IntentPool

TxsOf(i) == {r[2] : r \in {q \in inclusions : q[1] = i}}

\* the last row in the order of fetch_data_intent_inclusion: by nonce, then by time
LastInclusion(i) ==
    CHOOSE t \in TxsOf(i) : \A u \in TxsOf(i) :
      \/ sent[u].nonce < sent[t].nonce
      \/ sent[u].nonce = sent[t].nonce /\ u <= t

\* the row the subquery of fetch_history_for_address picks: the newest
NewestInclusion(i) == Max(TxsOf(i))

\* eth_getTransactionByHash tells the block of a transaction that is in one.
InBlock(t) == \E n \in DOMAIN onChain : onChain[n].tx = t

Cancelled(i) == i \in Committed /\ rows[i].cancelled

StatusById(i) ==
    CASE Cancelled(i)                   -> [status |-> "Cancelled"]
      [] ~Cancelled(i) /\ TxsOf(i) # {} ->
           [status  |-> IF InBlock(LastInclusion(i)) THEN "InConfirmedTx" ELSE "InPendingTx",
            tx_hash |-> LastInclusion(i)]
      [] ~Cancelled(i) /\ TxsOf(i) = {} ->
           [status |-> IF i \in Committed THEN "Pending" ELSE "Unknown"]

IsInBlock(status) == status.status = "InConfirmedTx"

\* an entry of history_for_address, where "Error" fails the whole request
HistoryEntry(i) ==
    CASE rows[i].cancelled -> [status |-> "Cancelled"]
      [] rows[i].finalized /\ ~rows[i].cancelled ->
           IF TxsOf(i) = {} THEN [status |-> "Error"]
           ELSE [status |-> "Finalized", tx_hash |-> NewestInclusion(i)]
      [] ~rows[i].finalized /\ ~rows[i].cancelled ->
           IF TxsOf(i) = {} THEN [status |-> "Pending"]
           ELSE [status |-> "Included", tx_hash |-> NewestInclusion(i)]

-----------------------------------------------------------------------------
(* Properties *)

\* What hides from the owner that transaction t is in a block: a later version at its
\* nonce, whose row is the last one, or another transaction with the intent at a higher
\* nonce.
Hidden(i, t) ==
    \E u \in Txs \ {t} :
      \/ sent[u].nonce = sent[t].nonce /\ u > t
      \/ sent[u].nonce > sent[t].nonce /\ i \in sent[u].ids

Recorded(t) == ~\E k \in DOMAIN job : job[k].step = "sent" /\ job[k].tx = t

\* Intents with a transaction of the head chain that publishes them, of which the owner
\* is not told.
Untold ==
    {r \in Intents \X {onChain[n].tx : n \in DOMAIN onChain} :
       LET i == r[1]
           t == r[2]
       IN  /\ i \in sent[t].ids /\ Recorded(t)
           /\ ~IsInBlock(StatusById(i)) /\ ~Cancelled(i) /\ ~Hidden(i, t)}

\* PublishedIsTold: while nothing fails, the owner of an intent that a block of the head
\* chain has published is told so from the record of its inclusion on, through
\* reorganisations and finalizations, unless the transaction is excluded for having been
\* repriced, by a later version or by its own late registration, or was before.
PublishedIsTold ==
    [][faults' = 0 =>
         \A r \in Untold' \ Untold :
           \/ \E k \in DOMAIN fin : r[2] \in fin[k].excluded
           \/ Recorded(r[2]) /\ r \notin inclusions]_vars

\* HistoryAnswers: the history of an address has an entry for each of its intents
\* (app.rs: "Returns all intents (pending, included, finalized, cancelled) with their
\* current status and optional inclusion tx hash").
HistoryAnswers == \A i \in Committed : HistoryEntry(i).status # "Error"
===============================================================================
