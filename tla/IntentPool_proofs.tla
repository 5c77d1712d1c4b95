--------------------------- MODULE IntentPool_proofs ---------------------------
(***************************************************************************)
(* For any intents, prices and bounds: a row is marked finalized only for  *)
(* a transaction under an anchor, a cancelled intent stays out of the pool, *)
(* the tracker's indexes agree with each other and with the table, no      *)
(* visible row falls out of the window of the fetches, what is in a block  *)
(* is not packed again, and its owner is told of it.                       *)
(*                                                                         *)
(* FinalInv adds what finalization goes by: the inclusions, in memory and  *)
(* in the table, are of intents that the transaction has, and what the     *)
(* anchor once had on its chain stays there.  IndexInv adds that what is   *)
(* recorded is new to the index, and that rows are deleted only of         *)
(* transactions that the index has lost.                                   *)
(***************************************************************************)
EXTENDS Queries, Sums

Row == [at : Nat, committed : BOOLEAN, data : BOOLEAN, cancelled : BOOLEAN,
        finalized : BOOLEAN, numbered : BOOLEAN]

RowsOK == rows \in [DOMAIN rows -> Row] /\ clock \in Nat

\* A sequence, of whatever it has
IsSeq(s) == \E S : s \in Seq(S)

\* AppendSeq: what Append leaves as it was, and what it adds.
LEMMA AppendSeq ==
    ASSUME NEW s, IsSeq(s), NEW e
    PROVE  /\ IsSeq(Append(s, e))
           /\ Len(s) \in Nat /\ DOMAIN s = 1 .. Len(s)
           /\ Len(Append(s, e)) = Len(s) + 1 /\ DOMAIN Append(s, e) = 1 .. Len(s) + 1
           /\ Append(s, e)[Len(s) + 1] = e
           /\ \A k \in DOMAIN s : Append(s, e)[k] = s[k]
<1>1. PICK S : s \in Seq(S)
    BY DEF IsSeq
<1>2. PICK T : S \subseteq T /\ e \in T
  <2>1. S \subseteq S \union {e} /\ e \in S \union {e}
      OBVIOUS
  <2> QED
      BY <2>1
<1>3. s \in Seq(T)
    BY <1>1, <1>2
<1>4. /\ Append(s, e) \in Seq(T)
      /\ Len(s) \in Nat /\ DOMAIN s = 1 .. Len(s)
      /\ Len(Append(s, e)) = Len(s) + 1 /\ DOMAIN Append(s, e) = 1 .. Len(s) + 1
      /\ Append(s, e)[Len(s) + 1] = e
      /\ \A k \in DOMAIN s : Append(s, e)[k] = s[k]
    BY <1>2, <1>3
<1> QED
    BY <1>4 DEF IsSeq

\* PrefixSeq: a prefix of a sequence has its first elements.
LEMMA PrefixSeq ==
    ASSUME NEW s, IsSeq(s), NEW k \in 0 .. Len(s)
    PROVE  /\ IsSeq(SubSeq(s, 1, k))
           /\ Len(SubSeq(s, 1, k)) = k /\ DOMAIN SubSeq(s, 1, k) = 1 .. k
           /\ \A n \in 1 .. k : SubSeq(s, 1, k)[n] = s[n]
<1>1. PICK S : s \in Seq(S)
    BY DEF IsSeq
<1>2. /\ SubSeq(s, 1, k) \in Seq(S)
      /\ Len(SubSeq(s, 1, k)) = k /\ DOMAIN SubSeq(s, 1, k) = 1 .. k
      /\ \A n \in 1 .. k : SubSeq(s, 1, k)[n] = s[n]
    BY <1>1
<1> QED
    BY <1>2 DEF IsSeq

-----------------------------------------------------------------------------
(* The inductive invariant *)

SentOK == IsSeq(sent)

ChainOK ==
    /\ IsSeq(onChain)
    /\ \A n \in DOMAIN onChain :
         /\ onChain[n] = [tx |-> onChain[n].tx, held |-> onChain[n].held]
         /\ onChain[n].tx \in Txs

\* What an anchor has, or had, is on the chain.
AnchorsOK ==
    /\ finalCount \in Nat /\ savedCount \in Nat /\ deepest \in Nat
    /\ finalCount <= deepest /\ savedCount <= deepest /\ deepest <= Len(onChain)

\* An inclusion, in memory and in the table, is of an intent that the transaction has.
InclusionsOK ==
    /\ \A t \in DOMAIN includedIntents : t \in Txs /\ includedIntents[t] = sent[t].ids
    /\ \A r \in inclusions : r[2] \in Txs /\ r[1] \in sent[r[2]].ids

JobOK ==
    job # <<>> =>
      /\ job[1] = [step |-> job[1].step, ids |-> job[1].ids, price |-> job[1].price,
                   tx |-> job[1].tx]
      /\ job[1].step # "packed" => job[1].tx \in Txs /\ job[1].ids = sent[job[1].tx].ids

\* A transaction that an anchor has had, or an intent of one
Anchored(t) == \E n \in 1 .. deepest : onChain[n].tx = t
Published(i) == \E n \in 1 .. deepest : i \in sent[onChain[n].tx].ids

FinOK ==
    fin # <<>> =>
      /\ fin[1] = [step |-> fin[1].step, ids |-> fin[1].ids, included |-> fin[1].included,
                   excluded |-> fin[1].excluded]
      /\ fin[1].step = "advanced" => \A t \in fin[1].included : Anchored(t)
      /\ fin[1].step # "advanced" => \A i \in fin[1].ids : Published(i)

FinalInv ==
    /\ RowsOK /\ SentOK /\ ChainOK /\ AnchorsOK /\ InclusionsOK /\ JobOK /\ FinOK
    /\ FinalizedIsFinal

\* What is under an anchor stays there, and what was sent stays what it is.
Grows ==
    /\ \A t \in Txs : t \in Txs' /\ sent'[t] = sent[t]
    /\ \A n \in 1 .. deepest : onChain'[n].tx = onChain[n].tx
    /\ deepest <= deepest'

\* FinalInit: before the first step nothing is stored, sent, mined or finalized.
LEMMA FinalInit == Init => FinalInv
<1> SUFFICES ASSUME Init PROVE FinalInv
    OBVIOUS
<1>1. RowsOK
    BY DEF Init, RowsOK
<1>2. <<>> \in Seq({})
    OBVIOUS
<1>3. SentOK /\ ChainOK /\ AnchorsOK
    BY <1>2 DEF Init, SentOK, ChainOK, AnchorsOK, IsSeq
<1>4. InclusionsOK /\ JobOK /\ FinOK /\ FinalizedIsFinal
    BY DEF Init, InclusionsOK, JobOK, FinOK, FinalizedIsFinal
<1> QED
    BY <1>1, <1>3, <1>4 DEF FinalInv

-----------------------------------------------------------------------------
(* What each step does to the chain *)

\* SendGrows: sending adds one transaction, with the intents the job then has.
LEMMA SendGrows ==
    ASSUME FinalInv, NEW n, NEW ids, NEW fee, NEW step, Send(n, ids, fee, step)
    PROVE  /\ SentOK' /\ \A t \in Txs : t \in Txs' /\ sent'[t] = sent[t]
           /\ job' # <<>> /\ job'[1] = [step |-> step, ids |-> ids, price |-> fee, tx |-> job'[1].tx]
           /\ job'[1].tx \in Txs' /\ sent'[job'[1].tx].ids = ids
<1>1. /\ IsSeq(sent') /\ Len(sent) \in Nat /\ DOMAIN sent = 1 .. Len(sent)
      /\ DOMAIN sent' = 1 .. Len(sent) + 1
      /\ sent'[Len(sent) + 1] = [nonce |-> n, fee |-> fee, ids |-> ids]
      /\ \A k \in DOMAIN sent : sent'[k] = sent[k]
    BY AppendSeq DEF Send, FinalInv, SentOK
<1>2. job' = <<[step |-> step, ids |-> ids, price |-> fee, tx |-> Len(sent) + 1]>>
    BY DEF Send
<1> QED
    BY <1>1, <1>2 DEF SentOK, Txs

\* MineGrows: a mined transaction is one that was sent, and joins the chain at its end.
LEMMA MineGrows ==
    ASSUME FinalInv, NEW t \in Txs, NEW p, Mine(t, p)
    PROVE  ChainOK' /\ AnchorsOK' /\ Grows
<1>1. PICK held : onChain' = Append(onChain, [tx |-> t, held |-> held])
    BY DEF Mine
<1>2. UNCHANGED <<sent, deepest, finalCount, savedCount>>
    BY DEF Mine, dbVars
<1>3. /\ IsSeq(onChain') /\ Len(onChain) \in Nat /\ DOMAIN onChain = 1 .. Len(onChain)
      /\ Len(onChain') = Len(onChain) + 1 /\ DOMAIN onChain' = 1 .. Len(onChain) + 1
      /\ onChain'[Len(onChain) + 1] = [tx |-> t, held |-> held]
      /\ \A k \in DOMAIN onChain : onChain'[k] = onChain[k]
    BY <1>1, AppendSeq DEF FinalInv, ChainOK
<1>4. ChainOK'
  <2> SUFFICES ASSUME NEW n \in DOMAIN onChain'
               PROVE  /\ onChain'[n] = [tx |-> onChain'[n].tx, held |-> onChain'[n].held]
                      /\ onChain'[n].tx \in Txs'
      BY <1>3 DEF ChainOK
  <2>1. CASE n \in DOMAIN onChain
      BY <2>1, <1>2, <1>3 DEF FinalInv, ChainOK, Txs
  <2>2. CASE n = Len(onChain) + 1
      BY <2>2, <1>2, <1>3 DEF Txs
  <2> QED
      BY <2>1, <2>2, <1>3
<1>5. AnchorsOK'
    BY <1>2, <1>3 DEF FinalInv, AnchorsOK
<1>6. Grows
    BY <1>2, <1>3 DEF FinalInv, AnchorsOK, Grows, Txs
<1> QED
    BY <1>4, <1>5, <1>6

\* ReorgGrows: a reorganisation cuts the chain above the deepest anchor there was.
LEMMA ReorgGrows ==
    ASSUME FinalInv, NEW k, Reorg(k)
    PROVE  ChainOK' /\ AnchorsOK' /\ Grows
<1>1. /\ k \in deepest .. Len(onChain) - 1 /\ onChain' = SubSeq(onChain, 1, k)
      /\ UNCHANGED <<sent, deepest, finalCount, savedCount>>
    BY DEF Reorg, dbVars
<1>2. Len(onChain) \in Nat /\ DOMAIN onChain = 1 .. Len(onChain)
    BY AppendSeq DEF FinalInv, ChainOK
<1>3. k \in 0 .. Len(onChain)
    BY <1>1, <1>2 DEF FinalInv, AnchorsOK
<1>4. /\ IsSeq(onChain') /\ Len(onChain') = k /\ DOMAIN onChain' = 1 .. k
      /\ \A n \in 1 .. k : onChain'[n] = onChain[n]
    BY <1>1, <1>3, PrefixSeq DEF FinalInv, ChainOK
<1>5. ChainOK'
    BY <1>1, <1>2, <1>3, <1>4 DEF FinalInv, ChainOK, Txs
<1>6. AnchorsOK'
    BY <1>1, <1>2, <1>4 DEF FinalInv, AnchorsOK
<1>7. Grows
    BY <1>1, <1>2, <1>3, <1>4 DEF FinalInv, AnchorsOK, Grows, Txs
<1> QED
    BY <1>5, <1>6, <1>7

\* LargerOfTwo: the maximum of two numbers is one of them, and no lower than either.
LEMMA LargerOfTwo ==
    ASSUME NEW a \in Nat, NEW b \in Nat
    PROVE  Max({a, b}) \in {a, b} /\ Max({a, b}) >= a /\ Max({a, b}) >= b
<1>1. \E x \in {a, b} : \A y \in {a, b} : x >= y
    OBVIOUS
<1> QED
    BY <1>1 DEF Max

\* AdvanceGrows: a new anchor is on the chain, and what it finalizes was sent.
LEMMA AdvanceGrows ==
    ASSUME FinalInv, NEW k, AdvanceAnchor(k)
    PROVE  ChainOK' /\ AnchorsOK' /\ Grows /\ FinOK'
<1>1. /\ k \in finalCount + 1 .. Len(onChain) /\ finalCount' = k /\ deepest' = Max({deepest, k})
      /\ UNCHANGED <<sent, onChain, savedCount>>
    BY DEF AdvanceAnchor, dbVars
<1>2. Len(onChain) \in Nat /\ DOMAIN onChain = 1 .. Len(onChain)
    BY AppendSeq DEF FinalInv, ChainOK
<1>3. k \in Nat /\ deepest \in Nat
    BY <1>1, <1>2 DEF FinalInv, AnchorsOK
<1>4. deepest' \in {deepest, k} /\ deepest' >= deepest /\ deepest' >= k
    BY <1>1, <1>3, LargerOfTwo
<1>5. ChainOK' /\ Grows
    BY <1>1, <1>3, <1>4 DEF FinalInv, ChainOK, Grows, Txs
<1>6. AnchorsOK'
    BY <1>1, <1>2, <1>3, <1>4 DEF FinalInv, AnchorsOK
<1>7. FinOK'
  <2> DEFINE blobs == {t \in {onChain[n].tx : n \in finalCount + 1 .. k} : ~Transfer(t)}
  <2>1. fin' = <<[step |-> "advanced", ids |-> {}, included |-> blobs, excluded |-> Losers(k)]>>
      BY DEF AdvanceAnchor
  <2>2. \A t \in blobs : \E n \in 1 .. deepest' : onChain'[n].tx = t
      BY <1>1, <1>3, <1>4 DEF FinalInv, AnchorsOK
  <2> HIDE DEF blobs
  <2>3. /\ fin'[1] = [step |-> fin'[1].step, ids |-> fin'[1].ids, included |-> fin'[1].included,
                      excluded |-> fin'[1].excluded]
        /\ fin'[1].step = "advanced" /\ fin'[1].included = blobs
      BY <2>1
  <2> QED
      BY <2>2, <2>3 DEF FinOK, Anchored
<1> QED
    BY <1>5, <1>6, <1>7

\* RestartGrows: a restart goes back to the saved anchor, and keeps the chain.
LEMMA RestartGrows ==
    ASSUME FinalInv, Restart
    PROVE  ChainOK' /\ AnchorsOK' /\ Grows
<1>1. /\ onChain' = [n \in DOMAIN onChain |-> [onChain[n] EXCEPT !.held = {}]]
      /\ finalCount' = savedCount
      /\ UNCHANGED <<sent, deepest, savedCount>>
    BY DEF Restart
<1>2. PICK S : onChain \in Seq(S)
    BY DEF FinalInv, ChainOK, IsSeq
<1>3. Len(onChain) \in Nat /\ DOMAIN onChain = 1 .. Len(onChain)
    BY <1>2
<1>4. \A n \in DOMAIN onChain : onChain'[n] = [tx |-> onChain[n].tx, held |-> {}]
  <2> TAKE n \in DOMAIN onChain
  <2>1. onChain[n] = [tx |-> onChain[n].tx, held |-> onChain[n].held]
      BY DEF FinalInv, ChainOK
  <2>2. onChain'[n] = [onChain[n] EXCEPT !.held = {}]
      BY <1>1
  <2> QED
      BY <2>1, <2>2
<1> DEFINE L == [tx : Txs, held : {{}}]
<1>5. onChain' \in Seq(L)
  <2>1. ASSUME NEW n \in DOMAIN onChain PROVE onChain'[n] \in L
    <3>1. onChain[n].tx \in Txs
        BY DEF FinalInv, ChainOK
    <3>2. onChain'[n] = [tx |-> onChain[n].tx, held |-> {}]
        BY <1>4
    <3> HIDE DEF Txs
    <3> QED
        BY <3>1, <3>2
  <2> HIDE DEF L
  <2>2. onChain' \in [1 .. Len(onChain) -> L]
      BY <2>1, <1>1, <1>3
  <2> QED
      BY <2>2, <1>3
<1>6. DOMAIN onChain' = DOMAIN onChain /\ Len(onChain') = Len(onChain)
    BY <1>1, <1>3, <1>5
<1>7. ChainOK'
  <2>1. IsSeq(onChain')
      BY <1>5 DEF IsSeq
  <2> QED
      BY <1>1, <1>4, <1>6, <2>1 DEF FinalInv, ChainOK, Txs
<1>8. AnchorsOK' /\ Grows
    BY <1>1, <1>3, <1>4, <1>6 DEF FinalInv, AnchorsOK, Grows, Txs
<1> QED
    BY <1>7, <1>8

\* The steps that leave the transactions, the chain and the anchors alone
LEMMA OthersGrow ==
    ASSUME Api \/ Pack \/ GiveUp \/ RecordInclusions \/ RegisterSent
             \/ FinalizeTxs \/ MarkIncluded \/ SetFinalizedBlockNumber \/ DropExcluded
             \/ DeleteInclusions \/ Dropping \/ (\E p \in Prices : MineEmpty(p)) \/ Tick
             \/ RecordFails \/ FinalizeFails \/ DropFails \/ ConsistencyCheck \/ UNCHANGED vars
    PROVE  UNCHANGED <<sent, onChain, deepest, finalCount, savedCount>>
<1>1. CASE Api
    BY <1>1 DEF Api, StoreDataIntent, CommitIntent, CheckCancel, SyncWithDb, dbVars, syncVars,
                chainVars
<1>2. CASE Pack \/ GiveUp \/ RecordInclusions \/ RegisterSent \/ RecordFails
    BY <1>2 DEF Pack, GiveUp, RecordInclusions, RegisterSent, RecordFails, dbVars, syncVars,
                chainVars
<1>3. CASE FinalizeTxs \/ MarkIncluded \/ SetFinalizedBlockNumber \/ DropExcluded
             \/ DeleteInclusions \/ FinalizeFails
    BY <1>3 DEF FinalizeTxs, MarkIncluded, SetFinalizedBlockNumber, DropExcluded,
                DeleteInclusions, FinalizeFails, dbVars, syncVars, chainVars
<1>4. CASE Dropping \/ DropFails \/ ConsistencyCheck
    BY <1>4 DEF Dropping, FindStale, MarkCancelled, RemovePending, DropFails, ConsistencyCheck,
                dbVars, syncVars, chainVars
<1>5. CASE (\E p \in Prices : MineEmpty(p)) \/ Tick \/ UNCHANGED vars
    BY <1>5 DEF MineEmpty, Tick, vars, dbVars, syncVars, chainVars
<1> QED
    BY <1>1, <1>2, <1>3, <1>4, <1>5

\* ChainStep: in no step is a transaction forgotten, or a block under an anchor
\* replaced.
LEMMA ChainStep ==
    ASSUME FinalInv, [Next]_vars
    PROVE  SentOK' /\ ChainOK' /\ AnchorsOK' /\ Grows
<1>1. CASE UNCHANGED <<sent, onChain, deepest, finalCount, savedCount>>
    BY <1>1 DEF FinalInv, SentOK, ChainOK, AnchorsOK, Grows, Txs
<1>2. CASE SendBlobTx \/ SendSelfTransfer
  <2>1. UNCHANGED <<onChain, deepest, finalCount, savedCount>>
      BY <1>2 DEF SendBlobTx, SendSelfTransfer, dbVars, syncVars
  <2>2. SentOK' /\ \A t \in Txs : t \in Txs' /\ sent'[t] = sent[t]
      BY <1>2, SendGrows DEF SendBlobTx, SendSelfTransfer
  <2>3. ChainOK' /\ AnchorsOK' /\ Grows
      BY <2>1, <2>2 DEF FinalInv, ChainOK, AnchorsOK, Grows
  <2> QED
      BY <2>2, <2>3
<1>3. CASE \/ \E t \in Txs, p \in Prices : Mine(t, p)
           \/ \E k \in 0 .. MaxSent : Reorg(k)
           \/ \E k \in 1 .. MaxSent : AdvanceAnchor(k)
           \/ Restart
  <2>1. UNCHANGED sent
      BY <1>3 DEF Mine, Reorg, AdvanceAnchor, Restart
  <2>2. SentOK'
      BY <2>1 DEF FinalInv, SentOK
  <2> QED
      BY <1>3, <2>2, MineGrows, ReorgGrows, AdvanceGrows, RestartGrows
<1>4. CASE PersistAnchor
  <2>1. savedCount' = finalCount /\ UNCHANGED <<sent, onChain, deepest, finalCount>>
      BY <1>4 DEF PersistAnchor, syncVars, chainVars
  <2> QED
      BY <2>1 DEF FinalInv, SentOK, ChainOK, AnchorsOK, Grows, Txs
<1> QED
    BY <1>1, <1>2, <1>3, <1>4, OthersGrow
       DEF Next, Sender, Subscriber, Environment, Faults

\* What has been published under an anchor remains so.
LEMMA PublishedStays ==
    ASSUME FinalInv, [Next]_vars
    PROVE  /\ \A i : Published(i) => Published(i)'
           /\ \A t : Anchored(t) => Anchored(t)'
<1>1. Grows /\ AnchorsOK'
    BY ChainStep
<1>2. \A n \in 1 .. deepest : n \in 1 .. deepest' /\ n \in DOMAIN onChain
    BY <1>1, AppendSeq DEF Grows, AnchorsOK, FinalInv, ChainOK
<1>3. \A n \in 1 .. deepest :
        onChain'[n].tx = onChain[n].tx /\ sent'[onChain[n].tx] = sent[onChain[n].tx]
    BY <1>1, <1>2 DEF Grows, FinalInv, ChainOK
<1> QED
    BY <1>2, <1>3 DEF Published, Anchored

-----------------------------------------------------------------------------
(* What each step does to the rows *)

\* Every row that was there is there, and of the flags a fetch goes by at most one is set.
LEMMA UpdateKeeps ==
    ASSUME RowsOK, UNCHANGED clock, NEW ids,
           \/ rows' = [i \in DOMAIN rows |->
                         IF i \in ids THEN [rows[i] EXCEPT !.finalized = TRUE, !.at = clock]
                         ELSE rows[i]]
           \/ rows' = [i \in DOMAIN rows |->
                         IF i \in ids THEN [rows[i] EXCEPT !.numbered = TRUE, !.at = clock]
                         ELSE rows[i]]
           \/ rows' = [i \in DOMAIN rows |->
                         IF i \in ids THEN [rows[i] EXCEPT !.data = FALSE, !.at = clock]
                         ELSE rows[i]]
    PROVE  /\ RowsOK' /\ DOMAIN rows' = DOMAIN rows
           /\ \A i \in DOMAIN rows :
                /\ rows'[i].committed = rows[i].committed
                /\ rows'[i].cancelled = rows[i].cancelled
                /\ rows'[i].finalized => rows[i].finalized \/ i \in ids
<1>1. DOMAIN rows' = DOMAIN rows
    OBVIOUS
<1>2. ASSUME NEW i \in DOMAIN rows
      PROVE  /\ rows'[i] \in Row
             /\ rows'[i].committed = rows[i].committed
             /\ rows'[i].cancelled = rows[i].cancelled
             /\ rows'[i].finalized => rows[i].finalized \/ i \in ids
  <2>1. rows[i] \in Row /\ clock \in Nat
      BY DEF RowsOK
  <2>2. \/ rows'[i] = [rows[i] EXCEPT !.finalized = TRUE, !.at = clock] /\ i \in ids
        \/ rows'[i] = [rows[i] EXCEPT !.numbered = TRUE, !.at = clock]
        \/ rows'[i] = [rows[i] EXCEPT !.data = FALSE, !.at = clock]
        \/ rows'[i] = rows[i]
      OBVIOUS
  <2> QED
      BY <2>1, <2>2 DEF Row
<1>3. RowsOK'
  <2>1. rows' \in [DOMAIN rows' -> Row]
      BY <1>1, <1>2
  <2> QED
      BY <2>1 DEF RowsOK
<1> QED
    BY <1>1, <1>2, <1>3

\* A row is inserted.
LEMMA StoreKeeps ==
    ASSUME RowsOK, NEW j, StoreDataIntent(j)
    PROVE  /\ RowsOK' /\ DOMAIN rows' = DOMAIN rows \union {j} /\ j \notin DOMAIN rows
           /\ \A i \in DOMAIN rows : rows'[i] = rows[i]
           /\ ~rows'[j].finalized /\ ~rows'[j].cancelled /\ ~rows'[j].committed
<1> DEFINE new == [at |-> clock, committed |-> FALSE, data |-> TRUE, cancelled |-> FALSE,
                   finalized |-> FALSE, numbered |-> FALSE]
<1>1. /\ rows' = [k \in DOMAIN rows \union {j} |-> IF k \in {j} THEN new ELSE rows[k]]
      /\ j \notin DOMAIN rows /\ UNCHANGED clock
    BY DEF StoreDataIntent, With
<1>2. new \in Row
    BY DEF RowsOK, Row
<1>3. /\ DOMAIN rows' = DOMAIN rows \union {j}
      /\ \A i \in DOMAIN rows : rows'[i] = rows[i]
      /\ rows'[j] = new
  <2> HIDE DEF new
  <2> QED
      BY <1>1
<1>4. RowsOK'
  <2>1. rows' \in [DOMAIN rows' -> Row]
    <3> HIDE DEF new
    <3> QED
        BY <1>1, <1>2, <1>3 DEF RowsOK
  <2> QED
      BY <1>1, <2>1 DEF RowsOK
<1> QED
    BY <1>1, <1>3, <1>4

\* An insertion commits, or a row is marked cancelled.
LEMMA FlagKeeps ==
    ASSUME RowsOK, UNCHANGED clock, NEW j,
           \/ rows' = [rows EXCEPT ![j].committed = TRUE]
           \/ rows' = [rows EXCEPT ![j].cancelled = TRUE, ![j].at = clock]
    PROVE  /\ RowsOK' /\ DOMAIN rows' = DOMAIN rows
           /\ \A i \in DOMAIN rows :
                /\ rows'[i].finalized = rows[i].finalized
                /\ i # j => rows'[i] = rows[i]
<1>1. CASE j \notin DOMAIN rows
  <2>1. rows' = rows
      BY <1>1 DEF RowsOK
  <2> QED
      BY <2>1 DEF RowsOK
<1>2. CASE j \in DOMAIN rows
  <2>1. rows[j] \in Row /\ clock \in Nat
      BY <1>2 DEF RowsOK
  <2>2. DOMAIN rows' = DOMAIN rows /\ \A i \in DOMAIN rows : i # j => rows'[i] = rows[i]
      BY DEF RowsOK
  <2>3. \/ rows'[j] = [rows[j] EXCEPT !.committed = TRUE]
        \/ rows'[j] = [rows[j] EXCEPT !.cancelled = TRUE, !.at = clock]
      BY <1>2 DEF RowsOK
  <2>4. rows'[j] \in Row /\ rows'[j].finalized = rows[j].finalized
      BY <2>1, <2>3 DEF Row
  <2>5. RowsOK'
    <3>1. rows' \in [DOMAIN rows' -> Row]
        BY <2>2, <2>4 DEF RowsOK
    <3> QED
        BY <3>1 DEF RowsOK
  <2> QED
      BY <2>2, <2>4, <2>5
<1> QED
    BY <1>1, <1>2

\* A restart forgets what was not committed.
LEMMA RestartRows ==
    ASSUME RowsOK, Restart
    PROVE  RowsOK' /\ DOMAIN rows' = Committed /\ \A i \in Committed : rows'[i] = rows[i]
<1>1. rows' = [i \in Committed |-> rows[i]] /\ UNCHANGED clock
    BY DEF Restart
<1> QED
    BY <1>1 DEF RowsOK, Committed

\* OtherRows: all other steps leave the table of intents alone.
LEMMA OtherRows ==
    ASSUME SyncWithDb \/ (\E i \in Intents : CheckCancel(i)) \/ Sender
             \/ (\E k \in 1 .. MaxSent : AdvanceAnchor(k)) \/ FinalizeTxs \/ DropExcluded
             \/ DeleteInclusions \/ (\E ids \in SUBSET Intents : FindStale(ids)) \/ RemovePending
             \/ (\E t \in Txs, p \in Prices : Mine(t, p)) \/ (\E p \in Prices : MineEmpty(p))
             \/ (\E k \in 0 .. MaxSent : Reorg(k)) \/ RecordFails \/ FinalizeFails \/ DropFails
             \/ UNCHANGED vars
    PROVE  UNCHANGED <<rows, clock>>
<1>1. CASE Sender \/ RecordFails
    BY <1>1 DEF Sender, Pack, GiveUp, SendBlobTx, SendSelfTransfer, RecordInclusions, RegisterSent,
                RecordFails, dbVars
<1>2. CASE (\E k \in 1 .. MaxSent : AdvanceAnchor(k)) \/ FinalizeTxs \/ DropExcluded
             \/ DeleteInclusions \/ FinalizeFails
    BY <1>2 DEF AdvanceAnchor, FinalizeTxs, DropExcluded, DeleteInclusions, FinalizeFails, dbVars
<1>3. CASE SyncWithDb \/ (\E i \in Intents : CheckCancel(i))
             \/ (\E ids \in SUBSET Intents : FindStale(ids)) \/ RemovePending \/ DropFails
    BY <1>3 DEF SyncWithDb, CheckCancel, FindStale, RemovePending, DropFails, dbVars
<1>4. CASE (\E t \in Txs, p \in Prices : Mine(t, p)) \/ (\E p \in Prices : MineEmpty(p))
             \/ (\E k \in 0 .. MaxSent : Reorg(k)) \/ UNCHANGED vars
    BY <1>4 DEF Mine, MineEmpty, Reorg, vars, dbVars
<1> QED
    BY <1>1, <1>2, <1>3, <1>4

\* A row is marked finalized only for an intent that is published under an anchor.
LEMMA RowsStep ==
    ASSUME FinalInv, [Next]_vars
    PROVE  RowsOK' /\ \A i \in DOMAIN rows' : rows'[i].finalized => Published(i)
<1> USE DEF FinalInv
<1>0. \A i \in DOMAIN rows : rows[i].finalized => Published(i)
    BY DEF FinalizedIsFinal, Published
<1>1. CASE UNCHANGED <<rows, clock>>
    BY <1>0, <1>1 DEF RowsOK
<1>2. CASE \E j \in Intents : StoreDataIntent(j)
    BY <1>0, <1>2, StoreKeeps
<1>3. CASE (\E j \in Intents : CommitIntent(j)) \/ MarkCancelled
  <2>1. PICK j : /\ UNCHANGED clock
                 /\ \/ rows' = [rows EXCEPT ![j].committed = TRUE]
                    \/ rows' = [rows EXCEPT ![j].cancelled = TRUE, ![j].at = clock]
      BY <1>3 DEF CommitIntent, MarkCancelled
  <2> QED
      BY <1>0, <2>1, FlagKeeps
<1>4. CASE MarkIncluded \/ SetFinalizedBlockNumber
  <2>1. \A i \in fin[1].ids : Published(i)
      BY <1>4 DEF MarkIncluded, SetFinalizedBlockNumber, FinOK
  <2> QED
      BY <1>0, <1>4, <2>1, UpdateKeeps DEF MarkIncluded, SetFinalizedBlockNumber, MarkFinalized
<1>5. CASE PersistAnchor
  <2>1. PICK old \in SUBSET Prunable :
          rows' = [i \in DOMAIN rows |->
                     IF i \in old THEN [rows[i] EXCEPT !.data = FALSE, !.at = clock] ELSE rows[i]]
      BY <1>5 DEF PersistAnchor
  <2>2. \A i \in old : rows[i].finalized /\ i \in DOMAIN rows
      BY DEF Prunable
  <2>3. UNCHANGED clock
      BY <1>5 DEF PersistAnchor
  <2> QED
      BY <1>0, <2>1, <2>2, <2>3, UpdateKeeps
<1>6. CASE ConsistencyCheck
  <2> DEFINE final == {onChain[n].tx : n \in 1 .. finalCount}
             ids   == {r[1] : r \in {q \in NotFinalized : q[2] \in final}}
  <2>1. /\ UNCHANGED clock
        /\ rows' = [i \in DOMAIN rows |->
                      IF i \in ids THEN [rows[i] EXCEPT !.finalized = TRUE, !.at = clock]
                      ELSE rows[i]]
      BY <1>6 DEF ConsistencyCheck, MarkFinalized
  <2>2. \A i \in ids : Published(i)
    <3> TAKE i \in ids
    <3>1. PICK r \in inclusions : r[1] = i /\ r[2] \in final
        BY DEF NotFinalized
    <3>2. i \in sent[r[2]].ids
        BY <3>1 DEF InclusionsOK
    <3>3. PICK n \in 1 .. finalCount : r[2] = onChain[n].tx
        BY <3>1
    <3>4. n \in 1 .. deepest
        BY DEF AnchorsOK
    <3> QED
        BY <3>2, <3>3, <3>4 DEF Published
  <2> HIDE DEF ids
  <2> QED
      BY <1>0, <2>1, <2>2, UpdateKeeps
<1>7. CASE Restart
    BY <1>0, <1>7, RestartRows DEF Committed
<1>8. CASE Tick
    BY <1>0, <1>8 DEF Tick, RowsOK
<1> QED
  <2> USE DEF Next, Api, Subscriber, Dropping, Environment, Faults
  <2>1. CASE Api \/ Dropping
      BY <2>1, <1>1, <1>2, <1>3, OtherRows
  <2>2. CASE Subscriber
      BY <2>2, <1>1, <1>4, <1>5, OtherRows
  <2>3. CASE Environment \/ Faults
      BY <2>3, <1>1, <1>7, <1>8, OtherRows
  <2> QED
      BY <2>1, <2>2, <2>3, <1>1, <1>6, OtherRows

-----------------------------------------------------------------------------
(* What each step does to the inclusions, and to those under way *)

\* The steps that touch no inclusion
LEMMA OtherInclusions ==
    ASSUME Api \/ Pack \/ GiveUp \/ SendBlobTx \/ SendSelfTransfer \/ RegisterSent
             \/ (\E k \in 1 .. MaxSent : AdvanceAnchor(k)) \/ MarkIncluded
             \/ SetFinalizedBlockNumber \/ PersistAnchor \/ Dropping \/ Environment
             \/ FinalizeFails \/ DropFails \/ ConsistencyCheck \/ UNCHANGED vars
    PROVE  UNCHANGED <<inclusions, includedIntents>>
<1>1. CASE Api
    BY <1>1 DEF Api, StoreDataIntent, CommitIntent, CheckCancel, SyncWithDb, dbVars, trackerVars
<1>2. CASE Pack \/ GiveUp \/ SendBlobTx \/ SendSelfTransfer \/ RegisterSent
    BY <1>2 DEF Pack, GiveUp, SendBlobTx, SendSelfTransfer, RegisterSent, dbVars, trackerVars
<1>3. CASE (\E k \in 1 .. MaxSent : AdvanceAnchor(k)) \/ MarkIncluded
             \/ SetFinalizedBlockNumber \/ PersistAnchor \/ FinalizeFails
    BY <1>3 DEF AdvanceAnchor, MarkIncluded, SetFinalizedBlockNumber, PersistAnchor,
                FinalizeFails, dbVars, trackerVars
<1>4. CASE Dropping \/ DropFails \/ ConsistencyCheck
    BY <1>4 DEF Dropping, FindStale, MarkCancelled, RemovePending, DropFails, ConsistencyCheck,
                dbVars, trackerVars
<1>5. CASE Environment \/ UNCHANGED vars
    BY <1>5 DEF Environment, Mine, MineEmpty, Reorg, Tick, vars, dbVars, trackerVars
<1> QED
    BY <1>1, <1>2, <1>3, <1>4, <1>5

\* InclusionsStep: every step keeps inclusions, in memory and in the table, to intents
\* that the transaction was sent with.
LEMMA InclusionsStep ==
    ASSUME FinalInv, [Next]_vars
    PROVE  InclusionsOK'
<1>0. \A t \in Txs : t \in Txs' /\ sent'[t] = sent[t]
    BY ChainStep DEF Grows
<1>1. /\ \A t \in DOMAIN includedIntents : t \in Txs /\ includedIntents[t] = sent[t].ids
      /\ \A r \in inclusions : r[2] \in Txs /\ r[1] \in sent[r[2]].ids
    BY DEF FinalInv, InclusionsOK
<1>2. CASE UNCHANGED <<inclusions, includedIntents>>
    BY <1>0, <1>1, <1>2 DEF InclusionsOK
<1>3. CASE RecordInclusions \/ RecordFails
  <2>1. /\ job # <<>> /\ job[1].step = "sent"
        /\ job[1].tx \in Txs /\ job[1].ids = sent[job[1].tx].ids
      BY <1>3 DEF RecordInclusions, RecordFails, FinalInv, JobOK
  <2>2. inclusions' \subseteq inclusions \union (job[1].ids \X {job[1].tx})
      BY <1>3 DEF RecordInclusions, RecordFails
  <2>3. \/ UNCHANGED includedIntents
        \/ includedIntents' = With(includedIntents, {job[1].tx}, LAMBDA u : job[1].ids)
      BY <1>3 DEF RecordInclusions, RecordFails, trackerVars
  <2>4. \A t \in DOMAIN includedIntents' : t \in Txs /\ includedIntents'[t] = sent[t].ids
      BY <1>1, <2>1, <2>3 DEF With
  <2>5. \A r \in inclusions' : r[2] \in Txs /\ r[1] \in sent[r[2]].ids
    <3> TAKE r \in inclusions'
    <3>1. CASE r \in inclusions
        BY <3>1, <1>1
    <3>2. CASE r \in job[1].ids \X {job[1].tx}
        BY <3>2, <2>1
    <3> QED
        BY <2>2, <3>1, <3>2
  <2> QED
      BY <1>0, <2>4, <2>5 DEF InclusionsOK
<1>4. CASE FinalizeTxs \/ DropExcluded \/ DeleteInclusions \/ Restart
  <2>1. inclusions' \subseteq inclusions
      BY <1>4 DEF FinalizeTxs, DropExcluded, DeleteInclusions, Restart, dbVars
  <2>2. /\ DOMAIN includedIntents' \subseteq DOMAIN includedIntents
        /\ \A t \in DOMAIN includedIntents' : includedIntents'[t] = includedIntents[t]
    <3>1. CASE DeleteInclusions
        BY <3>1 DEF DeleteInclusions, trackerVars
    <3>2. CASE Restart
        BY <3>2 DEF Restart
    <3>3. CASE FinalizeTxs \/ DropExcluded
      <4>1. PICK K : includedIntents' = Without(includedIntents, K)
          BY <3>3 DEF FinalizeTxs, DropExcluded
      <4> QED
          BY <4>1 DEF Without
    <3> QED
        BY <1>4, <3>1, <3>2, <3>3
  <2> QED
      BY <1>0, <1>1, <2>1, <2>2 DEF InclusionsOK
<1> QED
    BY <1>2, <1>3, <1>4, OtherInclusions DEF Next, Sender, Subscriber, Faults

\* OtherJobs: only the sender, its failures and a restart change what the sender works
\* on.
LEMMA OtherJobs ==
    ASSUME Api \/ Subscriber \/ Dropping \/ Environment
             \/ FinalizeFails \/ DropFails \/ ConsistencyCheck \/ UNCHANGED vars
    PROVE  UNCHANGED job
<1>1. CASE Api \/ Dropping \/ DropFails
    BY <1>1 DEF Api, StoreDataIntent, CommitIntent, CheckCancel, SyncWithDb, Dropping, FindStale,
                MarkCancelled, RemovePending, DropFails
<1>2. CASE Subscriber \/ FinalizeFails
    BY <1>2 DEF Subscriber, AdvanceAnchor, FinalizeTxs, MarkIncluded, SetFinalizedBlockNumber,
                DropExcluded, DeleteInclusions, PersistAnchor, FinalizeFails
<1>3. CASE Environment \/ ConsistencyCheck \/ UNCHANGED vars
    BY <1>3 DEF Environment, Mine, MineEmpty, Reorg, Tick, ConsistencyCheck, vars
<1> QED
    BY <1>1, <1>2, <1>3

\* JobStep: what the sender works on remains a transaction that was sent, with its
\* intents.
LEMMA JobStep ==
    ASSUME FinalInv, [Next]_vars
    PROVE  JobOK'
<1>0. \A t \in Txs : t \in Txs' /\ sent'[t] = sent[t]
    BY ChainStep DEF Grows
<1>1. CASE UNCHANGED job
    BY <1>0, <1>1 DEF FinalInv, JobOK
<1>2. CASE Pack
  <2>1. PICK ids : job' = <<[step |-> "packed", ids |-> ids, price |-> price, tx |-> 0]>>
      BY <1>2 DEF Pack
  <2> QED
      BY <2>1 DEF JobOK
<1>3. CASE GiveUp \/ RegisterSent \/ RecordFails \/ Restart
    BY <1>3 DEF GiveUp, RegisterSent, RecordFails, Restart, JobOK
<1>4. CASE SendBlobTx \/ SendSelfTransfer
  <2>1. PICK n, ids, fee, step : Send(n, ids, fee, step)
      BY <1>4 DEF SendBlobTx, SendSelfTransfer
  <2>2. /\ job'[1] = [step |-> step, ids |-> ids, price |-> fee, tx |-> job'[1].tx]
        /\ job'[1].tx \in Txs' /\ sent'[job'[1].tx].ids = ids
      BY <2>1, SendGrows
  <2> QED
      BY <2>2 DEF JobOK
<1>5. CASE RecordInclusions
  <2>1. job # <<>> /\ job' = <<[job[1] EXCEPT !.step = "recorded"]>>
      BY <1>5 DEF RecordInclusions
  <2>2. job[1] = [step |-> job[1].step, ids |-> job[1].ids, price |-> job[1].price,
                  tx |-> job[1].tx]
      BY <2>1 DEF FinalInv, JobOK
  <2>3. job'[1] = [step |-> "recorded", ids |-> job[1].ids, price |-> job[1].price,
                   tx |-> job[1].tx]
      BY <2>1, <2>2
  <2>4. job[1].tx \in Txs /\ job[1].ids = sent[job[1].tx].ids
      BY <1>5 DEF RecordInclusions, FinalInv, JobOK
  <2> QED
      BY <1>0, <2>3, <2>4 DEF JobOK
<1> QED
    BY <1>1, <1>2, <1>3, <1>4, <1>5, OtherJobs DEF Next, Sender, Faults

\* OtherFins: only the subscriber, a failure of finalization and a restart change what
\* is being finalized.
LEMMA OtherFins ==
    ASSUME Api \/ Sender \/ Dropping \/ Environment \/ RecordFails \/ DropFails
             \/ ConsistencyCheck \/ UNCHANGED vars
    PROVE  UNCHANGED fin
<1>1. CASE Api \/ Dropping \/ DropFails
    BY <1>1 DEF Api, StoreDataIntent, CommitIntent, CheckCancel, SyncWithDb, Dropping, FindStale,
                MarkCancelled, RemovePending, DropFails
<1>2. CASE Sender \/ RecordFails
    BY <1>2 DEF Sender, Pack, GiveUp, SendBlobTx, SendSelfTransfer, RecordInclusions, RegisterSent,
                RecordFails
<1>3. CASE Environment \/ ConsistencyCheck \/ UNCHANGED vars
    BY <1>3 DEF Environment, Mine, MineEmpty, Reorg, Tick, ConsistencyCheck, vars
<1> QED
    BY <1>1, <1>2, <1>3

\* The intents that finalization takes from the tracker are those of the transactions
\* that the anchor has just got.
LEMMA FinStep ==
    ASSUME FinalInv, [Next]_vars
    PROVE  FinOK'
<1>0. /\ \A i : Published(i) => Published(i)'
      /\ \A t : Anchored(t) => Anchored(t)'
    BY PublishedStays
<1>f. fin # <<>> =>
        /\ fin[1] = [step |-> fin[1].step, ids |-> fin[1].ids, included |-> fin[1].included,
                     excluded |-> fin[1].excluded]
        /\ fin[1].step = "advanced" => \A t \in fin[1].included : Anchored(t)
        /\ fin[1].step # "advanced" => \A i \in fin[1].ids : Published(i)
    BY DEF FinalInv, FinOK
<1>1. CASE UNCHANGED fin
    BY <1>0, <1>1, <1>f DEF FinOK
<1>2. CASE \E k \in 1 .. MaxSent : AdvanceAnchor(k)
    BY <1>2, AdvanceGrows
<1>3. CASE PersistAnchor \/ FinalizeFails \/ Restart
    BY <1>3 DEF PersistAnchor, FinalizeFails, Restart, FinOK
<1>4. CASE FinalizeTxs
  <2> DEFINE known == fin[1].included \intersect DOMAIN includedIntents
             ids   == UNION {includedIntents[t] : t \in known}
  <2>1. /\ fin # <<>> /\ fin[1].step = "advanced"
        /\ fin' = <<[fin[1] EXCEPT !.step = "finalized", !.ids = ids]>>
      BY <1>4 DEF FinalizeTxs
  <2>2. \A i \in ids : Published(i)
    <3> TAKE i \in ids
    <3>1. PICK t \in known : i \in includedIntents[t]
        OBVIOUS
    <3>2. i \in sent[t].ids /\ Anchored(t)
        BY <2>1, <3>1, <1>f DEF FinalInv, InclusionsOK
    <3> QED
        BY <3>2 DEF Anchored, Published
  <2> HIDE DEF ids, known
  <2>3. fin'[1] = [step |-> "finalized", ids |-> ids, included |-> fin[1].included,
                   excluded |-> fin[1].excluded]
      BY <2>1, <1>f
  <2> QED
      BY <1>0, <2>2, <2>3 DEF FinOK
<1>5. CASE MarkIncluded \/ SetFinalizedBlockNumber \/ DropExcluded
  <2>1. PICK step \in {"numbering", "marked", "dropped"} :
          /\ fin # <<>> /\ fin[1].step # "advanced"
          /\ fin' = <<[fin[1] EXCEPT !.step = step]>>
      BY <1>5 DEF MarkIncluded, SetFinalizedBlockNumber, DropExcluded
  <2>2. fin'[1] = [step |-> step, ids |-> fin[1].ids, included |-> fin[1].included,
                   excluded |-> fin[1].excluded]
      BY <2>1, <1>f
  <2> QED
      BY <1>0, <1>f, <2>1, <2>2 DEF FinOK
<1>6. CASE DeleteInclusions
  <2>1. PICK t : /\ fin # <<>> /\ fin[1].step = "dropped"
                 /\ fin' = <<[fin[1] EXCEPT !.excluded = @ \ {t}]>>
      BY <1>6 DEF DeleteInclusions
  <2>2. fin'[1] = [step |-> fin[1].step, ids |-> fin[1].ids, included |-> fin[1].included,
                   excluded |-> fin[1].excluded \ {t}]
      BY <2>1, <1>f
  <2> QED
      BY <1>0, <1>f, <2>1, <2>2 DEF FinOK
<1> QED
    BY <1>1, <1>2, <1>3, <1>4, <1>5, <1>6, OtherFins DEF Next, Subscriber, Faults

\* FinalStep: every step keeps FinalInv.
LEMMA FinalStep == FinalInv /\ [Next]_vars => FinalInv'
<1> SUFFICES ASSUME FinalInv, [Next]_vars PROVE FinalInv'
    OBVIOUS
<1>1. RowsOK' /\ FinalizedIsFinal'
    BY RowsStep, PublishedStays DEF FinalizedIsFinal, Published
<1> QED
    BY <1>1, ChainStep, InclusionsStep, JobStep, FinStep DEF FinalInv

\* FinalInvHolds: FinalInv is an invariant.
THEOREM FinalInvHolds == Spec => []FinalInv
    BY FinalInit, FinalStep, PTL DEF Spec

\* FinalizedIsFinalHolds: whoever marks a row finalized, and whatever failed or was
\* restarted before, a transaction that has the intent is, or was, under an anchor.
THEOREM FinalizedIsFinalHolds == Spec => []FinalizedIsFinal
<1>1. FinalInv => FinalizedIsFinal
    BY DEF FinalInv
<1> QED
    BY <1>1, FinalInvHolds, PTL

-----------------------------------------------------------------------------
(* Cancelled intents stay out of the pool *)

\* What is in the pool has a row; a drop under way keeps to its intents.
CancelInv ==
    /\ faults \in Nat
    /\ pendingIntents \subseteq DOMAIN rows
    /\ drop # <<>> => drop[1] = [ids |-> drop[1].ids, marked |-> drop[1].marked]
    /\ CancelledStaysOut

\* The steps that neither fetch nor drop, and the UPDATEs of finalization: no row is
\* cancelled or lost, and nothing gets into the pool.
Neutral ==
    /\ DOMAIN rows \subseteq DOMAIN rows'
    /\ \A i \in DOMAIN rows : rows'[i].cancelled = rows[i].cancelled
    /\ pendingIntents' \subseteq pendingIntents
    /\ faults' \in {faults, faults + 1}
    /\ UNCHANGED drop

\* NeutralKeeps: a neutral step brings no cancelled intent back.
LEMMA NeutralKeeps == ASSUME CancelInv, Neutral PROVE CancelInv'
    BY DEF CancelInv, Neutral, CancelledStaysOut

\* NeutralSteps: posting, the sender, the subscriber, the chain, their failures and the
\* consistency checks are neutral.
LEMMA NeutralSteps ==
    ASSUME FinalInv,
           (\E i \in Intents : StoreDataIntent(i) \/ CommitIntent(i)) \/ Sender \/ Subscriber
             \/ Environment \/ RecordFails \/ FinalizeFails \/ ConsistencyCheck \/ UNCHANGED vars
    PROVE  Neutral
<1> USE DEF FinalInv
<1>1. CASE \E i \in Intents : StoreDataIntent(i)
    BY <1>1, StoreKeeps DEF StoreDataIntent, trackerVars, Neutral
<1>2. CASE \E i \in Intents : CommitIntent(i)
  <2>1. PICK j \in DOMAIN rows : rows' = [rows EXCEPT ![j].committed = TRUE]
      BY <1>2 DEF CommitIntent
  <2>2. rows[j] \in Row /\ rows'[j] = [rows[j] EXCEPT !.committed = TRUE]
      BY <2>1 DEF RowsOK
  <2>3. rows'[j].cancelled = rows[j].cancelled
      BY <2>2 DEF Row
  <2>4. DOMAIN rows' = DOMAIN rows /\ \A i \in DOMAIN rows : i # j => rows'[i] = rows[i]
      BY <2>1 DEF RowsOK
  <2>5. UNCHANGED <<pendingIntents, faults, drop>>
      BY <1>2 DEF CommitIntent, trackerVars
  <2> QED
      BY <2>3, <2>4, <2>5 DEF Neutral
<1>3. CASE Sender
    BY <1>3 DEF Sender, Pack, GiveUp, SendBlobTx, SendSelfTransfer, RecordInclusions, RegisterSent,
                dbVars, trackerVars, Neutral
<1>4. CASE MarkIncluded \/ SetFinalizedBlockNumber \/ PersistAnchor \/ ConsistencyCheck
  <2>1. UNCHANGED <<clock, pendingIntents, faults, drop>>
      BY <1>4 DEF MarkIncluded, SetFinalizedBlockNumber, PersistAnchor, ConsistencyCheck,
                  trackerVars
  <2>2. PICK ids :
          \/ rows' = [i \in DOMAIN rows |->
                        IF i \in ids THEN [rows[i] EXCEPT !.finalized = TRUE, !.at = clock]
                        ELSE rows[i]]
          \/ rows' = [i \in DOMAIN rows |->
                        IF i \in ids THEN [rows[i] EXCEPT !.numbered = TRUE, !.at = clock]
                        ELSE rows[i]]
          \/ rows' = [i \in DOMAIN rows |->
                        IF i \in ids THEN [rows[i] EXCEPT !.data = FALSE, !.at = clock]
                        ELSE rows[i]]
      BY <1>4 DEF MarkIncluded, SetFinalizedBlockNumber, PersistAnchor, ConsistencyCheck,
                  MarkFinalized
  <2>3. DOMAIN rows' = DOMAIN rows /\ \A i \in DOMAIN rows : rows'[i].cancelled = rows[i].cancelled
      BY <2>1, <2>2, UpdateKeeps
  <2> QED
      BY <2>1, <2>3 DEF Neutral
<1>5. CASE (\E k \in 1 .. MaxSent : AdvanceAnchor(k)) \/ FinalizeTxs \/ DropExcluded
             \/ DeleteInclusions \/ FinalizeFails
    BY <1>5 DEF AdvanceAnchor, FinalizeTxs, DropExcluded, DeleteInclusions, FinalizeFails, Fail,
                dbVars, trackerVars, Neutral
<1>6. CASE Environment \/ RecordFails \/ UNCHANGED vars
    BY <1>6 DEF Environment, Mine, MineEmpty, Reorg, Tick, RecordFails, Fail, vars, dbVars,
                trackerVars, Neutral
<1> QED
    BY <1>1, <1>2, <1>3, <1>4, <1>5, <1>6 DEF Subscriber

\* CancelInit: before the first step no intent is stored.
LEMMA CancelInit == Init => CancelInv
    BY DEF Init, CancelInv, CancelledStaysOut

\* CancelStep: every step keeps cancelled intents out of the pool: a fetch reads live
\* rows only, a packing returns what it took from the pool before.
LEMMA CancelStep == CancelInv /\ FinalInv /\ [Next]_vars => CancelInv'
<1> SUFFICES ASSUME CancelInv, FinalInv, [Next]_vars PROVE CancelInv'
    OBVIOUS
<1>1. CASE SyncWithDb
  <2>1. /\ pendingIntents' = pendingIntents \union Fetched(lastSync)
        /\ UNCHANGED <<rows, drop, faults>>
      BY <1>1 DEF SyncWithDb, dbVars
  <2>2. \A i \in Fetched(lastSync) : i \in DOMAIN rows /\ ~rows[i].cancelled
      BY DEF Fetched, Live, Committed
  <2> QED
      BY <2>1, <2>2 DEF CancelInv, CancelledStaysOut
<1>2. CASE (\E i \in Intents : CheckCancel(i)) \/ (\E ids \in SUBSET Intents : FindStale(ids))
  <2>1. PICK ids : drop = <<>> /\ drop' = <<[ids |-> ids, marked |-> {}]>>
      BY <1>2 DEF CheckCancel, FindStale
  <2>2. UNCHANGED <<rows, pendingIntents, faults>>
      BY <1>2 DEF CheckCancel, FindStale, dbVars, trackerVars
  <2>3. drop'[1] = [ids |-> ids, marked |-> {}]
      BY <2>1
  <2> QED
      BY <2>1, <2>2, <2>3 DEF CancelInv, CancelledStaysOut
<1>3. CASE MarkCancelled
  <2>1. PICK j \in drop[1].ids :
          /\ drop # <<>>
          /\ rows' = [rows EXCEPT ![j].cancelled = TRUE, ![j].at = clock]
          /\ drop' = <<[drop[1] EXCEPT !.marked = @ \union {j}]>>
      BY <1>3 DEF MarkCancelled
  <2>2. UNCHANGED <<clock, pendingIntents, faults>>
      BY <1>3 DEF MarkCancelled, trackerVars
  <2>3. DOMAIN rows' = DOMAIN rows /\ \A i \in DOMAIN rows : i # j => rows'[i] = rows[i]
      BY <2>1, <2>2, FlagKeeps DEF FinalInv
  <2>4. drop[1] = [ids |-> drop[1].ids, marked |-> drop[1].marked]
      BY <2>1 DEF CancelInv
  <2>5. drop'[1] = [ids |-> drop[1].ids, marked |-> drop[1].marked \union {j}]
      BY <2>1, <2>4
  <2>6. drop' # <<>>
      BY <2>1
  <2> QED
      BY <2>1, <2>2, <2>3, <2>5, <2>6 DEF CancelInv, CancelledStaysOut
<1>4. CASE RemovePending
  <2>1. /\ pendingIntents' = pendingIntents \ drop[1].ids /\ drop' = <<>>
        /\ UNCHANGED <<rows, faults>>
      BY <1>4 DEF RemovePending, dbVars
  <2> QED
      BY <2>1 DEF CancelInv, CancelledStaysOut
<1>5. CASE DropFails \/ Restart
  <2>1. faults' = faults + 1 /\ drop' = <<>>
      BY <1>5 DEF DropFails, Restart, Fail
  <2>2. pendingIntents' \subseteq DOMAIN rows'
    <3>1. CASE DropFails
        BY <3>1 DEF DropFails, dbVars, trackerVars, CancelInv
    <3>2. CASE Restart
        BY <3>2 DEF Restart, Live
    <3> QED
        BY <1>5, <3>1, <3>2
  <2> QED
      BY <2>1, <2>2 DEF CancelInv, CancelledStaysOut
<1> QED
    BY <1>1, <1>2, <1>3, <1>4, <1>5, NeutralSteps, NeutralKeeps DEF Next, Api, Dropping, Faults

\* CancelInvHolds: CancelInv is an invariant.
THEOREM CancelInvHolds == Spec => []CancelInv
    BY CancelInit, CancelStep, FinalInvHolds, PTL DEF Spec

\* CancelledStaysOutHolds: for any intents, however fetches, cancellations and evictions
\* overlap, no intent that was dropped is in the pool again, while no call fails.
THEOREM CancelledStaysOutHolds == Spec => []CancelledStaysOut
<1>1. CancelInv => CancelledStaysOut
    BY DEF CancelInv
<1> QED
    BY <1>1, CancelInvHolds, PTL

-----------------------------------------------------------------------------
(* The tracker's indexes *)

\* RetainKeeps: of the elements of s those in S remain, each as often as before.
LEMMA RetainKeeps ==
    ASSUME NEW X, NEW s \in Seq(X), NEW S
    PROVE  /\ Retain(s, S) \in Seq(X)
           /\ Range(Retain(s, S)) = Range(s) \intersect S
           /\ IsInjective(s) => IsInjective(Retain(s, S))
<1> DEFINE Piece(k) == IF s[k] \in S THEN <<s[k]>> ELSE <<>>
           Pieces(n) == [k \in 1 .. n |-> Piece(k)]
           Upto(n) == FlattenSeq(Pieces(n))
           Good(n) == /\ Upto(n) \in Seq(X)
                      /\ Range(Upto(n)) = {s[k] : k \in 1 .. n} \intersect S
                      /\ IsInjective(s) => IsInjective(Upto(n))
           P == {n \in Nat : n <= Len(s) => Good(n)}
<1>1. Len(s) \in Nat /\ DOMAIN s = 1 .. Len(s) /\ \A k \in 1 .. Len(s) : s[k] \in X
    OBVIOUS
<1>2. \A k \in 1 .. Len(s) : Piece(k) \in Seq(X)
  <2> TAKE k \in 1 .. Len(s)
  <2>1. s[k] \in X
      BY <1>1
  <2>2. <<s[k]>> \in Seq(X) /\ <<>> \in Seq(X)
      BY <2>1
  <2> QED
      BY <2>2
<1>3. \A n \in Nat : n <= Len(s) => Pieces(n) \in Seq(Seq(X))
  <2> TAKE n \in Nat
  <2> HAVE n <= Len(s)
  <2> HIDE DEF Piece
  <2> DEFINE T == Seq(X)
  <2>1. \A k \in 1 .. n : Piece(k) \in T
      BY <1>1, <1>2
  <2> HIDE DEF T
  <2>2. Pieces(n) \in Seq(T)
      BY <2>1
  <2> QED
      BY <2>2 DEF T
<1>4. 0 \in P
  <2>1. Pieces(0) = <<>>
      OBVIOUS
  <2>2. Upto(0) = <<>>
    <3>1. Pieces(0) \in Seq(Seq(X))
        BY <1>1, <1>3
    <3> HIDE DEF Pieces
    <3> QED
        BY <2>1, <3>1, FlattenIs
  <2>3. <<>> \in Seq(X) /\ Range(<<>>) = {} /\ IsInjective(<<>>)
      BY DEF Range, IsInjective
  <2>4. {s[k] : k \in 1 .. 0} = {}
      OBVIOUS
  <2> HIDE DEF Upto
  <2>5. Good(0)
      BY <2>2, <2>3, <2>4
  <2> HIDE DEF Good
  <2> QED
      BY <2>5
<1>5. ASSUME NEW n \in Nat, n \in P PROVE n + 1 \in P
  <2> DEFINE m == n + 1
  <2> SUFFICES ASSUME m <= Len(s) PROVE Good(m)
    <3> HIDE DEF Good
    <3> QED
        OBVIOUS
  <2>1. Good(n)
    <3>1. n <= Len(s)
        BY <1>1
    <3> HIDE DEF Good
    <3> QED
        BY <1>5, <3>1
  <2>2. m \in 1 .. Len(s) /\ m \in Nat /\ n <= Len(s) /\ 1 .. m = (1 .. n) \union {m} /\ m \notin 1 .. n
      BY <1>1
  <2>3. Pieces(m) = Append(Pieces(n), Piece(m))
    <3> DEFINE T == Seq(X)
    <3>1. \A k \in 1 .. m : Piece(k) \in T
        BY <1>1, <1>2, <2>2
    <3> HIDE DEF T, Piece
    <3>2. Pieces(n) \in Seq(T) /\ Pieces(m) \in Seq(T)
        BY <3>1
    <3>3. Append(Pieces(n), Piece(m)) = [k \in 1 .. m |-> IF k = m THEN Piece(m) ELSE Pieces(n)[k]]
        BY <3>1, <3>2
    <3> QED
        BY <3>3
  <2>4. Upto(m) = Upto(n) \o Piece(m)
    <3>1. Pieces(n) \in Seq(Seq(X)) /\ Piece(m) \in Seq(X)
        BY <1>2, <1>3, <2>2
    <3> HIDE DEF Pieces, Piece
    <3>2. FlattenSeq(Append(Pieces(n), Piece(m))) = FlattenSeq(Pieces(n)) \o Piece(m)
        BY ONLY <3>1, FlattenAppend
    <3> QED
        BY <2>3, <3>2
  <2>5. {s[k] : k \in 1 .. m} = {s[k] : k \in 1 .. n} \union {s[m]}
      BY <2>2, Zenon
  <2>6. CASE s[m] \in S
    <3>1. Piece(m) = <<s[m]>> /\ s[m] \in X
        BY <1>1, <2>2, <2>6
    <3> DEFINE r == Upto(n)
               x == s[m]
    <3>2. r \in Seq(X) /\ Range(r) = {s[k] : k \in 1 .. n} \intersect S
          /\ (IsInjective(s) => IsInjective(r))
        BY <2>1
    <3>3. Upto(m) = r \o <<x>>
        BY <2>4, <3>1
    <3>4. IsInjective(s) => x \notin Range(r)
      <4>1. ASSUME IsInjective(s), NEW k \in 1 .. n, s[k] = s[m] PROVE FALSE
        <5>1. k \in DOMAIN s /\ m \in DOMAIN s /\ k # m
            BY <1>1, <2>2
        <5> QED
            BY <4>1, <5>1 DEF IsInjective
      <4> QED
          BY <3>2, <4>1
    <3> HIDE DEF r, m, Upto
    <3>5. x \in X
        BY <3>1
    <3> HIDE DEF x
    <3>6. r \o <<x>> = Append(r, x)
        BY <3>2, <3>5
    <3>7. /\ Append(r, x) \in Seq(X)
          /\ Range(Append(r, x)) = Range(r) \union {x}
          /\ IsInjective(r) /\ x \notin Range(r) => IsInjective(Append(r, x))
        BY ONLY <3>2, <3>5, Pushed
    <3>8. x = s[m]
        BY DEF x
    <3> QED
        BY <2>5, <2>6, <3>2, <3>3, <3>4, <3>6, <3>7, <3>8
  <2>7. CASE s[m] \notin S
    <3>1. Piece(m) = <<>>
        BY <2>7
    <3>2. Upto(n) \o <<>> = Upto(n)
      <4> HIDE DEF Upto
      <4> QED
          BY <2>1
    <3>3. Upto(m) = Upto(n)
        BY <2>4, <3>1, <3>2
    <3> HIDE DEF Upto, m
    <3> QED
        BY <2>1, <2>5, <2>7, <3>3
  <2> QED
      BY <2>6, <2>7
<1>6. Len(s) \in P
  <2> HIDE DEF P
  <2>1. \A n \in Nat : n \in P
      BY <1>4, <1>5, NumberInduction
  <2> QED
      BY <1>1, <2>1
<1>7. Good(Len(s))
  <2> HIDE DEF Good
  <2> QED
      BY <1>1, <1>6
<1>8. Upto(Len(s)) = Retain(s, S)
    BY <1>1, Zenon DEF Retain
<1>9. {s[k] : k \in 1 .. Len(s)} = Range(s)
    BY <1>1, Zenon DEF Range
<1> HIDE DEF Upto
<1> QED
    BY <1>7, <1>8, <1>9

\* What the tracker takes for a use of an intent
IndexesOK ==
    \A i \in DOMAIN cacheInclusions :
      /\ Uses(i) \in Seq(Nat) /\ IsInjective(Uses(i))
      /\ \A t \in Range(Uses(i)) :
           t \in DOMAIN includedIntents /\ i \in includedIntents[t] /\ <<i, t>> \in inclusions

\* What is pending, replaced or held was sent.
KnownTxs ==
    /\ \A n \in DOMAIN pendingTxs : pendingTxs[n] \in Txs
    /\ repriced \subseteq Txs
    /\ \A n \in DOMAIN onChain : onChain[n].held \subseteq Txs
    /\ fin # <<>> => fin[1].excluded \subseteq Txs

\* A transaction that is not recorded yet is not in the index, and will not be excluded
\* before it is registered.
SentIsNew ==
    job # <<>> /\ job[1].step = "sent" =>
      /\ job[1].tx \notin repriced \union DOMAIN includedIntents
      /\ fin # <<>> => job[1].tx \notin fin[1].excluded

\* The rows that are deleted are of transactions that the index has no more.
DroppedOK ==
    fin # <<>> /\ fin[1].step = "dropped" =>
      fin[1].excluded \intersect DOMAIN includedIntents = {}

IndexInv == IndexesOK /\ KnownTxs /\ SentIsNew /\ DroppedOK

\* UsesOf: what IndexesOK says of any intent, used or not.
LEMMA UsesOf ==
    ASSUME IndexesOK, NEW i
    PROVE  /\ Uses(i) \in Seq(Nat) /\ IsInjective(Uses(i))
           /\ \A t \in Range(Uses(i)) :
                t \in DOMAIN includedIntents /\ i \in includedIntents[t] /\ <<i, t>> \in inclusions
<1>1. <<>> \in Seq(Nat) /\ IsInjective(<<>>) /\ Range(<<>>) = {}
    BY DEF IsInjective, Range
<1> QED
    BY <1>1 DEF IndexesOK, Uses

\* SentNumbers: transactions are numbered in the order they are sent.
LEMMA SentNumbers == ASSUME FinalInv PROVE Len(sent) \in Nat /\ Txs = 1 .. Len(sent)
    BY AppendSeq DEF FinalInv, SentOK, Txs

\* RecordIndexes: recording a transaction adds it to the uses of its intents, once, to the
\* index and to the table.
LEMMA RecordIndexes ==
    ASSUME FinalInv, IndexInv, RecordInclusions
    PROVE  IndexesOK'
<1> DEFINE t == job[1].tx
           ids == job[1].ids
<1>1. /\ job # <<>> /\ job[1].step = "sent"
      /\ inclusions' = inclusions \union (ids \X {t})
      /\ cacheInclusions' = [k \in DOMAIN cacheInclusions \union ids |->
                               IF k \in ids THEN Append(Uses(k), t) ELSE cacheInclusions[k]]
      /\ includedIntents' = [u \in DOMAIN includedIntents \union {t} |->
                               IF u \in {t} THEN ids ELSE includedIntents[u]]
    BY DEF RecordInclusions, With
<1>2. t \notin DOMAIN includedIntents /\ t \in Txs
    BY <1>1 DEF IndexInv, SentIsNew, FinalInv, JobOK
<1>3. t \in Nat
    BY <1>2, SentNumbers
<1> HIDE DEF t, ids
<1> SUFFICES ASSUME NEW i \in DOMAIN cacheInclusions'
             PROVE  /\ Uses(i)' \in Seq(Nat) /\ IsInjective(Uses(i)')
                    /\ \A u \in Range(Uses(i)') :
                         /\ u \in DOMAIN includedIntents' /\ i \in includedIntents'[u]
                         /\ <<i, u>> \in inclusions'
    BY Zenon DEF IndexesOK, IsInjective, Range
<1>4. Uses(i)' = cacheInclusions'[i]
    BY DEF Uses
<1>5. /\ Uses(i) \in Seq(Nat) /\ IsInjective(Uses(i))
      /\ \A u \in Range(Uses(i)) :
           u \in DOMAIN includedIntents /\ i \in includedIntents[u] /\ <<i, u>> \in inclusions
    BY UsesOf DEF IndexInv
<1>6. \A u \in DOMAIN includedIntents :
        u \in DOMAIN includedIntents' /\ includedIntents'[u] = includedIntents[u]
    BY <1>1, <1>2
<1>7. CASE i \in ids
  <2>1. Uses(i)' = Append(Uses(i), t)
      BY <1>1, <1>4, <1>7
  <2>2. t \notin Range(Uses(i))
      BY <1>2, <1>5
  <2>3. /\ Append(Uses(i), t) \in Seq(Nat)
        /\ Range(Append(Uses(i), t)) = Range(Uses(i)) \union {t}
        /\ IsInjective(Append(Uses(i), t))
      BY <1>3, <1>5, <2>2, Pushed
  <2>4. t \in DOMAIN includedIntents' /\ includedIntents'[t] = ids
      BY <1>1
  <2>5. <<i, t>> \in inclusions'
      BY <1>1, <1>7
  <2> QED
      BY <1>1, <1>5, <1>6, <1>7, <2>1, <2>3, <2>4, <2>5
<1>8. CASE i \notin ids
  <2>1. Uses(i)' = Uses(i)
      BY <1>1, <1>4, <1>8 DEF Uses
  <2> QED
      BY <1>1, <1>5, <1>6, <2>1
<1> QED
    BY <1>7, <1>8

\* FinalizeIndexes: what is finalized leaves the index with every intent it has.
LEMMA FinalizeIndexes ==
    ASSUME IndexInv, FinalizeTxs
    PROVE  IndexesOK'
<1> DEFINE known == fin[1].included \intersect DOMAIN includedIntents
           ids == UNION {includedIntents[t] : t \in known}
<1>1. /\ cacheInclusions' = [k \in DOMAIN cacheInclusions \ ids |-> cacheInclusions[k]]
      /\ includedIntents' = [u \in DOMAIN includedIntents \ known |-> includedIntents[u]]
      /\ UNCHANGED inclusions
    BY DEF FinalizeTxs, Without, dbVars
<1> SUFFICES ASSUME NEW i \in DOMAIN cacheInclusions'
             PROVE  /\ Uses(i)' \in Seq(Nat) /\ IsInjective(Uses(i)')
                    /\ \A u \in Range(Uses(i)') :
                         /\ u \in DOMAIN includedIntents' /\ i \in includedIntents'[u]
                         /\ <<i, u>> \in inclusions'
    BY Zenon DEF IndexesOK, IsInjective, Range
<1>2. i \notin ids
    BY <1>1
<1>3. \A t \in known : i \notin includedIntents[t]
    BY <1>2
<1> HIDE DEF ids, known
<1>4. Uses(i)' = Uses(i)
    BY <1>1 DEF Uses
<1>5. /\ Uses(i) \in Seq(Nat) /\ IsInjective(Uses(i))
      /\ \A u \in Range(Uses(i)) :
           u \in DOMAIN includedIntents /\ i \in includedIntents[u] /\ <<i, u>> \in inclusions
    BY UsesOf DEF IndexInv
<1>6. \A u \in Range(Uses(i)) : u \in DOMAIN includedIntents' /\ includedIntents'[u] = includedIntents[u]
    BY <1>1, <1>3, <1>5
<1> QED
    BY <1>1, <1>4, <1>5, <1>6

\* ExcludeIndexes: what is excluded leaves the index and every intent's uses.
LEMMA ExcludeIndexes ==
    ASSUME FinalInv, IndexInv, DropExcluded
    PROVE  IndexesOK'
<1> DEFINE known == fin[1].excluded \intersect DOMAIN includedIntents
           mine(i) == {t \in known : i \in includedIntents[t]}
           kept(i) == Retain(Uses(i), Txs \ mine(i))
<1>1. /\ cacheInclusions' = [i \in {j \in DOMAIN cacheInclusions : kept(j) # <<>>} |-> kept(i)]
      /\ includedIntents' = [u \in DOMAIN includedIntents \ known |-> includedIntents[u]]
      /\ UNCHANGED inclusions
    BY DEF DropExcluded, Without, dbVars
<1> SUFFICES ASSUME NEW i \in DOMAIN cacheInclusions'
             PROVE  /\ Uses(i)' \in Seq(Nat) /\ IsInjective(Uses(i)')
                    /\ \A u \in Range(Uses(i)') :
                         /\ u \in DOMAIN includedIntents' /\ i \in includedIntents'[u]
                         /\ <<i, u>> \in inclusions'
    BY Zenon DEF IndexesOK, IsInjective, Range
<1>2. Uses(i)' = kept(i)
    BY <1>1 DEF Uses
<1>3. /\ Uses(i) \in Seq(Nat) /\ IsInjective(Uses(i))
      /\ \A u \in Range(Uses(i)) :
           u \in DOMAIN includedIntents /\ i \in includedIntents[u] /\ <<i, u>> \in inclusions
    BY UsesOf DEF IndexInv
<1>4. /\ kept(i) \in Seq(Nat) /\ IsInjective(kept(i))
      /\ Range(kept(i)) = Range(Uses(i)) \intersect (Txs \ mine(i))
    BY <1>3, RetainKeeps
<1>5. \A u \in Range(kept(i)) : u \in Range(Uses(i)) /\ u \notin mine(i)
    BY <1>4
<1> HIDE DEF kept
<1>6. \A u \in Range(kept(i)) : u \in DOMAIN includedIntents' /\ includedIntents'[u] = includedIntents[u]
    BY <1>1, <1>3, <1>5
<1> QED
    BY <1>1, <1>2, <1>3, <1>4, <1>5, <1>6

\* OtherIndexes: nothing else takes an entry out of the index or the table that an intent
\* counts among its uses.
LEMMA OtherIndexes ==
    ASSUME IndexInv, UNCHANGED <<cacheInclusions, includedIntents>>,
           inclusions \subseteq inclusions' \/ DeleteInclusions
    PROVE  IndexesOK'
<1>1. \A i : UNCHANGED Uses(i)
    BY DEF Uses
<1>2. \A t \in DOMAIN includedIntents : \A i : <<i, t>> \in inclusions => <<i, t>> \in inclusions'
  <2>1. CASE DeleteInclusions
    <3>1. PICK t \in fin[1].excluded : inclusions' = {r \in inclusions : r[2] # t}
        BY <2>1 DEF DeleteInclusions
    <3>2. t \notin DOMAIN includedIntents
        BY <2>1, <3>1 DEF DeleteInclusions, IndexInv, DroppedOK
    <3> QED
        BY <3>1, <3>2
  <2> QED
      BY <2>1
<1> SUFFICES ASSUME NEW i \in DOMAIN cacheInclusions'
             PROVE  /\ Uses(i)' \in Seq(Nat) /\ IsInjective(Uses(i)')
                    /\ \A u \in Range(Uses(i)') :
                         /\ u \in DOMAIN includedIntents' /\ i \in includedIntents'[u]
                         /\ <<i, u>> \in inclusions'
    BY Zenon DEF IndexesOK, IsInjective, Range
<1>3. /\ Uses(i) \in Seq(Nat) /\ IsInjective(Uses(i))
      /\ \A u \in Range(Uses(i)) :
           u \in DOMAIN includedIntents /\ i \in includedIntents[u] /\ <<i, u>> \in inclusions
    BY UsesOf DEF IndexInv
<1> QED
    BY <1>1, <1>2, <1>3

\* SendIsNew: what is sent has a number that nothing known has.
LEMMA SendIsNew ==
    ASSUME FinalInv, NEW n, NEW ids, NEW fee, NEW step, Send(n, ids, fee, step)
    PROVE  Txs \subseteq Txs' /\ job' # <<>> /\ job'[1].tx \notin Txs
<1>1. /\ Len(sent) \in Nat /\ DOMAIN sent = 1 .. Len(sent) /\ DOMAIN sent' = 1 .. Len(sent) + 1
    BY AppendSeq DEF Send, FinalInv, SentOK
<1>2. job' = <<[step |-> step, ids |-> ids, price |-> fee, tx |-> Len(sent) + 1]>>
    BY DEF Send
<1> QED
    BY <1>1, <1>2 DEF Txs

\* OtherTxs: the steps that leave alone what KnownTxs speaks of
LEMMA OtherTxs ==
    ASSUME Api \/ Pack \/ GiveUp \/ RecordInclusions \/ RecordFails \/ Dropping \/ DropFails
             \/ FinalizeTxs \/ MarkIncluded \/ SetFinalizedBlockNumber \/ DropExcluded
             \/ DeleteInclusions \/ PersistAnchor \/ FinalizeFails
             \/ (\E p \in Prices : MineEmpty(p)) \/ Tick \/ ConsistencyCheck \/ UNCHANGED vars
    PROVE  UNCHANGED <<pendingTxs, repriced, onChain, sent>>
<1>1. CASE Api \/ Dropping \/ DropFails \/ ConsistencyCheck
    BY <1>1 DEF Api, StoreDataIntent, CommitIntent, CheckCancel, SyncWithDb, Dropping, FindStale,
                MarkCancelled, RemovePending, DropFails, ConsistencyCheck, syncVars, chainVars
<1>2. CASE Pack \/ GiveUp \/ RecordInclusions \/ RecordFails
    BY <1>2 DEF Pack, GiveUp, RecordInclusions, RecordFails, syncVars, chainVars
<1>3. CASE FinalizeTxs \/ MarkIncluded \/ SetFinalizedBlockNumber \/ DropExcluded
             \/ DeleteInclusions \/ PersistAnchor \/ FinalizeFails
    BY <1>3 DEF FinalizeTxs, MarkIncluded, SetFinalizedBlockNumber, DropExcluded,
                DeleteInclusions, PersistAnchor, FinalizeFails, syncVars, chainVars
<1>4. CASE (\E p \in Prices : MineEmpty(p)) \/ Tick \/ UNCHANGED vars
    BY <1>4 DEF MineEmpty, Tick, vars, syncVars, chainVars
<1> QED
    BY <1>1, <1>2, <1>3, <1>4

\* FinTxs: what is going to be excluded gets fewer, once the anchor has advanced, and the
\* index has none of it after drop_excluded_tx.
LEMMA FinTxs ==
    ASSUME FinalInv, IndexInv, 
           FinalizeTxs \/ MarkIncluded \/ SetFinalizedBlockNumber \/ DropExcluded
             \/ DeleteInclusions \/ PersistAnchor \/ FinalizeFails
    PROVE  /\ fin' # <<>> => fin # <<>> /\ fin'[1].excluded \subseteq fin[1].excluded
           /\ DroppedOK'
<1>f. fin # <<>> /\ fin[1] = [step |-> fin[1].step, ids |-> fin[1].ids,
                              included |-> fin[1].included, excluded |-> fin[1].excluded]
    BY DEF FinalInv, FinOK, FinalizeTxs, MarkIncluded, SetFinalizedBlockNumber, DropExcluded,
           DeleteInclusions, PersistAnchor, FinalizeFails
<1>1. CASE FinalizeTxs \/ MarkIncluded \/ SetFinalizedBlockNumber
  <2>1. /\ fin' # <<>> => fin'[1].step # "dropped"
        /\ fin' # <<>> => fin'[1].excluded = fin[1].excluded
    <3>1. CASE FinalizeTxs
      <4> DEFINE ids == UNION {includedIntents[t] : t \in fin[1].included \intersect DOMAIN includedIntents}
      <4>1. fin' = <<[fin[1] EXCEPT !.step = "finalized", !.ids = ids]>>
          BY <3>1 DEF FinalizeTxs
      <4> HIDE DEF ids
      <4>2. fin'[1] = [step |-> "finalized", ids |-> ids, included |-> fin[1].included,
                       excluded |-> fin[1].excluded]
          BY <1>f, <4>1
      <4> QED
          BY <4>2
    <3>2. CASE MarkIncluded \/ SetFinalizedBlockNumber
      <4>1. PICK step \in {"numbering", "marked"} : fin' = <<[fin[1] EXCEPT !.step = step]>>
          BY <3>2 DEF MarkIncluded, SetFinalizedBlockNumber
      <4>2. fin'[1] = [step |-> step, ids |-> fin[1].ids, included |-> fin[1].included,
                       excluded |-> fin[1].excluded]
          BY <1>f, <4>1
      <4> QED
          BY <4>2
    <3> QED
        BY <1>1, <3>1, <3>2
  <2> QED
      BY <1>f, <2>1 DEF DroppedOK
<1>2. CASE DropExcluded
  <2>1. fin' = <<[fin[1] EXCEPT !.step = "dropped"]>>
      BY <1>2 DEF DropExcluded
  <2>2. fin'[1] = [step |-> "dropped", ids |-> fin[1].ids, included |-> fin[1].included,
                   excluded |-> fin[1].excluded]
      BY <1>f, <2>1
  <2>3. DOMAIN includedIntents' = DOMAIN includedIntents \ (fin[1].excluded \intersect DOMAIN includedIntents)
      BY <1>2 DEF DropExcluded, Without
  <2> QED
      BY <1>f, <2>2, <2>3 DEF DroppedOK
<1>3. CASE DeleteInclusions
  <2>1. PICK t : /\ fin[1].step = "dropped"
                 /\ fin' = <<[fin[1] EXCEPT !.excluded = @ \ {t}]>>
      BY <1>3 DEF DeleteInclusions
  <2>2. fin'[1] = [step |-> fin[1].step, ids |-> fin[1].ids, included |-> fin[1].included,
                   excluded |-> fin[1].excluded \ {t}]
      BY <1>f, <2>1
  <2>3. UNCHANGED includedIntents
      BY <1>3 DEF DeleteInclusions, trackerVars
  <2> QED
      BY <1>f, <2>1, <2>2, <2>3 DEF IndexInv, DroppedOK
<1>4. CASE PersistAnchor \/ FinalizeFails
    BY <1>4 DEF PersistAnchor, FinalizeFails, DroppedOK
<1> QED
    BY <1>1, <1>2, <1>3, <1>4

\* IndexInit: before the first step both indexes are empty.
LEMMA IndexInit == Init => IndexInv
    BY DEF Init, IndexInv, IndexesOK, KnownTxs, SentIsNew, DroppedOK

\* KnownStep: no step makes up a transaction.
LEMMA KnownStep ==
    ASSUME FinalInv, IndexInv, [Next]_vars
    PROVE  KnownTxs'
<1> USE DEF IndexInv, KnownTxs
<1>0. Txs \subseteq Txs'
    BY ChainStep DEF Grows
<1>1. CASE UNCHANGED <<pendingTxs, repriced, onChain, fin>>
    BY <1>0, <1>1
<1>2. CASE FinalizeTxs \/ MarkIncluded \/ SetFinalizedBlockNumber \/ DropExcluded
             \/ DeleteInclusions \/ PersistAnchor \/ FinalizeFails
  <2>1. UNCHANGED <<pendingTxs, repriced, onChain>>
      BY <1>2, OtherTxs
  <2>2. fin' # <<>> => fin # <<>> /\ fin'[1].excluded \subseteq fin[1].excluded
      BY <1>2, FinTxs
  <2> QED
      BY <1>0, <2>1, <2>2
<1>3. CASE RegisterSent
  <2> DEFINE t == job[1].tx
             n == sent[t].nonce
  <2>1. /\ repriced' = repriced \union {pendingTxs[m] : m \in DOMAIN pendingTxs \intersect {n}}
        /\ pendingTxs' = [m \in DOMAIN pendingTxs \union {n} |-> IF m \in {n} THEN t ELSE pendingTxs[m]]
        /\ UNCHANGED <<onChain, fin, sent>>
      BY <1>3 DEF RegisterSent, With, chainVars
  <2>2. t \in Txs
      BY <1>3 DEF RegisterSent, FinalInv, JobOK
  <2> HIDE DEF t, n
  <2> QED
      BY <1>0, <2>1, <2>2
<1>4. ASSUME NEW t \in Txs, NEW p, Mine(t, p) PROVE KnownTxs'
  <2> DEFINE held == IF Transfer(t)
                     THEN {pendingTxs[n] : n \in DOMAIN pendingTxs \intersect {sent[t].nonce}} ELSE {}
  <2>1. onChain' = Append(onChain, [tx |-> t, held |-> held])
      BY <1>4 DEF Mine
  <2>2. pendingTxs' = Without(pendingTxs, {sent[t].nonce}) /\ UNCHANGED <<repriced, fin>>
      BY <1>4 DEF Mine
  <2>3. held \subseteq Txs
      OBVIOUS
  <2> HIDE DEF held
  <2>4. \A n \in DOMAIN onChain' : n \in DOMAIN onChain \/ onChain'[n] = [tx |-> t, held |-> held]
      BY <2>1, AppendSeq DEF FinalInv, ChainOK
  <2>5. \A n \in DOMAIN onChain : onChain'[n] = onChain[n]
      BY <2>1, AppendSeq DEF FinalInv, ChainOK
  <2> QED
      BY <1>0, <2>2, <2>3, <2>4, <2>5 DEF Without
<1>5. ASSUME NEW k, Reorg(k) PROVE KnownTxs'
  <2> DEFINE back == UNION {IF Transfer(onChain[n].tx) THEN onChain[n].held ELSE {onChain[n].tx} :
                            n \in k + 1 .. Len(onChain)}
             used == {sent[t].nonce : t \in back}
             at(n) == CHOOSE t \in back : sent[t].nonce = n
  <2>1. /\ k \in deepest .. Len(onChain) - 1 /\ onChain' = SubSeq(onChain, 1, k)
        /\ pendingTxs' = [n \in DOMAIN pendingTxs \union used |-> IF n \in used THEN at(n) ELSE pendingTxs[n]]
        /\ UNCHANGED <<repriced, fin, sent>>
      BY <1>5 DEF Reorg, With
  <2>2. /\ Len(onChain) \in Nat /\ DOMAIN onChain = 1 .. Len(onChain)
        /\ \A n \in DOMAIN onChain : onChain[n].tx \in Txs
      BY AppendSeq DEF FinalInv, ChainOK
  <2>3. k \in 0 .. Len(onChain)
      BY <2>1, <2>2 DEF FinalInv, AnchorsOK
  <2>4. DOMAIN onChain' = 1 .. k /\ \A n \in 1 .. k : onChain'[n] = onChain[n]
      BY <2>1, <2>3, PrefixSeq DEF FinalInv, ChainOK
  <2>5. back \subseteq Txs
    <3>1. ASSUME NEW n \in k + 1 .. Len(onChain)
          PROVE  onChain[n].tx \in Txs /\ onChain[n].held \subseteq Txs
        BY <2>2, <2>3
    <3> QED
        BY <3>1
  <2>6. \A n \in used : at(n) \in back
      OBVIOUS
  <2> HIDE DEF back, used, at
  <2> QED
      BY <1>0, <2>1, <2>2, <2>3, <2>4, <2>5, <2>6
<1>6. ASSUME NEW k, AdvanceAnchor(k) PROVE KnownTxs'
  <2>1. PICK blobs : fin' = <<[step |-> "advanced", ids |-> {}, included |-> blobs,
                               excluded |-> Losers(k)]>>
      BY <1>6 DEF AdvanceAnchor
  <2>2. UNCHANGED <<pendingTxs, onChain, sent>> /\ repriced' \subseteq repriced
      BY <1>6 DEF AdvanceAnchor
  <2>3. fin'[1].excluded \subseteq repriced
      BY <2>1 DEF Losers
  <2> QED
      BY <1>0, <2>2, <2>3
<1>7. CASE Restart
  <2>1. /\ pendingTxs' = << >> /\ repriced' = {} /\ fin' = <<>>
        /\ onChain' = [n \in DOMAIN onChain |-> [onChain[n] EXCEPT !.held = {}]]
      BY <1>7 DEF Restart
  <2>2. \A n \in DOMAIN onChain : onChain'[n].held = {}
    <3> TAKE n \in DOMAIN onChain
    <3>1. onChain[n] = [tx |-> onChain[n].tx, held |-> onChain[n].held]
        BY DEF FinalInv, ChainOK
    <3> QED
        BY <2>1, <3>1
  <2> QED
      BY <2>1, <2>2
<1>8. CASE SendBlobTx \/ SendSelfTransfer
    BY <1>1, <1>8 DEF SendBlobTx, SendSelfTransfer, syncVars
<1> QED
    BY <1>1, <1>2, <1>3, <1>4, <1>5, <1>6, <1>7, <1>8, OtherTxs, OtherFins
       DEF Next, Sender, Subscriber, Environment, Faults

\* OtherUses: the steps that change no intent's uses
LEMMA OtherUses ==
    ASSUME Api \/ Pack \/ GiveUp \/ SendBlobTx \/ SendSelfTransfer \/ RegisterSent
             \/ (\E k \in 1 .. MaxSent : AdvanceAnchor(k)) \/ MarkIncluded
             \/ SetFinalizedBlockNumber \/ PersistAnchor \/ Dropping \/ Environment
             \/ FinalizeFails \/ DropFails \/ ConsistencyCheck \/ UNCHANGED vars
    PROVE  UNCHANGED cacheInclusions
<1>1. CASE Api
    BY <1>1 DEF Api, StoreDataIntent, CommitIntent, CheckCancel, SyncWithDb, trackerVars
<1>2. CASE Pack \/ GiveUp \/ SendBlobTx \/ SendSelfTransfer \/ RegisterSent
    BY <1>2 DEF Pack, GiveUp, SendBlobTx, SendSelfTransfer, RegisterSent, trackerVars
<1>3. CASE (\E k \in 1 .. MaxSent : AdvanceAnchor(k)) \/ MarkIncluded
             \/ SetFinalizedBlockNumber \/ PersistAnchor \/ FinalizeFails
    BY <1>3 DEF AdvanceAnchor, MarkIncluded, SetFinalizedBlockNumber, PersistAnchor,
                FinalizeFails, trackerVars
<1>4. CASE Dropping \/ DropFails \/ ConsistencyCheck
    BY <1>4 DEF Dropping, FindStale, MarkCancelled, RemovePending, DropFails, ConsistencyCheck,
                trackerVars
<1>5. CASE Environment \/ UNCHANGED vars
    BY <1>5 DEF Environment, Mine, MineEmpty, Reorg, Tick, vars, trackerVars
<1> QED
    BY <1>1, <1>2, <1>3, <1>4, <1>5

\* IndexesStep: a step that changes an index keeps it, with what it refers to.
LEMMA IndexesStep ==
    ASSUME FinalInv, IndexInv, [Next]_vars
    PROVE  IndexesOK'
<1>1. CASE RecordInclusions
    BY <1>1, RecordIndexes
<1>2. CASE FinalizeTxs \/ DropExcluded
    BY <1>2, FinalizeIndexes, ExcludeIndexes
<1>3. CASE Restart
    BY <1>3 DEF Restart, IndexesOK
<1>4. CASE DeleteInclusions \/ RecordFails
    BY <1>4, OtherIndexes DEF DeleteInclusions, RecordFails, trackerVars
<1>5. CASE UNCHANGED <<cacheInclusions, includedIntents, inclusions>>
    BY <1>5, OtherIndexes
<1>6. CASE ~(RecordInclusions \/ FinalizeTxs \/ DropExcluded \/ Restart \/ DeleteInclusions
               \/ RecordFails)
  <2>1. UNCHANGED <<inclusions, includedIntents>>
      BY <1>6, OtherInclusions DEF Next, Sender, Subscriber, Faults
  <2>2. UNCHANGED cacheInclusions
      BY <1>6, OtherUses DEF Next, Sender, Subscriber, Faults
  <2> QED
      BY <1>5, <2>1, <2>2
<1> QED
    BY <1>1, <1>2, <1>3, <1>4, <1>6

\* NewStep: a transaction stays new until it is recorded.
LEMMA NewStep ==
    ASSUME FinalInv, IndexInv, [Next]_vars
    PROVE  SentIsNew'
<1>0. /\ \A t \in DOMAIN includedIntents : t \in Txs
      /\ repriced \subseteq Txs
      /\ fin # <<>> => fin[1].excluded \subseteq Txs
    BY DEF FinalInv, InclusionsOK, IndexInv, KnownTxs
<1>1. CASE SendBlobTx \/ SendSelfTransfer
  <2>1. PICK n, ids, fee, step : Send(n, ids, fee, step)
      BY <1>1 DEF SendBlobTx, SendSelfTransfer
  <2>2. job'[1].tx \notin Txs
      BY <2>1, SendIsNew
  <2>3. UNCHANGED <<repriced, includedIntents, fin>>
      BY <1>1 DEF SendBlobTx, SendSelfTransfer, trackerVars, syncVars
  <2> QED
      BY <1>0, <2>2, <2>3 DEF SentIsNew
<1>2. CASE Pack
  <2>1. PICK ids : job' = <<[step |-> "packed", ids |-> ids, price |-> price, tx |-> 0]>>
      BY <1>2 DEF Pack
  <2> QED
      BY <2>1 DEF SentIsNew
<1>3. CASE GiveUp \/ RegisterSent \/ RecordFails \/ Restart
    BY <1>3 DEF GiveUp, RegisterSent, RecordFails, Restart, SentIsNew
<1>4. CASE RecordInclusions
  <2>1. job # <<>> /\ job' = <<[job[1] EXCEPT !.step = "recorded"]>>
      BY <1>4 DEF RecordInclusions
  <2>2. job[1] = [step |-> job[1].step, ids |-> job[1].ids, price |-> job[1].price,
                  tx |-> job[1].tx]
      BY <2>1 DEF FinalInv, JobOK
  <2>3. job'[1] = [step |-> "recorded", ids |-> job[1].ids, price |-> job[1].price,
                   tx |-> job[1].tx]
      BY <2>1, <2>2
  <2> QED
      BY <2>3 DEF SentIsNew
<1>5. ASSUME UNCHANGED job, repriced' \subseteq repriced,
             DOMAIN includedIntents' \subseteq DOMAIN includedIntents,
             fin' # <<>> => \/ fin # <<>> /\ fin'[1].excluded \subseteq fin[1].excluded
                            \/ fin'[1].excluded \subseteq repriced
      PROVE  SentIsNew'
    BY <1>5 DEF IndexInv, SentIsNew
<1>6. ASSUME NEW k, AdvanceAnchor(k) PROVE SentIsNew'
  <2>1. PICK blobs : fin' = <<[step |-> "advanced", ids |-> {}, included |-> blobs,
                               excluded |-> Losers(k)]>>
      BY <1>6 DEF AdvanceAnchor
  <2>2. UNCHANGED <<includedIntents, job>> /\ repriced' \subseteq repriced
      BY <1>6 DEF AdvanceAnchor, trackerVars
  <2>3. fin'[1].excluded \subseteq repriced
      BY <2>1 DEF Losers
  <2> QED
      BY <1>5, <2>2, <2>3
<1>7. CASE FinalizeTxs \/ MarkIncluded \/ SetFinalizedBlockNumber \/ DropExcluded
             \/ DeleteInclusions \/ PersistAnchor \/ FinalizeFails
  <2>1. UNCHANGED repriced
      BY <1>7, OtherTxs
  <2>2. fin' # <<>> => fin # <<>> /\ fin'[1].excluded \subseteq fin[1].excluded
      BY <1>7, FinTxs
  <2>3. UNCHANGED job
      BY <1>7, OtherJobs DEF Subscriber
  <2>4. DOMAIN includedIntents' \subseteq DOMAIN includedIntents
      BY <1>7 DEF FinalizeTxs, MarkIncluded, SetFinalizedBlockNumber, DropExcluded,
                  DeleteInclusions, PersistAnchor, FinalizeFails, Without, trackerVars
  <2> QED
      BY <1>5, <2>1, <2>2, <2>3, <2>4
<1>8. CASE Api \/ Dropping \/ Environment \/ DropFails \/ ConsistencyCheck \/ UNCHANGED vars
  <2>1. UNCHANGED <<job, fin, includedIntents>>
      BY <1>8, OtherJobs, OtherFins, OtherInclusions
  <2>2. UNCHANGED repriced
    <3>1. CASE (\E t \in Txs, p \in Prices : Mine(t, p)) \/ (\E k \in 0 .. MaxSent : Reorg(k))
        BY <3>1 DEF Mine, Reorg
    <3> QED
        BY <1>8, <3>1, OtherTxs DEF Environment
  <2> QED
      BY <1>5, <2>1, <2>2
<1> QED
    BY <1>1, <1>2, <1>3, <1>4, <1>6, <1>7, <1>8 DEF Next, Sender, Subscriber, Faults

\* DroppedStep: what the index has lost by exclusion does not come back to it.
LEMMA DroppedStep ==
    ASSUME FinalInv, IndexInv, [Next]_vars
    PROVE  DroppedOK'
<1>1. CASE FinalizeTxs \/ MarkIncluded \/ SetFinalizedBlockNumber \/ DropExcluded
             \/ DeleteInclusions \/ PersistAnchor \/ FinalizeFails
    BY <1>1, FinTxs
<1>2. CASE Restart
    BY <1>2 DEF Restart, DroppedOK
<1>3. ASSUME NEW k, AdvanceAnchor(k) PROVE DroppedOK'
  <2>1. PICK blobs : fin' = <<[step |-> "advanced", ids |-> {}, included |-> blobs,
                               excluded |-> Losers(k)]>>
      BY <1>3 DEF AdvanceAnchor
  <2> QED
      BY <2>1 DEF DroppedOK
<1>4. CASE RecordInclusions
  <2>1. /\ job # <<>> /\ job[1].step = "sent" /\ UNCHANGED fin
        /\ DOMAIN includedIntents' = DOMAIN includedIntents \union {job[1].tx}
      BY <1>4 DEF RecordInclusions, With
  <2> QED
      BY <2>1 DEF IndexInv, DroppedOK, SentIsNew
<1>5. CASE UNCHANGED <<fin, includedIntents>>
    BY <1>5 DEF IndexInv, DroppedOK
<1>6. CASE RecordFails
    BY <1>5, <1>6 DEF RecordFails, trackerVars
<1> QED
    BY <1>1, <1>2, <1>3, <1>4, <1>5, <1>6, OtherFins, OtherInclusions
       DEF Next, Sender, Subscriber, Faults

\* IndexStep: every step keeps IndexInv.
LEMMA IndexStep == FinalInv /\ IndexInv /\ [Next]_vars => IndexInv'
    BY IndexesStep, KnownStep, NewStep, DroppedStep DEF IndexInv

\* IndexInvHolds: IndexInv is an invariant.
THEOREM IndexInvHolds == Spec => []IndexInv
    BY IndexInit, IndexStep, FinalInvHolds, PTL DEF Spec

\* IndexesAgreeHolds: for any intents, and whatever is sent, replaced, excluded, finalized,
\* or lost with the memory, an intent counts a transaction among its uses, and once, only
\* if that transaction lists it.
THEOREM IndexesAgreeHolds == Spec => []IndexesAgree
<1>1. IndexInv => IndexesAgree
    BY DEF IndexInv, IndexesOK, IndexesAgree
<1> QED
    BY <1>1, IndexInvHolds, PTL

\* InclusionsStoredHolds: for any intents, the tracker knows of no inclusion that the table
\* lacks, whichever statement fails.
THEOREM InclusionsStoredHolds == Spec => []InclusionsStored
<1>1. IndexInv => InclusionsStored
    BY DEF IndexInv, IndexesOK, InclusionsStored
<1> QED
    BY <1>1, IndexInvHolds, PTL

-----------------------------------------------------------------------------
(* The window of the fetches *)

\* No row is of a later instant than now, and none later than now was fetched.
WindowOK ==
    /\ lastSync \in Nat /\ lastSync <= clock
    /\ \A i \in DOMAIN rows : rows[i].at <= clock

\* What a drop under way has marked is cancelled.
MarkedOK ==
    drop # <<>> =>
      /\ drop[1].ids \subseteq DOMAIN rows
      /\ \A i \in drop[1].marked : i \in DOMAIN rows /\ rows[i].cancelled

\* What finalization is about to take from the tracker is under the anchor.
IncludedOK ==
    fin # <<>> /\ fin[1].step = "advanced" =>
      \A t \in fin[1].included : \E n \in 1 .. finalCount : onChain[n].tx = t

FetchInv == WindowOK /\ MarkedOK /\ IncludedOK

\* GreatestIs: Max of instants up to now is one of them.
LEMMA GreatestIs ==
    ASSUME NEW n \in Nat, NEW T, T \subseteq 0 .. n, T # {}
    PROVE  Max(T) \in T
<1>1. \E m \in T : \A k \in T : m >= k
    BY GreatestNumber
<1> QED
    BY <1>1 DEF Max

\* FinalStays: while the memory lasts, what is under the anchor stays there.
LEMMA FinalStays ==
    ASSUME FinalInv, [Next]_vars
    PROVE  \/ Restart
           \/ /\ finalCount <= finalCount'
              /\ \A n \in 1 .. finalCount :
                   n \in 1 .. finalCount' /\ onChain'[n].tx = onChain[n].tx
              /\ Final \subseteq Final'
<1> SUFFICES ASSUME ~Restart
             PROVE  /\ finalCount <= finalCount'
                    /\ \A n \in 1 .. finalCount :
                         n \in 1 .. finalCount' /\ onChain'[n].tx = onChain[n].tx
                    /\ Final \subseteq Final'
    OBVIOUS
<1>1. /\ finalCount \in Nat /\ deepest \in Nat /\ finalCount <= deepest /\ deepest <= Len(onChain)
      /\ DOMAIN onChain = 1 .. Len(onChain) /\ Len(onChain) \in Nat
    BY AppendSeq DEF FinalInv, AnchorsOK, ChainOK
<1>2. finalCount' \in Nat /\ Grows
    BY ChainStep DEF AnchorsOK
<1>3. finalCount <= finalCount'
  <2>1. CASE \E k \in 1 .. MaxSent : AdvanceAnchor(k)
    <3>1. PICK k : AdvanceAnchor(k)
        BY <2>1
    <3>2. k \in finalCount + 1 .. Len(onChain) /\ finalCount' = k
        BY <3>1 DEF AdvanceAnchor
    <3> QED
        BY <1>1, <3>2
  <2>2. CASE UNCHANGED finalCount
      BY <1>1, <2>2
  <2>3. CASE PersistAnchor \/ SendBlobTx \/ SendSelfTransfer \/ Environment
      BY <2>2, <2>3 DEF PersistAnchor, SendBlobTx, SendSelfTransfer, Environment, Mine, MineEmpty,
                        Reorg, Tick, syncVars
  <2> QED
      BY <2>1, <2>2, <2>3, OthersGrow DEF Next, Sender, Subscriber, Faults
<1>4. \A n \in 1 .. finalCount : n \in 1 .. finalCount' /\ n \in 1 .. deepest /\ n \in DOMAIN onChain
    BY <1>1, <1>2, <1>3
<1>5. \A n \in 1 .. finalCount : onChain'[n].tx = onChain[n].tx
    BY <1>2, <1>4 DEF Grows
<1>6. \A n \in 1 .. finalCount : sent'[onChain[n].tx] = sent[onChain[n].tx]
    BY <1>2, <1>4 DEF Grows, FinalInv, ChainOK
<1> QED
    BY <1>3, <1>4, <1>5, <1>6 DEF Final

\* TimesStep: a row that a step updates is of the instant of the step.
LEMMA TimesStep ==
    ASSUME FinalInv, [Next]_vars
    PROVE  /\ clock \in Nat /\ clock' \in Nat /\ clock <= clock'
           /\ \A i \in DOMAIN rows' :
                \/ rows'[i].at = clock
                \/ i \in DOMAIN rows /\ rows'[i].at = rows[i].at
<1>1. RowsOK
    BY DEF FinalInv
<1>2. CASE UNCHANGED <<rows, clock>>
    BY <1>1, <1>2 DEF RowsOK
<1>3. CASE Tick
    BY <1>1, <1>3 DEF Tick, RowsOK
<1>4. ASSUME NEW j, StoreDataIntent(j) PROVE RowsOK' /\ UNCHANGED clock /\ rows'[j].at = clock
  <2>1. rows' = [k \in DOMAIN rows \union {j} |->
                   IF k \in {j} THEN [at |-> clock, committed |-> FALSE, data |-> TRUE,
                                      cancelled |-> FALSE, finalized |-> FALSE, numbered |-> FALSE]
                   ELSE rows[k]]
      BY <1>4 DEF StoreDataIntent, With
  <2>2. UNCHANGED clock
      BY <1>4 DEF StoreDataIntent
  <2>3. RowsOK'
      BY <1>1, <1>4, StoreKeeps
  <2> QED
      BY <2>1, <2>2, <2>3
<1>5. CASE \E j \in Intents : StoreDataIntent(j)
  <2>1. PICK j : StoreDataIntent(j)
      BY <1>5
  <2>2. /\ RowsOK' /\ UNCHANGED clock /\ rows'[j].at = clock
        /\ DOMAIN rows' = DOMAIN rows \union {j}
        /\ \A i \in DOMAIN rows : rows'[i] = rows[i]
      BY <1>1, <1>4, <2>1, StoreKeeps
  <2> QED
      BY <1>1, <2>2 DEF RowsOK
<1>6. ASSUME NEW j \in DOMAIN rows, UNCHANGED clock,
             \/ rows' = [rows EXCEPT ![j].committed = TRUE]
             \/ rows' = [rows EXCEPT ![j].cancelled = TRUE, ![j].at = clock]
      PROVE  rows'[j].at \in {rows[j].at, clock}
  <2>1. rows[j] \in Row
      BY <1>1 DEF RowsOK
  <2>2. \/ rows'[j] = [rows[j] EXCEPT !.committed = TRUE]
        \/ rows'[j] = [rows[j] EXCEPT !.cancelled = TRUE, !.at = clock]
      BY <1>1, <1>6 DEF RowsOK
  <2> QED
      BY <2>1, <2>2 DEF Row
<1>7. CASE (\E j \in Intents : CommitIntent(j)) \/ MarkCancelled
  <2>1. PICK j : /\ UNCHANGED clock
                 /\ \/ rows' = [rows EXCEPT ![j].committed = TRUE]
                    \/ rows' = [rows EXCEPT ![j].cancelled = TRUE, ![j].at = clock]
      BY <1>7 DEF CommitIntent, MarkCancelled
  <2>2. DOMAIN rows' = DOMAIN rows /\ \A i \in DOMAIN rows : i # j => rows'[i] = rows[i]
      BY <1>1, <2>1, FlagKeeps
  <2>3. j \in DOMAIN rows => rows'[j].at \in {rows[j].at, clock}
      BY <1>6, <2>1
  <2> QED
      BY <1>1, <2>1, <2>2, <2>3 DEF RowsOK
<1>8. CASE MarkIncluded \/ SetFinalizedBlockNumber \/ PersistAnchor \/ ConsistencyCheck
  <2>1. UNCHANGED clock
      BY <1>8 DEF MarkIncluded, SetFinalizedBlockNumber, PersistAnchor, ConsistencyCheck
  <2>2. PICK ids :
          \/ rows' = [i \in DOMAIN rows |->
                        IF i \in ids THEN [rows[i] EXCEPT !.finalized = TRUE, !.at = clock]
                        ELSE rows[i]]
          \/ rows' = [i \in DOMAIN rows |->
                        IF i \in ids THEN [rows[i] EXCEPT !.numbered = TRUE, !.at = clock]
                        ELSE rows[i]]
          \/ rows' = [i \in DOMAIN rows |->
                        IF i \in ids THEN [rows[i] EXCEPT !.data = FALSE, !.at = clock]
                        ELSE rows[i]]
      BY <1>8 DEF MarkIncluded, SetFinalizedBlockNumber, PersistAnchor, ConsistencyCheck,
                  MarkFinalized
  <2>3. ASSUME NEW i \in DOMAIN rows' PROVE i \in DOMAIN rows /\ rows'[i].at \in {rows[i].at, clock}
    <3>1. i \in DOMAIN rows
        BY <2>2
    <3>2. rows[i] \in Row
        BY <1>1, <3>1 DEF RowsOK
    <3>3. \/ rows'[i] = [rows[i] EXCEPT !.finalized = TRUE, !.at = clock]
          \/ rows'[i] = [rows[i] EXCEPT !.numbered = TRUE, !.at = clock]
          \/ rows'[i] = [rows[i] EXCEPT !.data = FALSE, !.at = clock]
          \/ rows'[i] = rows[i]
        BY <2>2, <3>1
    <3> QED
        BY <3>1, <3>2, <3>3 DEF Row
  <2> QED
      BY <1>1, <2>1, <2>3 DEF RowsOK
<1>9. CASE Restart
  <2>1. UNCHANGED clock
      BY <1>9 DEF Restart
  <2> QED
      BY <1>1, <1>9, <2>1, RestartRows DEF Committed, RowsOK
<1> QED
  <2> USE DEF Next, Api, Subscriber, Dropping, Environment, Faults
  <2>1. CASE Api \/ Dropping
      BY <2>1, <1>2, <1>5, <1>7, OtherRows
  <2>2. CASE Subscriber
      BY <2>2, <1>2, <1>8, OtherRows
  <2>3. CASE Environment \/ Faults
      BY <2>3, <1>2, <1>3, <1>9, OtherRows
  <2> QED
      BY <2>1, <2>2, <2>3, <1>2, <1>8, OtherRows

\* OtherFetches: the steps that leave alone the window
LEMMA OtherFetches ==
    ASSUME (\E i \in Intents : StoreDataIntent(i) \/ CommitIntent(i) \/ CheckCancel(i))
             \/ Sender \/ Subscriber \/ Dropping \/ Environment \/ RecordFails \/ FinalizeFails
             \/ DropFails \/ ConsistencyCheck \/ UNCHANGED vars
    PROVE  UNCHANGED lastSync
<1>1. CASE \E i \in Intents : StoreDataIntent(i) \/ CommitIntent(i) \/ CheckCancel(i)
    BY <1>1 DEF StoreDataIntent, CommitIntent, CheckCancel, trackerVars
<1>2. CASE Sender \/ RecordFails
    BY <1>2 DEF Sender, Pack, GiveUp, SendBlobTx, SendSelfTransfer, RecordInclusions, RegisterSent,
                RecordFails, trackerVars
<1>3. CASE Subscriber \/ FinalizeFails
    BY <1>3 DEF Subscriber, AdvanceAnchor, FinalizeTxs, MarkIncluded, SetFinalizedBlockNumber,
                DropExcluded, DeleteInclusions, PersistAnchor, FinalizeFails, trackerVars
<1>4. CASE Dropping \/ DropFails \/ ConsistencyCheck
    BY <1>4 DEF Dropping, FindStale, MarkCancelled, RemovePending, DropFails, ConsistencyCheck,
                trackerVars
<1>5. CASE Environment \/ UNCHANGED vars
    BY <1>5 DEF Environment, Mine, MineEmpty, Reorg, Tick, vars, trackerVars
<1> QED
    BY <1>1, <1>2, <1>3, <1>4, <1>5

\* WindowStep: no step sets the window to later than now.
LEMMA WindowStep ==
    ASSUME FinalInv, WindowOK, [Next]_vars
    PROVE  WindowOK'
<1>1. /\ clock \in Nat /\ clock' \in Nat /\ clock <= clock'
      /\ \A i \in DOMAIN rows' :
           \/ rows'[i].at = clock
           \/ i \in DOMAIN rows /\ rows'[i].at = rows[i].at
    BY TimesStep
<1>2. \A i \in DOMAIN rows : rows[i].at \in 0 .. clock
  <2>1. \A i \in DOMAIN rows : rows[i].at \in Nat
      BY DEF FinalInv, RowsOK, Row
  <2> QED
      BY <1>1, <2>1 DEF WindowOK
<1>3. \A i \in DOMAIN rows' : rows'[i].at <= clock'
    BY <1>1, <1>2
<1>4. lastSync \in 0 .. clock
    BY <1>1 DEF WindowOK
<1>5. lastSync' \in 0 .. clock
  <2>1. CASE SyncWithDb
    <3>1. PICK other \in {lastSync, clock} :
            lastSync' = Max({other} \union {rows[i].at : i \in Fetched(lastSync)})
        BY <2>1 DEF SyncWithDb
    <3> DEFINE T == {other} \union {rows[i].at : i \in Fetched(lastSync)}
    <3>2. Fetched(lastSync) \subseteq DOMAIN rows
        BY DEF Fetched, Live, Committed
    <3>3. T \subseteq 0 .. clock /\ T # {}
        BY <1>1, <1>2, <1>4, <3>2
    <3> HIDE DEF T
    <3>4. Max(T) \in 0 .. clock
        BY <1>1, <3>3, GreatestIs
    <3> QED
        BY <3>1, <3>4 DEF T
  <2>2. CASE Restart
    <3> DEFINE T == {0} \union {rows[i].at : i \in Live}
    <3>1. lastSync' = Max(T)
        BY <2>2 DEF Restart
    <3>2. Live \subseteq DOMAIN rows
        BY DEF Live, Committed
    <3>3. T \subseteq 0 .. clock /\ T # {}
        BY <1>1, <1>2, <3>2
    <3> HIDE DEF T
    <3> QED
        BY <1>1, <3>1, <3>3, GreatestIs
  <2>3. CASE UNCHANGED lastSync
      BY <1>4, <2>3
  <2> QED
      BY <2>1, <2>2, <2>3, OtherFetches DEF Next, Api, Faults
<1> QED
    BY <1>1, <1>3, <1>5 DEF WindowOK

\* MarkedStep: a mark lasts as long as the drop.
LEMMA MarkedStep ==
    ASSUME FinalInv, CancelInv, MarkedOK, [Next]_vars
    PROVE  MarkedOK'
<1>1. CASE Neutral
    BY <1>1 DEF Neutral, MarkedOK
<1>2. CASE SyncWithDb
    BY <1>2 DEF SyncWithDb, dbVars, MarkedOK
<1>3. CASE (\E i \in Intents : CheckCancel(i)) \/ (\E ids \in SUBSET Intents : FindStale(ids))
  <2>1. PICK ids : ids \subseteq DOMAIN rows /\ drop' = <<[ids |-> ids, marked |-> {}]>>
      BY <1>3 DEF CheckCancel, FindStale, Committed, CancelInv
  <2>2. UNCHANGED rows
      BY <1>3 DEF CheckCancel, FindStale, dbVars
  <2>3. drop'[1] = [ids |-> ids, marked |-> {}]
      BY <2>1
  <2> QED
      BY <2>1, <2>2, <2>3 DEF MarkedOK
<1>4. CASE MarkCancelled
  <2>1. PICK j \in drop[1].ids :
          /\ drop # <<>>
          /\ rows' = [rows EXCEPT ![j].cancelled = TRUE, ![j].at = clock]
          /\ drop' = <<[drop[1] EXCEPT !.marked = @ \union {j}]>>
      BY <1>4 DEF MarkCancelled
  <2>2. UNCHANGED clock
      BY <1>4 DEF MarkCancelled
  <2>3. DOMAIN rows' = DOMAIN rows /\ \A i \in DOMAIN rows : i # j => rows'[i] = rows[i]
      BY <2>1, <2>2, FlagKeeps DEF FinalInv
  <2>4. drop[1] = [ids |-> drop[1].ids, marked |-> drop[1].marked]
      BY <2>1 DEF CancelInv
  <2>5. drop'[1] = [ids |-> drop[1].ids, marked |-> drop[1].marked \union {j}]
      BY <2>1, <2>4
  <2>6. j \in DOMAIN rows /\ rows[j] \in Row
      BY <2>1 DEF MarkedOK, FinalInv, RowsOK
  <2>7. rows'[j] = [rows[j] EXCEPT !.cancelled = TRUE, !.at = clock]
      BY <2>1, <2>6 DEF FinalInv, RowsOK
  <2>8. rows'[j].cancelled
      BY <2>6, <2>7 DEF Row
  <2> QED
      BY <2>1, <2>3, <2>5, <2>6, <2>8 DEF MarkedOK
<1>5. CASE RemovePending \/ DropFails \/ Restart
  <2>1. drop' = <<>>
      BY <1>5 DEF RemovePending, DropFails, Restart
  <2> QED
      BY <2>1 DEF MarkedOK
<1> QED
    BY <1>1, <1>2, <1>3, <1>4, <1>5, NeutralSteps DEF Next, Api, Dropping, Faults

\* IncludedStep: what is included stays under the anchor while it is finalized.
LEMMA IncludedStep ==
    ASSUME FinalInv, IncludedOK, [Next]_vars
    PROVE  IncludedOK'
<1>1. CASE UNCHANGED fin /\ ~Restart
  <2>1. \A n \in 1 .. finalCount : n \in 1 .. finalCount' /\ onChain'[n].tx = onChain[n].tx
      BY <1>1, FinalStays
  <2> QED
      BY <1>1, <2>1 DEF IncludedOK
<1>2. CASE PersistAnchor \/ FinalizeFails \/ Restart
    BY <1>2 DEF PersistAnchor, FinalizeFails, Restart, IncludedOK
<1>3. CASE \E k \in 1 .. MaxSent : AdvanceAnchor(k)
  <2>1. PICK k : AdvanceAnchor(k)
      BY <1>3
  <2> DEFINE blobs == {t \in {onChain[n].tx : n \in finalCount + 1 .. k} : ~Transfer(t)}
  <2>2. /\ fin' = <<[step |-> "advanced", ids |-> {}, included |-> blobs, excluded |-> Losers(k)]>>
        /\ finalCount' = k /\ UNCHANGED onChain
      BY <2>1 DEF AdvanceAnchor
  <2>3. fin'[1].included = blobs
      BY <2>2
  <2>4. finalCount \in Nat
      BY DEF FinalInv, AnchorsOK
  <2>5. \A n \in finalCount + 1 .. k : n \in 1 .. k
      BY <2>4
  <2>6. \A t \in blobs : \E n \in 1 .. k : onChain[n].tx = t
      BY <2>5
  <2> QED
      BY <2>2, <2>3, <2>6 DEF IncludedOK
<1>4. CASE FinalizeTxs \/ MarkIncluded \/ SetFinalizedBlockNumber \/ DropExcluded \/ DeleteInclusions
  <2>1. fin # <<>> /\ fin[1] = [step |-> fin[1].step, ids |-> fin[1].ids,
                                included |-> fin[1].included, excluded |-> fin[1].excluded]
      BY <1>4 DEF FinalInv, FinOK, FinalizeTxs, MarkIncluded, SetFinalizedBlockNumber,
                  DropExcluded, DeleteInclusions
  <2>2. fin'[1].step # "advanced"
    <3>1. CASE FinalizeTxs
      <4>1. PICK ids : fin' = <<[fin[1] EXCEPT !.step = "finalized", !.ids = ids]>>
          BY <3>1 DEF FinalizeTxs
      <4> QED
          BY <2>1, <4>1
    <3>2. CASE MarkIncluded \/ SetFinalizedBlockNumber \/ DropExcluded
      <4>1. PICK step \in {"numbering", "marked", "dropped"} :
              fin' = <<[fin[1] EXCEPT !.step = step]>>
          BY <3>2 DEF MarkIncluded, SetFinalizedBlockNumber, DropExcluded
      <4> QED
          BY <2>1, <4>1
    <3>3. CASE DeleteInclusions
      <4>1. PICK t : fin[1].step = "dropped" /\ fin' = <<[fin[1] EXCEPT !.excluded = @ \ {t}]>>
          BY <3>3 DEF DeleteInclusions
      <4> QED
          BY <2>1, <4>1
    <3> QED
        BY <1>4, <3>1, <3>2, <3>3
  <2> QED
      BY <2>2 DEF IncludedOK
<1> QED
    BY <1>1, <1>2, <1>3, <1>4, OtherFins DEF Next, Subscriber, Faults

\* FetchInit: before the first step nothing is fetched, dropped or finalized.
LEMMA FetchInit == Init => FetchInv
    BY DEF Init, FetchInv, WindowOK, MarkedOK, IncludedOK

\* FetchStep: every step keeps FetchInv.
LEMMA FetchStep == FinalInv /\ CancelInv /\ FetchInv /\ [Next]_vars => FetchInv'
    BY WindowStep, MarkedStep, IncludedStep DEF FetchInv

\* FetchInvHolds: FetchInv is an invariant.
THEOREM FetchInvHolds == Spec => []FetchInv
    BY FetchInit, FetchStep, FinalInvHolds, CancelInvHolds, PTL DEF Spec

\* Unmissed: a step misses no visible row if it leaves the window alone, and the pool but
\* for what is final, and if a row that it updates is of now, or not live.
LEMMA Unmissed ==
    ASSUME NEW i \in Committed, Missed(i)', lastSync' = lastSync, Final \subseteq Final',
           i \in pendingIntents => i \in pendingIntents' \union Final,
           rows'[i] = rows[i]
    PROVE  Missed(i)
<1>1. i \in Live' => i \in Live
    BY DEF Live, Committed
<1> QED
    BY <1>1 DEF Missed

\* FetchesAllStep: no step misses a visible row.  The window grows by what is fetched only,
\* an UPDATE brings a row back into it, and what leaves the pool is final or cancelled.
LEMMA FetchesAllStep ==
    ASSUME FinalInv, CancelInv, FetchInv, [Next]_vars, NEW i \in Committed, Missed(i)'
    PROVE  Missed(i)
<1>1. /\ i \in DOMAIN rows' /\ ~rows'[i].finalized /\ ~rows'[i].cancelled
      /\ rows'[i].at < lastSync' /\ i \notin pendingIntents' /\ i \notin Final'
    BY DEF Missed, Live, Committed
<1>2. i \in DOMAIN rows /\ rows[i] \in Row /\ rows[i].committed
    BY DEF Committed, FinalInv, RowsOK
<1>3. CASE Restart
  <2>1. rows'[i] = rows[i] /\ pendingIntents' = Live
      BY <1>3, RestartRows DEF FinalInv, Restart
  <2> QED
      BY <1>1, <2>1 DEF Live
<1>r. SUFFICES ASSUME ~Restart PROVE Missed(i)
    BY <1>3
<1>4. Final \subseteq Final'
    BY <1>r, FinalStays
<1>5. CASE UNCHANGED <<lastSync, pendingIntents>> /\ rows'[i] = rows[i]
    BY <1>4, <1>5, Unmissed
<1>6. CASE SyncWithDb
  <2>1. /\ pendingIntents' = pendingIntents \union Fetched(lastSync)
        /\ UNCHANGED <<rows, sent, onChain, finalCount>>
      BY <1>6 DEF SyncWithDb, dbVars, chainVars, syncVars
  <2>2. i \in Live /\ i \notin Fetched(lastSync) /\ i \notin pendingIntents
      BY <1>1, <1>2, <2>1 DEF Live, Committed
  <2>3. rows[i].at \in Nat /\ lastSync \in Nat
      BY <1>2 DEF Row, FetchInv, WindowOK
  <2>4. rows[i].at < lastSync
      BY <2>2, <2>3 DEF Fetched
  <2>5. i \notin Final
      BY <1>1, <2>1 DEF Final
  <2> QED
      BY <2>2, <2>4, <2>5 DEF Missed
<1>7. CASE FinalizeTxs
  <2> DEFINE known == fin[1].included \intersect DOMAIN includedIntents
             ids   == UNION {includedIntents[t] : t \in known}
  <2>1. /\ fin # <<>> /\ fin[1].step = "advanced"
        /\ pendingIntents' = pendingIntents \ ids /\ UNCHANGED <<rows, lastSync>>
      BY <1>7 DEF FinalizeTxs, dbVars
  <2>2. ids \subseteq Final
    <3> SUFFICES ASSUME NEW j \in ids PROVE j \in Final
        OBVIOUS
    <3>1. PICK t \in known : j \in includedIntents[t]
        OBVIOUS
    <3>2. j \in sent[t].ids
        BY <3>1 DEF FinalInv, InclusionsOK
    <3>3. PICK n \in 1 .. finalCount : onChain[n].tx = t
        BY <2>1 DEF FetchInv, IncludedOK
    <3> QED
        BY <3>2, <3>3 DEF Final
  <2> HIDE DEF ids
  <2> QED
      BY <1>4, <2>1, <2>2, Unmissed
<1>8. CASE RemovePending
  <2>1. /\ drop # <<>> /\ drop[1].ids = drop[1].marked
        /\ pendingIntents' = pendingIntents \ drop[1].ids /\ UNCHANGED <<rows, lastSync>>
      BY <1>8 DEF RemovePending, dbVars
  <2>2. i \notin drop[1].ids
      BY <1>1, <2>1 DEF FetchInv, MarkedOK
  <2> QED
      BY <1>4, <2>1, <2>2, Unmissed
<1>9. CASE UNCHANGED <<lastSync, pendingIntents>> /\ UNCHANGED rows
    BY <1>5, <1>9
<1>10. CASE \E j \in Intents : StoreDataIntent(j)
  <2>1. rows'[i] = rows[i]
      BY <1>2, <1>10, StoreKeeps DEF FinalInv
  <2> QED
      BY <1>5, <1>10, <2>1 DEF StoreDataIntent, trackerVars
<1>11. CASE \E j \in Intents : CommitIntent(j)
  <2>1. PICK j : CommitIntent(j)
      BY <1>11
  <2>2. j # i /\ rows' = [rows EXCEPT ![j].committed = TRUE] /\ UNCHANGED <<lastSync, pendingIntents>>
      BY <2>1 DEF CommitIntent, trackerVars
  <2> QED
      BY <1>2, <1>5, <2>2
<1>12. CASE MarkIncluded \/ ConsistencyCheck
  <2>1. UNCHANGED <<lastSync, pendingIntents>>
      BY <1>12 DEF MarkIncluded, ConsistencyCheck, trackerVars
  <2>2. PICK ids : rows' = [j \in DOMAIN rows |->
                              IF j \in ids THEN [rows[j] EXCEPT !.finalized = TRUE, !.at = clock]
                              ELSE rows[j]]
      BY <1>12 DEF MarkIncluded, ConsistencyCheck, MarkFinalized
  <2>3. i \in ids => rows'[i] = [rows[i] EXCEPT !.finalized = TRUE, !.at = clock]
      BY <1>2, <2>2
  <2>4. i \notin ids
      BY <1>1, <1>2, <2>3 DEF Row
  <2>5. rows'[i] = rows[i]
      BY <1>2, <2>2, <2>4
  <2> QED
      BY <1>5, <2>1, <2>5
<1>13. CASE SetFinalizedBlockNumber
  <2>1. /\ UNCHANGED <<lastSync, pendingIntents>>
        /\ rows' = [j \in DOMAIN rows |->
                     IF j \in fin[1].ids THEN [rows[j] EXCEPT !.numbered = TRUE, !.at = clock]
                     ELSE rows[j]]
      BY <1>13 DEF SetFinalizedBlockNumber, trackerVars
  <2>2. i \in fin[1].ids => rows'[i] = [rows[i] EXCEPT !.numbered = TRUE, !.at = clock]
      BY <1>2, <2>1
  <2>3. i \in fin[1].ids => rows'[i].at = clock
      BY <1>2, <2>2 DEF Row
  <2>4. lastSync \in Nat /\ clock \in Nat /\ lastSync <= clock
      BY DEF FetchInv, WindowOK, FinalInv, RowsOK
  <2>5. i \notin fin[1].ids
    <3>1. rows'[i].at < lastSync
        BY <1>1, <2>1
    <3>2. \A a : a = clock => ~(a < lastSync)
        BY <2>4
    <3> QED
        BY <2>3, <3>1, <3>2
  <2>6. rows'[i] = rows[i]
      BY <1>2, <2>1, <2>5
  <2> QED
      BY <1>5, <2>1, <2>6
<1>14. CASE PersistAnchor
  <2>1. PICK old \in SUBSET Prunable :
          rows' = [j \in DOMAIN rows |->
                     IF j \in old THEN [rows[j] EXCEPT !.data = FALSE, !.at = clock] ELSE rows[j]]
      BY <1>14 DEF PersistAnchor
  <2>2. i \in old => rows'[i] = [rows[i] EXCEPT !.data = FALSE, !.at = clock] /\ rows[i].finalized
      BY <1>2, <2>1 DEF Prunable
  <2>3. i \notin old
      BY <1>1, <1>2, <2>2 DEF Row
  <2>4. rows'[i] = rows[i]
      BY <1>2, <2>1, <2>3
  <2> QED
      BY <1>5, <1>14, <2>4 DEF PersistAnchor, trackerVars
<1>15. CASE MarkCancelled
  <2>1. PICK j : rows' = [rows EXCEPT ![j].cancelled = TRUE, ![j].at = clock]
      BY <1>15 DEF MarkCancelled
  <2>2. j = i => rows'[i] = [rows[i] EXCEPT !.cancelled = TRUE, !.at = clock]
      BY <1>2, <2>1 DEF FinalInv, RowsOK
  <2>3. j # i
      BY <1>1, <1>2, <2>2 DEF Row
  <2>4. rows'[i] = rows[i]
      BY <1>2, <2>1, <2>3
  <2> QED
      BY <1>5, <1>15, <2>4 DEF MarkCancelled, trackerVars
<1>16. CASE \/ \E j \in Intents : CheckCancel(j)
            \/ Sender \/ (\E k \in 1 .. MaxSent : AdvanceAnchor(k)) \/ DropExcluded
            \/ DeleteInclusions \/ (\E ids \in SUBSET Intents : FindStale(ids))
            \/ Environment \/ RecordFails \/ FinalizeFails \/ DropFails \/ UNCHANGED vars
  <2>1. UNCHANGED rows
    <3>1. CASE Tick
        BY <3>1 DEF Tick
    <3> QED
        BY <1>16, <3>1, OtherRows DEF Environment
  <2>2. UNCHANGED lastSync
      BY <1>16, OtherFetches DEF Subscriber, Dropping
  <2>3. UNCHANGED pendingIntents
    <3>1. CASE Sender \/ RecordFails
        BY <3>1 DEF Sender, Pack, GiveUp, SendBlobTx, SendSelfTransfer, RecordInclusions,
                    RegisterSent, RecordFails, trackerVars
    <3>2. CASE (\E k \in 1 .. MaxSent : AdvanceAnchor(k)) \/ DropExcluded \/ DeleteInclusions
               \/ FinalizeFails
        BY <3>2 DEF AdvanceAnchor, DropExcluded, DeleteInclusions, FinalizeFails, trackerVars
    <3>3. CASE \/ \E j \in Intents : CheckCancel(j)
               \/ \E ids \in SUBSET Intents : FindStale(ids)
               \/ DropFails \/ UNCHANGED vars
        BY <3>3 DEF CheckCancel, FindStale, DropFails, vars, trackerVars
    <3>4. CASE Environment
        BY <3>4 DEF Environment, Mine, MineEmpty, Reorg, Tick, trackerVars
    <3> QED
        BY <1>16, <3>1, <3>2, <3>3, <3>4
  <2> QED
      BY <1>9, <2>1, <2>2, <2>3
<1> QED
    BY <1>r, <1>6, <1>7, <1>8, <1>10, <1>11, <1>12, <1>13, <1>14, <1>15, <1>16
       DEF Next, Api, Subscriber, Dropping, Faults

\* FetchesAllHolds: for any intents and instants, whatever is fetched, finalized, pruned,
\* cancelled, failed or restarted, a row that was visible is missed by no later fetch.
THEOREM FetchesAllHolds == Spec => FetchesAll
<1>1. FinalInv /\ CancelInv /\ FetchInv /\ [Next]_vars
        => [\A i \in Committed : Missed(i)' => Missed(i)]_vars
    BY FetchesAllStep
<1> QED
    BY <1>1, FinalInvHolds, CancelInvHolds, FetchInvHolds, PTL DEF Spec, FetchesAll

-----------------------------------------------------------------------------
(* What is packed is not in a block *)

\* Transactions are pending, held and mined at their nonces.
NoncesAgree ==
    /\ \A n \in DOMAIN onChain :
         /\ sent[onChain[n].tx].nonce = n
         /\ \A t \in onChain[n].held : sent[t].nonce = n
    /\ \A n \in DOMAIN pendingTxs : sent[pendingTxs[n]].nonce = n

\* What counts as pending
Taken == {t \in DOMAIN cache : ~Transfer(t) /\ cache[t] = "pending"}

\* What is on the chain and has the status pending was registered late.
PendingLate ==
    \A n \in DOMAIN onChain :
      onChain[n].tx \in Taken => n \in DOMAIN pendingTxs /\ pendingTxs[n] = onChain[n].tx

\* The nonce of what the sender is about to register is not that of another such one.
JobClear ==
    job # <<>> /\ job[1].step # "packed" =>
      \A n \in DOMAIN onChain :
        n = sent[job[1].tx].nonce /\ onChain[n].tx \in Taken => onChain[n].tx = job[1].tx

\* What finalization excludes had a nonce that is used under the anchor.
ExcludedOK ==
    fin # <<>> => \A t \in fin[1].excluded : sent[t].nonce \in 0 .. finalCount

\* While nothing fails, an intent counts each of its transactions among its uses: but for
\* one that is not recorded yet, when the intent is final, or when the nonce is.
UsesAll ==
    faults = 0 =>
      \A t \in Txs : \A i \in sent[t].ids :
        \/ t \in Range(Uses(i))
        \/ i \in Final
        \/ sent[t].nonce \in 0 .. finalCount
        \/ job # <<>> /\ job[1].step = "sent" /\ job[1].tx = t

RebundleInv == NoncesAgree /\ PendingLate /\ JobClear /\ ExcludedOK /\ UsesAll

\* MineFacts: what a block with t changes.
LEMMA MineFacts ==
    ASSUME FinalInv, NEW t \in Txs, NEW p, Mine(t, p)
    PROVE  /\ Len(onChain) \in Nat /\ DOMAIN onChain = 1 .. Len(onChain)
           /\ DOMAIN onChain' = 1 .. Len(onChain) + 1
           /\ sent[t].nonce = Len(onChain) + 1
           /\ \A n \in DOMAIN onChain : onChain'[n] = onChain[n]
           /\ onChain'[Len(onChain) + 1].tx = t
           /\ onChain'[Len(onChain) + 1].held
                \subseteq {pendingTxs[n] : n \in DOMAIN pendingTxs \intersect {Len(onChain) + 1}}
           /\ DOMAIN pendingTxs' = DOMAIN pendingTxs \ {Len(onChain) + 1}
           /\ \A n \in DOMAIN pendingTxs' : pendingTxs'[n] = pendingTxs[n]
           /\ \A u \in DOMAIN cache' : u # t => u \in DOMAIN cache /\ cache'[u] = cache[u]
           /\ ~Transfer(t) => cache'[t] = "included"
           /\ UNCHANGED <<sent, job>>
<1> DEFINE held == IF Transfer(t)
                   THEN {pendingTxs[n] : n \in DOMAIN pendingTxs \intersect {sent[t].nonce}}
                   ELSE {}
<1>1. /\ onChain' = Append(onChain, [tx |-> t, held |-> held])
      /\ pendingTxs' = [n \in DOMAIN pendingTxs \ {sent[t].nonce} |-> pendingTxs[n]]
      /\ sent[t].nonce = Len(onChain) + 1 /\ UNCHANGED <<sent, job>>
    BY DEF Mine, Without
<1>2. cache' = IF Transfer(t) THEN [u \in DOMAIN cache \ held |-> cache[u]]
               ELSE [u \in DOMAIN cache \union {t} |-> IF u \in {t} THEN "included" ELSE cache[u]]
    BY DEF Mine, Without, With
<1>3. held \subseteq {pendingTxs[n] : n \in DOMAIN pendingTxs \intersect {Len(onChain) + 1}}
    BY <1>1
<1> HIDE DEF held
<1>4. /\ Len(onChain) \in Nat /\ DOMAIN onChain = 1 .. Len(onChain)
      /\ DOMAIN onChain' = 1 .. Len(onChain) + 1
      /\ onChain'[Len(onChain) + 1] = [tx |-> t, held |-> held]
      /\ \A n \in DOMAIN onChain : onChain'[n] = onChain[n]
    BY <1>1, AppendSeq DEF FinalInv, ChainOK
<1>5. \A u \in DOMAIN cache' : u # t => u \in DOMAIN cache /\ cache'[u] = cache[u]
    BY <1>2
<1>6. ~Transfer(t) => cache'[t] = "included"
    BY <1>2
<1> QED
    BY <1>1, <1>3, <1>4, <1>5, <1>6

\* ReorgFacts: what a reorganisation back to k changes is at the nonces above k.
LEMMA ReorgFacts ==
    ASSUME FinalInv, IndexInv, NoncesAgree, NEW k, Reorg(k)
    PROVE  /\ k \in Nat /\ DOMAIN onChain' = 1 .. k /\ 1 .. k \subseteq DOMAIN onChain
           /\ \A n \in 1 .. k : onChain'[n] = onChain[n]
           /\ \A n \in 1 .. k : n \in DOMAIN pendingTxs =>
                n \in DOMAIN pendingTxs' /\ pendingTxs'[n] = pendingTxs[n]
           /\ \A n \in DOMAIN pendingTxs' : sent[pendingTxs'[n]].nonce = n
           /\ \A n \in 1 .. k : onChain[n].tx \in DOMAIN cache' =>
                onChain[n].tx \in DOMAIN cache /\ cache'[onChain[n].tx] = cache[onChain[n].tx]
           /\ UNCHANGED <<sent, job>>
<1> DEFINE back == UNION {IF Transfer(onChain[n].tx) THEN onChain[n].held ELSE {onChain[n].tx} :
                            n \in k + 1 .. Len(onChain)}
           K == {sent[t].nonce : t \in back}
<1>1. /\ pendingTxs' = [n \in DOMAIN pendingTxs \union K |->
                          IF n \in K THEN CHOOSE t \in back : sent[t].nonce = n ELSE pendingTxs[n]]
      /\ cache' = [t \in DOMAIN cache \union back |-> IF t \in back THEN "pending" ELSE cache[t]]
      /\ onChain' = SubSeq(onChain, 1, k) /\ k \in deepest .. Len(onChain) - 1
      /\ UNCHANGED <<sent, job>>
    BY DEF Reorg, With
<1>2. /\ Len(onChain) \in Nat /\ DOMAIN onChain = 1 .. Len(onChain) /\ deepest \in Nat
    BY AppendSeq DEF FinalInv, ChainOK, AnchorsOK
<1>3. k \in Nat /\ k \in 0 .. Len(onChain)
    BY <1>1, <1>2
<1>4. DOMAIN onChain' = 1 .. k /\ \A n \in 1 .. k : onChain'[n] = onChain[n]
    BY <1>1, <1>3, PrefixSeq DEF FinalInv, ChainOK
<1>5. \A t \in back : sent[t].nonce \in k + 1 .. Len(onChain)
  <2> SUFFICES ASSUME NEW t \in back PROVE sent[t].nonce \in k + 1 .. Len(onChain)
      OBVIOUS
  <2>1. PICK n \in k + 1 .. Len(onChain) :
          t \in IF Transfer(onChain[n].tx) THEN onChain[n].held ELSE {onChain[n].tx}
      OBVIOUS
  <2>2. n \in DOMAIN onChain
      BY <1>2, <1>3
  <2> QED
      BY <2>1, <2>2 DEF NoncesAgree
<1> HIDE DEF back
<1>6. \A n \in 1 .. k : n \notin K
    BY <1>3, <1>5
<1>7. \A n \in 1 .. k : n \in DOMAIN onChain /\ onChain[n].tx \notin back
  <2>1. \A n \in 1 .. k : n \in DOMAIN onChain /\ n \notin k + 1 .. Len(onChain)
      BY <1>2, <1>3
  <2> QED
      BY <1>5, <2>1 DEF NoncesAgree
<1>8. \A n \in DOMAIN pendingTxs' : sent[pendingTxs'[n]].nonce = n
  <2> SUFFICES ASSUME NEW n \in DOMAIN pendingTxs' PROVE sent[pendingTxs'[n]].nonce = n
      OBVIOUS
  <2>1. CASE n \in K
    <3>1. \E t \in back : sent[t].nonce = n
        BY <2>1
    <3>2. pendingTxs'[n] = CHOOSE t \in back : sent[t].nonce = n
        BY <1>1, <2>1
    <3> QED
        BY <3>1, <3>2
  <2>2. CASE n \notin K
      BY <1>1, <2>2 DEF NoncesAgree
  <2> QED
      BY <2>1, <2>2
<1> HIDE DEF K
<1> QED
    BY <1>1, <1>3, <1>4, <1>6, <1>7, <1>8

\* NoncesStep: no step puts a transaction where another's nonce is.
LEMMA NoncesStep ==
    ASSUME FinalInv, IndexInv, NoncesAgree, [Next]_vars
    PROVE  NoncesAgree'
<1>1. CASE UNCHANGED <<sent, onChain, pendingTxs>>
    BY <1>1 DEF NoncesAgree
<1>2. CASE SendBlobTx \/ SendSelfTransfer
  <2>1. UNCHANGED <<onChain, pendingTxs>>
      BY <1>2 DEF SendBlobTx, SendSelfTransfer, syncVars
  <2>2. \A t \in Txs : sent'[t] = sent[t]
      BY ChainStep DEF Grows
  <2>3. /\ \A n \in DOMAIN onChain : onChain[n].tx \in Txs /\ onChain[n].held \subseteq Txs
        /\ \A n \in DOMAIN pendingTxs : pendingTxs[n] \in Txs
      BY DEF FinalInv, ChainOK, IndexInv, KnownTxs
  <2> QED
      BY <2>1, <2>2, <2>3 DEF NoncesAgree
<1>3. CASE RegisterSent
  <2>1. /\ UNCHANGED <<sent, onChain>>
        /\ pendingTxs' = [n \in DOMAIN pendingTxs \union {sent[job[1].tx].nonce} |->
                            IF n \in {sent[job[1].tx].nonce} THEN job[1].tx ELSE pendingTxs[n]]
      BY <1>3 DEF RegisterSent, With, chainVars
  <2> QED
      BY <2>1 DEF NoncesAgree
<1>4. CASE \E t \in Txs, p \in Prices : Mine(t, p)
  <2>1. PICK t \in Txs, p \in Prices : Mine(t, p)
      BY <1>4
  <2> DEFINE L == Len(onChain)
  <2>2. /\ L \in Nat /\ DOMAIN onChain = 1 .. L /\ DOMAIN onChain' = 1 .. L + 1
        /\ sent[t].nonce = L + 1
        /\ \A n \in DOMAIN onChain : onChain'[n] = onChain[n]
        /\ onChain'[L + 1].tx = t
        /\ onChain'[L + 1].held
             \subseteq {pendingTxs[n] : n \in DOMAIN pendingTxs \intersect {L + 1}}
        /\ DOMAIN pendingTxs' = DOMAIN pendingTxs \ {L + 1}
        /\ \A n \in DOMAIN pendingTxs' : pendingTxs'[n] = pendingTxs[n]
        /\ UNCHANGED sent
      BY <2>1, MineFacts
  <2> HIDE DEF L
  <2>3. \A n \in DOMAIN onChain' : n \in DOMAIN onChain \/ n = L + 1
      BY <2>2
  <2>4. \A u \in onChain'[L + 1].held : sent[u].nonce = L + 1
      BY <2>2 DEF NoncesAgree
  <2> QED
      BY <2>2, <2>3, <2>4 DEF NoncesAgree
<1>5. CASE \E k \in 0 .. MaxSent : Reorg(k)
  <2>1. PICK k : Reorg(k)
      BY <1>5
  <2>2. /\ DOMAIN onChain' = 1 .. k /\ 1 .. k \subseteq DOMAIN onChain
        /\ \A n \in 1 .. k : onChain'[n] = onChain[n]
        /\ \A n \in DOMAIN pendingTxs' : sent[pendingTxs'[n]].nonce = n
        /\ UNCHANGED sent
      BY <2>1, ReorgFacts
  <2> QED
      BY <2>2 DEF NoncesAgree
<1>6. CASE Restart
  <2>1. /\ onChain' = [n \in DOMAIN onChain |-> [onChain[n] EXCEPT !.held = {}]]
        /\ pendingTxs' = << >> /\ UNCHANGED sent
      BY <1>6 DEF Restart
  <2>2. \A n \in DOMAIN onChain : onChain'[n] = [tx |-> onChain[n].tx, held |-> {}]
    <3> TAKE n \in DOMAIN onChain
    <3>1. onChain[n] = [tx |-> onChain[n].tx, held |-> onChain[n].held]
        BY DEF FinalInv, ChainOK
    <3>2. onChain'[n] = [onChain[n] EXCEPT !.held = {}]
        BY <2>1
    <3> QED
        BY <3>1, <3>2
  <2>3. \A n \in DOMAIN onChain : onChain'[n].tx = onChain[n].tx /\ onChain'[n].held = {}
    <3> TAKE n \in DOMAIN onChain
    <3>1. onChain'[n] = [tx |-> onChain[n].tx, held |-> {}]
        BY <2>2
    <3> QED
        BY ONLY <3>1
  <2>4. DOMAIN onChain' = DOMAIN onChain /\ DOMAIN pendingTxs' = {}
      BY <2>1
  <2> QED
      BY <2>1, <2>3, <2>4 DEF NoncesAgree
<1>7. CASE \E k \in 1 .. MaxSent : AdvanceAnchor(k)
    BY <1>1, <1>7 DEF AdvanceAnchor
<1> QED
    BY <1>1, <1>2, <1>3, <1>4, <1>5, <1>6, <1>7, OtherTxs
       DEF Next, Sender, Subscriber, Environment, Faults

\* The steps that change no status
LEMMA OtherStatuses ==
    ASSUME Api \/ Pack \/ GiveUp \/ SendBlobTx \/ SendSelfTransfer \/ RecordInclusions
             \/ RecordFails \/ Dropping \/ DropFails
             \/ FinalizeTxs \/ MarkIncluded \/ SetFinalizedBlockNumber \/ DropExcluded
             \/ DeleteInclusions \/ PersistAnchor \/ FinalizeFails
             \/ (\E p \in Prices : MineEmpty(p)) \/ Tick \/ ConsistencyCheck \/ UNCHANGED vars
    PROVE  UNCHANGED cache
<1>1. CASE Api \/ Dropping \/ DropFails \/ ConsistencyCheck
    BY <1>1 DEF Api, StoreDataIntent, CommitIntent, CheckCancel, SyncWithDb, Dropping, FindStale,
                MarkCancelled, RemovePending, DropFails, ConsistencyCheck, syncVars
<1>2. CASE Pack \/ GiveUp \/ SendBlobTx \/ SendSelfTransfer \/ RecordInclusions \/ RecordFails
    BY <1>2 DEF Pack, GiveUp, SendBlobTx, SendSelfTransfer, RecordInclusions, RecordFails, syncVars
<1>3. CASE FinalizeTxs \/ MarkIncluded \/ SetFinalizedBlockNumber \/ DropExcluded
             \/ DeleteInclusions \/ PersistAnchor \/ FinalizeFails
    BY <1>3 DEF FinalizeTxs, MarkIncluded, SetFinalizedBlockNumber, DropExcluded,
                DeleteInclusions, PersistAnchor, FinalizeFails, syncVars
<1>4. CASE (\E p \in Prices : MineEmpty(p)) \/ Tick \/ UNCHANGED vars
    BY <1>4 DEF MineEmpty, Tick, vars, syncVars
<1> QED
    BY <1>1, <1>2, <1>3, <1>4

\* TakenStep: only a registration and a restart make a transaction on the chain pending,
\* and only a registration replaces what is pending at a nonce on the chain.
LEMMA TakenStep ==
    ASSUME FinalInv, IndexInv, NoncesAgree, [Next]_vars, ~RegisterSent, ~Restart,
           NEW n \in DOMAIN onChain', onChain'[n].tx \in Taken'
    PROVE  /\ n \in DOMAIN onChain /\ onChain'[n].tx = onChain[n].tx
           /\ onChain[n].tx \in Taken
           /\ n \in DOMAIN pendingTxs => n \in DOMAIN pendingTxs' /\ pendingTxs'[n] = pendingTxs[n]
<1> DEFINE Goal == /\ n \in DOMAIN onChain /\ onChain'[n].tx = onChain[n].tx
                   /\ onChain[n].tx \in Taken
                   /\ n \in DOMAIN pendingTxs =>
                        n \in DOMAIN pendingTxs' /\ pendingTxs'[n] = pendingTxs[n]
<1>1. \A t \in Txs : sent'[t] = sent[t]
    BY ChainStep DEF Grows
<1>2. \A m \in DOMAIN onChain : onChain[m].tx \in Txs
    BY DEF FinalInv, ChainOK
<1>3. CASE UNCHANGED <<onChain, pendingTxs, cache>>
    BY <1>1, <1>2, <1>3 DEF Taken, Transfer
<1>4. CASE SendBlobTx \/ SendSelfTransfer
    BY <1>3, <1>4 DEF SendBlobTx, SendSelfTransfer, syncVars
<1>5. CASE \E t \in Txs, p \in Prices : Mine(t, p)
  <2>1. PICK t \in Txs, p \in Prices : Mine(t, p)
      BY <1>5
  <2> DEFINE L == Len(onChain)
  <2>2. /\ L \in Nat /\ DOMAIN onChain = 1 .. L /\ DOMAIN onChain' = 1 .. L + 1
        /\ sent[t].nonce = L + 1
        /\ \A m \in DOMAIN onChain : onChain'[m] = onChain[m]
        /\ onChain'[L + 1].tx = t
        /\ DOMAIN pendingTxs' = DOMAIN pendingTxs \ {L + 1}
        /\ \A m \in DOMAIN pendingTxs' : pendingTxs'[m] = pendingTxs[m]
        /\ \A u \in DOMAIN cache' : u # t => u \in DOMAIN cache /\ cache'[u] = cache[u]
        /\ ~Transfer(t) => cache'[t] = "included"
        /\ UNCHANGED sent
      BY <2>1, MineFacts
  <2> HIDE DEF L
  <2>3. n # L + 1
      BY <2>2 DEF Taken, Transfer
  <2>4. n \in DOMAIN onChain /\ onChain'[n].tx = onChain[n].tx
      BY <2>2, <2>3
  <2>5. onChain[n].tx # t
      BY <2>2, <2>3, <2>4 DEF NoncesAgree
  <2>6. onChain[n].tx \in Taken
      BY <2>2, <2>4, <2>5 DEF Taken, Transfer
  <2> QED
      BY <2>2, <2>3, <2>4, <2>6
<1>6. CASE \E k \in 0 .. MaxSent : Reorg(k)
  <2>1. PICK k : Reorg(k)
      BY <1>6
  <2>2. /\ DOMAIN onChain' = 1 .. k /\ 1 .. k \subseteq DOMAIN onChain
        /\ \A m \in 1 .. k : onChain'[m] = onChain[m]
        /\ \A m \in 1 .. k : m \in DOMAIN pendingTxs =>
             m \in DOMAIN pendingTxs' /\ pendingTxs'[m] = pendingTxs[m]
        /\ \A m \in 1 .. k : onChain[m].tx \in DOMAIN cache' =>
             onChain[m].tx \in DOMAIN cache /\ cache'[onChain[m].tx] = cache[onChain[m].tx]
        /\ UNCHANGED sent
      BY <2>1, ReorgFacts
  <2> QED
      BY <2>2 DEF Taken, Transfer
<1>7. CASE \E k \in 1 .. MaxSent : AdvanceAnchor(k)
  <2>1. PICK S : cache' = [t \in DOMAIN cache \ S |-> cache[t]]
      BY <1>7 DEF AdvanceAnchor, Without
  <2>2. UNCHANGED <<onChain, pendingTxs>>
      BY <1>7 DEF AdvanceAnchor
  <2> QED
      BY <1>1, <1>2, <2>1, <2>2 DEF Taken, Transfer
<1> QED
  <2> HIDE DEF Goal
  <2>1. Goal
      BY <1>3, <1>4, <1>5, <1>6, <1>7, OtherTxs, OtherStatuses
         DEF Next, Sender, Subscriber, Environment, Faults, Goal
  <2> QED
      BY <2>1 DEF Goal

\* LateStep: what is on the chain becomes pending by a late registration only, and is
\* then what is pending at its nonce.
LEMMA LateStep ==
    ASSUME FinalInv, IndexInv, NoncesAgree, PendingLate, JobClear, [Next]_vars
    PROVE  PendingLate'
<1> SUFFICES ASSUME NEW n \in DOMAIN onChain', onChain'[n].tx \in Taken'
             PROVE  n \in DOMAIN pendingTxs' /\ pendingTxs'[n] = onChain'[n].tx
    BY DEF PendingLate
<1>1. CASE RegisterSent
  <2> DEFINE t == job[1].tx
  <2>1. /\ job # <<>> /\ job[1].step = "recorded" /\ UNCHANGED <<sent, onChain>>
        /\ pendingTxs' = [m \in DOMAIN pendingTxs \union {sent[t].nonce} |->
                            IF m \in {sent[t].nonce} THEN t ELSE pendingTxs[m]]
        /\ cache' = [u \in DOMAIN cache \union {t} |-> IF u \in {t} THEN "pending" ELSE cache[u]]
      BY <1>1 DEF RegisterSent, With, chainVars
  <2>2. CASE onChain[n].tx = t
    <3>1. sent[t].nonce = n
        BY <2>1, <2>2 DEF NoncesAgree
    <3> QED
        BY <2>1, <2>2, <3>1
  <2>3. CASE onChain[n].tx # t
    <3>1. onChain[n].tx \in Taken
        BY <2>1, <2>3 DEF Taken, Transfer
    <3>2. n # sent[t].nonce
        BY <2>1, <2>3, <3>1 DEF JobClear
    <3> QED
        BY <2>1, <3>1, <3>2 DEF PendingLate
  <2> QED
      BY <2>2, <2>3
<1>2. CASE Restart
  <2>1. cache' = [t \in {onChain[m].tx : m \in savedCount + 1 .. Len(onChain)} |-> "included"]
      BY <1>2 DEF Restart
  <2>2. FALSE
      BY <2>1 DEF Taken
  <2> QED
      BY <2>2
<1>3. CASE ~RegisterSent /\ ~Restart
    BY <1>3, TakenStep DEF PendingLate
<1> QED
    BY <1>1, <1>2, <1>3

\* SendNonce: what is sent has a nonce that nothing on the chain has.
LEMMA SendNonce ==
    ASSUME FinalInv, NEW m, NEW ids, NEW fee, NEW step, Send(m, ids, fee, step)
    PROVE  job'[1].tx = Len(sent) + 1 /\ sent'[job'[1].tx].nonce \notin DOMAIN onChain
<1>1. sent'[Len(sent) + 1] = [nonce |-> m, fee |-> fee, ids |-> ids]
    BY AppendSeq DEF Send, FinalInv, SentOK
<1>2. job'[1].tx = Len(sent) + 1 /\ m > Len(onChain)
    BY DEF Send, Accepts
<1>3. Len(onChain) \in Nat /\ DOMAIN onChain = 1 .. Len(onChain)
    BY AppendSeq DEF FinalInv, ChainOK
<1>4. m \notin 1 .. Len(onChain)
    BY <1>2, <1>3
<1> QED
    BY <1>1, <1>2, <1>3, <1>4

\* ClearStep: the sender sends at nonces above the chain, and what is mined there before
\* it registers is not pending.
LEMMA ClearStep ==
    ASSUME FinalInv, IndexInv, NoncesAgree, JobClear, [Next]_vars
    PROVE  JobClear'
<1>0. \A t \in Txs : sent'[t] = sent[t]
    BY ChainStep DEF Grows
<1>1. CASE RegisterSent \/ Restart \/ RecordFails \/ GiveUp
  <2>1. job' = <<>>
      BY <1>1 DEF RegisterSent, Restart, RecordFails, GiveUp
  <2> QED
      BY <2>1 DEF JobClear
<1>2. CASE Pack
  <2>1. PICK ids : job' = <<[step |-> "packed", ids |-> ids, price |-> price, tx |-> 0]>>
      BY <1>2 DEF Pack
  <2>2. job'[1].step = "packed"
      BY <2>1
  <2> QED
      BY <2>2 DEF JobClear
<1>3. CASE SendBlobTx \/ SendSelfTransfer
  <2>1. sent'[job'[1].tx].nonce \notin DOMAIN onChain /\ UNCHANGED onChain
      BY <1>3, SendNonce DEF SendBlobTx, SendSelfTransfer
  <2> QED
      BY <2>1 DEF JobClear
<1>4. CASE RecordInclusions
  <2>1. /\ job # <<>> /\ job[1].step = "sent" /\ UNCHANGED <<sent, onChain, cache>>
        /\ job' = <<[job[1] EXCEPT !.step = "recorded"]>>
      BY <1>4 DEF RecordInclusions, chainVars, syncVars
  <2>2. job'[1].tx = job[1].tx
      BY <2>1 DEF FinalInv, JobOK
  <2> QED
      BY <2>1, <2>2 DEF JobClear, Taken, Transfer
<1>5. CASE UNCHANGED job /\ ~RegisterSent /\ ~Restart
  <2> SUFFICES ASSUME job # <<>>, job[1].step # "packed", NEW n \in DOMAIN onChain',
                      n = sent'[job[1].tx].nonce, onChain'[n].tx \in Taken'
               PROVE  onChain'[n].tx = job[1].tx
      BY <1>5 DEF JobClear
  <2>1. /\ n \in DOMAIN onChain /\ onChain'[n].tx = onChain[n].tx
        /\ onChain[n].tx \in Taken
      BY <1>5, TakenStep
  <2>2. job[1].tx \in Txs
      BY DEF FinalInv, JobOK
  <2> QED
      BY <1>0, <2>1, <2>2 DEF JobClear
<1> QED
    BY <1>1, <1>2, <1>3, <1>4, <1>5, OtherJobs DEF Next, Sender, Faults

\* ExcludedStep: what is excluded has lost its nonce for good.
LEMMA ExcludedStep ==
    ASSUME FinalInv, IndexInv, ExcludedOK, [Next]_vars
    PROVE  ExcludedOK'
<1>0. /\ finalCount \in Nat /\ finalCount' \in Nat
      /\ \A t \in Txs : sent'[t] = sent[t]
    BY ChainStep DEF FinalInv, AnchorsOK, Grows
<1>1. CASE ~Restart /\ (fin' # <<>> => fin # <<>> /\ fin'[1].excluded \subseteq fin[1].excluded)
  <2>1. finalCount <= finalCount'
      BY <1>1, FinalStays
  <2>2. 0 .. finalCount \subseteq 0 .. finalCount'
      BY <1>0, <2>1
  <2>3. fin # <<>> => fin[1].excluded \subseteq Txs
      BY DEF IndexInv, KnownTxs
  <2> QED
      BY <1>0, <1>1, <2>2, <2>3 DEF ExcludedOK
<1>2. CASE Restart
    BY <1>2 DEF Restart, ExcludedOK
<1>3. CASE \E k \in 1 .. MaxSent : AdvanceAnchor(k)
  <2>1. PICK k \in 1 .. MaxSent : AdvanceAnchor(k)
      BY <1>3
  <2>2. PICK blobs :
          /\ fin' = <<[step |-> "advanced", ids |-> {}, included |-> blobs, excluded |-> Losers(k)]>>
          /\ finalCount' = k /\ UNCHANGED sent
      BY <2>1 DEF AdvanceAnchor
  <2>3. fin'[1].excluded = Losers(k)
      BY <2>2
  <2>4. finalCount + 1 .. k \subseteq 0 .. k
      BY <1>0
  <2> QED
      BY <2>2, <2>3, <2>4 DEF ExcludedOK, Losers
<1>4. CASE FinalizeTxs \/ MarkIncluded \/ SetFinalizedBlockNumber \/ DropExcluded
             \/ DeleteInclusions \/ PersistAnchor \/ FinalizeFails
    BY <1>1, <1>2, <1>4, FinTxs
<1>5. CASE UNCHANGED fin
    BY <1>1, <1>2, <1>5
<1> QED
    BY <1>2, <1>3, <1>4, <1>5, OtherFins DEF Next, Subscriber, Faults

\* FaultsStep: only a failed call or a restart counts as a fault.
LEMMA FaultsStep ==
    ASSUME FinalInv, CancelInv, [Next]_vars, faults' = 0
    PROVE  faults = 0 /\ ~RecordFails /\ ~FinalizeFails /\ ~DropFails /\ ~Restart
<1>0. faults \in Nat
    BY DEF CancelInv
<1>1. ~RecordFails /\ ~FinalizeFails /\ ~DropFails /\ ~Restart
    BY <1>0 DEF RecordFails, FinalizeFails, DropFails, Restart, Fail
<1>2. faults' \in {faults, faults + 1}
  <2>1. CASE \/ SyncWithDb \/ \E i \in Intents : CheckCancel(i)
             \/ Dropping
      BY <2>1 DEF SyncWithDb, CheckCancel, Dropping, FindStale, MarkCancelled, RemovePending
  <2> QED
      BY <1>1, <2>1, NeutralSteps DEF Neutral, Next, Api, Faults
<1> QED
    BY <1>0, <1>1, <1>2

\* UsesStep: while nothing fails, an intent loses a use only when the intent is final or
\* the nonce of the transaction is.
LEMMA UsesStep ==
    ASSUME FinalInv, CancelInv, FetchInv, IndexInv, ExcludedOK, UsesAll, [Next]_vars
    PROVE  UsesAll'
<1> SUFFICES ASSUME faults' = 0, NEW t \in Txs', NEW i \in sent'[t].ids,
                    ~(i \in Final'), ~(sent'[t].nonce \in 0 .. finalCount'),
                    ~(job' # <<>> /\ job'[1].step = "sent" /\ job'[1].tx = t)
             PROVE  t \in Range(Uses(i)')
    BY DEF UsesAll
<1>1. faults = 0 /\ ~RecordFails /\ ~FinalizeFails /\ ~DropFails /\ ~Restart
    BY FaultsStep
<1>2. finalCount <= finalCount' /\ Final \subseteq Final'
    BY <1>1, FinalStays
<1>3. /\ finalCount \in Nat /\ finalCount' \in Nat
      /\ \A u \in Txs : sent'[u] = sent[u]
    BY ChainStep DEF FinalInv, AnchorsOK, Grows
<1>4. 0 .. finalCount \subseteq 0 .. finalCount'
    BY <1>2, <1>3
<1>5. ASSUME t \in Txs, ~(job # <<>> /\ job[1].step = "sent" /\ job[1].tx = t)
      PROVE  t \in Range(Uses(i))
  <2>1. i \in sent[t].ids /\ i \notin Final /\ sent[t].nonce \notin 0 .. finalCount
      BY <1>2, <1>3, <1>4, <1>5
  <2> QED
      BY <1>1, <1>5, <2>1 DEF UsesAll
<1>6. CASE UNCHANGED <<sent, job, cacheInclusions>>
    BY <1>5, <1>6 DEF Uses, Txs
<1>7. CASE Pack \/ GiveUp \/ RegisterSent
  <2>1. ~(job # <<>> /\ job[1].step = "sent") /\ UNCHANGED <<sent, cacheInclusions>>
      BY <1>7 DEF Pack, GiveUp, RegisterSent, trackerVars, chainVars
  <2> QED
      BY <1>5, <2>1 DEF Uses, Txs
<1>8. CASE SendBlobTx \/ SendSelfTransfer
  <2>1. PICK m, ids, fee, step :
          /\ Send(m, ids, fee, step)
          /\ step = "sent" \/ ids = {}
          /\ ~(job # <<>> /\ job[1].step = "sent") /\ UNCHANGED cacheInclusions
      BY <1>8 DEF SendBlobTx, SendSelfTransfer, trackerVars
  <2>2. /\ DOMAIN sent' = 1 .. Len(sent) + 1 /\ DOMAIN sent = 1 .. Len(sent)
        /\ sent'[Len(sent) + 1] = [nonce |-> m, fee |-> fee, ids |-> ids]
        /\ Len(sent) \in Nat
      BY <2>1, AppendSeq DEF Send, FinalInv, SentOK
  <2>3. job' # <<>> /\ job'[1].step = step /\ job'[1].tx = Len(sent) + 1
      BY <2>1 DEF Send
  <2>4. t # Len(sent) + 1
      BY <2>1, <2>2, <2>3
  <2>5. t \in Txs
      BY <2>2, <2>4 DEF Txs
  <2> QED
      BY <1>5, <2>1, <2>5 DEF Uses
<1>9. CASE RecordInclusions
  <2> DEFINE ids == job[1].ids
  <2>1. /\ job # <<>> /\ job[1].step = "sent" /\ UNCHANGED sent
        /\ cacheInclusions' = [k \in DOMAIN cacheInclusions \union ids |->
                                 IF k \in ids THEN Append(Uses(k), job[1].tx)
                                 ELSE cacheInclusions[k]]
      BY <1>9 DEF RecordInclusions, With, chainVars
  <2>2. job[1].ids = sent[job[1].tx].ids
      BY <2>1 DEF FinalInv, JobOK
  <2>3. t \in Txs
      BY <2>1 DEF Txs
  <2>4. Uses(i) \in Seq(Nat)
      BY UsesOf DEF IndexInv
  <2>5. CASE i \in ids
    <3> HIDE DEF ids
    <3>1. Uses(i)' = Append(Uses(i), job[1].tx)
        BY <2>1, <2>5 DEF Uses
    <3>2. \A u : u \in Range(Uses(i)) \/ u = job[1].tx => u \in Range(Append(Uses(i), job[1].tx))
      <4>1. job[1].tx \in Nat
          BY <2>1, SentNumbers DEF FinalInv, JobOK
      <4>2. Range(Append(Uses(i), job[1].tx)) = Range(Uses(i)) \union {job[1].tx}
          BY <2>4, <4>1, Pushed
      <4> QED
          BY <4>2
    <3> QED
        BY <1>5, <2>3, <3>1, <3>2
  <2>6. CASE i \notin ids
    <3>1. t # job[1].tx
        BY <2>1, <2>2, <2>6
    <3>2. Uses(i)' = Uses(i)
        BY <2>1, <2>6 DEF Uses
    <3> QED
        BY <1>5, <2>3, <3>1, <3>2
  <2> QED
      BY <2>5, <2>6
<1>10. CASE FinalizeTxs
  <2> DEFINE known == fin[1].included \intersect DOMAIN includedIntents
             ids   == UNION {includedIntents[u] : u \in known}
  <2>1. /\ fin # <<>> /\ fin[1].step = "advanced"
        /\ cacheInclusions' = [k \in DOMAIN cacheInclusions \ ids |-> cacheInclusions[k]]
        /\ UNCHANGED <<sent, job, onChain, finalCount>>
      BY <1>10 DEF FinalizeTxs, Without, chainVars, syncVars
  <2>2. ids \subseteq Final
    <3> SUFFICES ASSUME NEW j \in ids PROVE j \in Final
        OBVIOUS
    <3>1. PICK u \in known : j \in includedIntents[u]
        OBVIOUS
    <3>2. j \in sent[u].ids
        BY <3>1 DEF FinalInv, InclusionsOK
    <3>3. PICK n \in 1 .. finalCount : onChain[n].tx = u
        BY <2>1 DEF FetchInv, IncludedOK
    <3> QED
        BY <3>2, <3>3 DEF Final
  <2> HIDE DEF ids
  <2>3. i \notin ids
      BY <1>2, <2>2
  <2>4. Uses(i)' = Uses(i)
      BY <2>1, <2>3 DEF Uses
  <2> QED
      BY <1>5, <2>1, <2>4 DEF Txs
<1>11. CASE DropExcluded
  <2> DEFINE known == fin[1].excluded \intersect DOMAIN includedIntents
             mine(j) == {u \in known : j \in includedIntents[u]}
             kept(j) == Retain(Uses(j), Txs \ mine(j))
  <2>1. /\ fin # <<>> /\ UNCHANGED <<sent, job, finalCount>>
        /\ cacheInclusions' = [j \in {k \in DOMAIN cacheInclusions : kept(k) # <<>>} |-> kept(j)]
      BY <1>11 DEF DropExcluded, chainVars, syncVars
  <2>2. t \in Txs /\ t \in Range(Uses(i))
      BY <1>5, <2>1 DEF Txs
  <2>3. t \notin fin[1].excluded
      BY <2>1 DEF ExcludedOK
  <2>4. Uses(i) \in Seq(Nat)
      BY UsesOf DEF IndexInv
  <2>5. Range(kept(i)) = Range(Uses(i)) \intersect (Txs \ mine(i))
      BY <2>4, RetainKeeps
  <2>6. t \in Range(kept(i))
      BY <2>2, <2>3, <2>5
  <2>7. i \in DOMAIN cacheInclusions
      BY <2>2 DEF Uses, Range
  <2> HIDE DEF kept
  <2>8. kept(i) # <<>>
      BY <2>6 DEF Range
  <2>9. Uses(i)' = kept(i)
      BY <2>1, <2>7, <2>8 DEF Uses
  <2> QED
      BY <2>6, <2>9
<1>12. CASE DeleteInclusions
    BY <1>6, <1>12 DEF DeleteInclusions, trackerVars, chainVars
<1>13. CASE Api \/ (\E k \in 1 .. MaxSent : AdvanceAnchor(k)) \/ MarkIncluded
             \/ SetFinalizedBlockNumber \/ PersistAnchor \/ Dropping \/ Environment
             \/ ConsistencyCheck \/ UNCHANGED vars
  <2>1. UNCHANGED <<job, cacheInclusions>>
      BY <1>13, OtherJobs, OtherUses DEF Subscriber
  <2>2. UNCHANGED sent
    <3>1. CASE Environment \/ (\E k \in 1 .. MaxSent : AdvanceAnchor(k)) \/ PersistAnchor
        BY <3>1 DEF Environment, Mine, MineEmpty, Reorg, Tick, AdvanceAnchor, PersistAnchor, chainVars
    <3> QED
        BY <1>13, <3>1, OthersGrow
  <2> QED
      BY <1>6, <2>1, <2>2
<1> QED
    BY <1>1, <1>7, <1>8, <1>9, <1>10, <1>11, <1>12, <1>13 DEF Next, Sender, Subscriber, Faults

\* RebundleInit: before the first step nothing is sent, pending or mined.
LEMMA RebundleInit == Init => RebundleInv
<1>1. Init => DOMAIN onChain = {} /\ DOMAIN pendingTxs = {} /\ Txs = {}
    BY DEF Init, Txs
<1> QED
    BY <1>1 DEF Init, RebundleInv, NoncesAgree, PendingLate, JobClear, ExcludedOK, UsesAll

\* RebundleStep: every step keeps RebundleInv.
LEMMA RebundleStep ==
    FinalInv /\ CancelInv /\ FetchInv /\ IndexInv /\ RebundleInv /\ [Next]_vars => RebundleInv'
    BY NoncesStep, LateStep, ClearStep, ExcludedStep, UsesStep DEF RebundleInv

\* RebundleInvHolds: RebundleInv is an invariant.
THEOREM RebundleInvHolds == Spec => []RebundleInv
    BY RebundleInit, RebundleStep, FinalInvHolds, CancelInvHolds, FetchInvHolds, IndexInvHolds,
       PTL DEF Spec

\* NotRebundledStep: an intent in a block above the anchor counts that block's transaction
\* among its uses, and is offered only while its last use has the status pending.
LEMMA NotRebundledStep ==
    ASSUME FinalInv, CancelInv, IndexInv, RebundleInv, [Next]_vars,
           NEW k \in DOMAIN job', job = <<>>, job'[k].step = "packed", faults = 0,
           NEW i \in (job'[k].ids \intersect InBlocks) \ Final
    PROVE  \/ Last(Uses(i)) \in RegisteredLate
           \/ \A n \in DOMAIN onChain : onChain[n].tx # Last(Uses(i))
<1>1. CASE ~Pack
  <2>1. CASE SendSelfTransfer
    <3>1. PICK fee, n : job' = <<[step |-> "recorded", ids |-> {}, price |-> fee, tx |-> n]>>
        BY <2>1 DEF SendSelfTransfer, Send
    <3>2. k = 1 /\ job'[1].step = "recorded"
        BY <3>1
    <3> QED
        BY <3>2
  <2>2. CASE UNCHANGED job
    <3>1. DOMAIN job' = {}
        BY <2>2
    <3> QED
        BY <3>1
  <2>3. CASE Restart
    <3>1. DOMAIN job' = {}
        BY <2>3 DEF Restart
    <3> QED
        BY <3>1
  <2> QED
      BY <1>1, <2>1, <2>2, <2>3, OtherJobs DEF Next, Sender, Faults, GiveUp, SendBlobTx,
         RecordInclusions, RegisterSent, RecordFails
<1>2. CASE Pack
  <2>1. PICK ids \in SUBSET Available :
          job' = <<[step |-> "packed", ids |-> ids, price |-> price, tx |-> 0]>>
      BY <1>2 DEF Pack
  <2>2. k = 1 /\ job'[1].ids = ids
      BY <2>1
  <2>3. i \in Available
      BY <2>2
  <2>4. PICK m \in finalCount + 1 .. Len(onChain) : i \in sent[onChain[m].tx].ids
      BY DEF InBlocks
  <2>5. /\ Len(onChain) \in Nat /\ DOMAIN onChain = 1 .. Len(onChain) /\ finalCount \in Nat
      BY AppendSeq DEF FinalInv, ChainOK, AnchorsOK
  <2>6. m \in DOMAIN onChain /\ m \notin 0 .. finalCount
      BY <2>5
  <2>7. sent[onChain[m].tx].nonce = m /\ onChain[m].tx \in Txs
      BY <2>6 DEF RebundleInv, NoncesAgree, FinalInv, ChainOK
  <2>8. onChain[m].tx \in Range(Uses(i))
      BY <2>4, <2>6, <2>7 DEF RebundleInv, UsesAll
  <2>9. Uses(i) # <<>>
      BY <2>8 DEF Range
  <2> DEFINE u == Last(Uses(i))
  <2>10. u \in DOMAIN cache /\ cache[u] = "pending"
      BY <2>3, <2>9 DEF Available
  <2>11. u \in Range(Uses(i))
    <3>1. Uses(i) \in Seq(Nat)
        BY UsesOf DEF IndexInv
    <3>2. Len(Uses(i)) \in DOMAIN Uses(i)
        BY <2>9, <3>1
    <3> QED
        BY <3>2 DEF Last, Range
  <2>12. i \in sent[u].ids
      BY <2>11, UsesOf DEF IndexInv, FinalInv, InclusionsOK
  <2> HIDE DEF u
  <2>13. ASSUME NEW n \in DOMAIN onChain, onChain[n].tx = u PROVE u \in RegisteredLate
    <3>1. u \in Taken
        BY <2>10, <2>12 DEF Taken, Transfer
    <3>2. n \in DOMAIN pendingTxs /\ pendingTxs[n] = u
        BY <2>13, <3>1 DEF RebundleInv, PendingLate
    <3>3. n <= Len(onChain)
        BY <2>5
    <3> QED
        BY <3>2, <3>3 DEF RegisteredLate
  <2> QED
      BY <2>13 DEF u
<1> QED
    BY <1>1, <1>2

\* NotRebundledHolds: for any intents, prices and reorganisations, while nothing fails, what
\* is packed has not had its last use mined, unless that was registered late.
THEOREM NotRebundledHolds == Spec => NotRebundled
<1>1. FinalInv /\ CancelInv /\ IndexInv /\ RebundleInv /\ [Next]_vars
        => [\A k \in DOMAIN job' :
              job = <<>> /\ job'[k].step = "packed" /\ faults = 0 =>
                \A i \in (job'[k].ids \intersect InBlocks) \ Final :
                  Last(Uses(i)) \in RegisteredLate
                  \/ \A n \in DOMAIN onChain : onChain[n].tx # Last(Uses(i))]_vars
    BY NotRebundledStep
<1> QED
    BY <1>1, FinalInvHolds, CancelInvHolds, IndexInvHolds, RebundleInvHolds, PTL
       DEF Spec, NotRebundled
-----------------------------------------------------------------------------
(* What the owner is told *)

SentNonces == \A t \in Txs : sent[t].nonce \in Nat

\* The sender and the subscriber do one thing at a time.
OneAtATime ==
    /\ job = <<>> \/ DOMAIN job = {1}
    /\ fin = <<>> \/ DOMAIN fin = {1}

ToldInv == SentNonces /\ OneAtATime

\* LeastOf: the minimum of a non-empty set of numbers is an element of it.
LEMMA LeastOf == ASSUME NEW S, S \subseteq Nat, S # {} PROVE Min(S) \in S
<1>1. \E m \in S : \A k \in S : m <= k
    BY LeastNumber
<1> QED
    BY <1>1 DEF Min

\* SendNumbers: what is sent adds its nonce.
LEMMA SendNumbers ==
    ASSUME FinalInv, SentNonces, NEW m \in Nat, NEW ids, NEW fee, NEW step,
           Send(m, ids, fee, step)
    PROVE  SentNonces'
<1>1. /\ Len(sent) \in Nat /\ DOMAIN sent = 1 .. Len(sent) /\ DOMAIN sent' = 1 .. Len(sent) + 1
      /\ sent'[Len(sent) + 1] = [nonce |-> m, fee |-> fee, ids |-> ids]
      /\ \A t \in DOMAIN sent : sent'[t] = sent[t]
    BY AppendSeq DEF Send, FinalInv, SentOK
<1>2. \A t \in DOMAIN sent' : t \in DOMAIN sent \/ t = Len(sent) + 1
    BY <1>1
<1>3. sent'[Len(sent) + 1].nonce = m
    BY <1>1
<1> QED
    BY <1>1, <1>2, <1>3 DEF SentNonces, Txs

\* SentNoncesStep: what the sender sends is at the first nonce that is free or underpriced.
LEMMA SentNoncesStep ==
    ASSUME FinalInv, IndexInv, RebundleInv, SentNonces, [Next]_vars
    PROVE  SentNonces'
<1>1. CASE UNCHANGED sent
    BY <1>1 DEF SentNonces, Txs
<1>2. CASE SendBlobTx
  <2>1. Len(onChain) \in Nat
      BY AppendSeq DEF FinalInv, ChainOK
  <2>2. UsableNonces \subseteq Nat
      BY <2>1 DEF UsableNonces
  <2>3. NextNonce \in Nat
      BY <1>2, <2>2, LeastOf DEF SendBlobTx, NextNonce
  <2>4. Send(NextNonce, job[1].ids, NextFee, "sent")
      BY <1>2 DEF SendBlobTx
  <2> QED
      BY <2>3, <2>4, SendNumbers
<1>3. CASE SendSelfTransfer
  <2>1. DOMAIN pendingTxs \subseteq Nat
      BY DEF RebundleInv, NoncesAgree, IndexInv, KnownTxs, SentNonces
  <2>2. Min(DOMAIN pendingTxs) \in Nat
      BY <1>3, <2>1, LeastOf DEF SendSelfTransfer
  <2>3. PICK fee : Send(Min(DOMAIN pendingTxs), {}, fee, "recorded")
      BY <1>3 DEF SendSelfTransfer
  <2> QED
      BY <2>2, <2>3, SendNumbers
<1>4. CASE \/ RegisterSent \/ Restart
           \/ \E k \in 1 .. MaxSent : AdvanceAnchor(k)
           \/ \E t \in Txs, p \in Prices : Mine(t, p)
           \/ \E k \in 0 .. MaxSent : Reorg(k)
    BY <1>1, <1>4 DEF RegisterSent, Restart, AdvanceAnchor, Mine, Reorg, chainVars
<1> QED
    BY <1>1, <1>2, <1>3, <1>4, OtherTxs DEF Next, Sender, Subscriber, Environment, Faults

\* OneStep: every step leaves the sender and the subscriber with one thing to do at most.
LEMMA OneStep == ASSUME OneAtATime, [Next]_vars PROVE OneAtATime'
<1>1. job' = <<>> \/ UNCHANGED job \/ \E x : job' = <<x>>
  <2>1. CASE Sender
      BY <2>1 DEF Sender, Pack, GiveUp, SendBlobTx, SendSelfTransfer, Send, RecordInclusions,
                  RegisterSent
  <2>2. CASE RecordFails \/ Restart
      BY <2>2 DEF RecordFails, Restart
  <2> QED
      BY <2>1, <2>2, OtherJobs DEF Next, Faults
<1>2. fin' = <<>> \/ UNCHANGED fin \/ \E x : fin' = <<x>>
  <2>1. CASE Subscriber
      BY <2>1 DEF Subscriber, AdvanceAnchor, FinalizeTxs, MarkIncluded, SetFinalizedBlockNumber,
                  DropExcluded, DeleteInclusions, PersistAnchor
  <2>2. CASE FinalizeFails \/ Restart
      BY <2>2 DEF FinalizeFails, Restart
  <2> QED
      BY <2>1, <2>2, OtherFins DEF Next, Faults
<1>3. \A x : DOMAIN <<x>> = {1}
    OBVIOUS
<1> QED
    BY <1>1, <1>2, <1>3 DEF OneAtATime

\* ToldInvHolds: ToldInv is an invariant.
THEOREM ToldInvHolds == Spec => []ToldInv
<1>1. Init => ToldInv
  <2>1. Init => Txs = {}
      BY DEF Init, Txs
  <2> QED
      BY <2>1 DEF Init, ToldInv, SentNonces, OneAtATime
<1>2. FinalInv /\ IndexInv /\ RebundleInv /\ ToldInv /\ [Next]_vars => ToldInv'
    BY SentNoncesStep, OneStep DEF ToldInv
<1> QED
    BY <1>1, <1>2, FinalInvHolds, IndexInvHolds, RebundleInvHolds, PTL DEF Spec

UntoldHaveNoRow == \A r \in Untold : r \notin inclusions

\* RowTells: the row of a transaction in a block tells of it, when no other hides it: it
\* is the one that fetch_data_intent_inclusion returns.
LEMMA RowTells == FinalInv /\ ToldInv => UntoldHaveNoRow
<1> SUFFICES ASSUME FinalInv, ToldInv, NEW r \in Untold, r \in inclusions
             PROVE  FALSE
    BY DEF UntoldHaveNoRow
<1> DEFINE i == r[1]
           t == r[2]
           Before(u, v) == \/ sent[u].nonce < sent[v].nonce
                           \/ sent[u].nonce = sent[v].nonce /\ u <= v
           T == TxsOf(i)
<1>1. /\ t \in {onChain[n].tx : n \in DOMAIN onChain}
      /\ ~IsInBlock(StatusById(i)) /\ ~Cancelled(i) /\ ~Hidden(i, t)
    BY DEF Untold
<1>2. t \in T
    BY DEF TxsOf
<1>3. \A u \in T : u \in Txs /\ u \in Nat /\ sent[u].nonce \in Nat /\ i \in sent[u].ids
  <2>1. \A u \in T : u \in Txs /\ i \in sent[u].ids
      BY DEF TxsOf, FinalInv, InclusionsOK
  <2> QED
      BY <2>1, SentNumbers DEF ToldInv, SentNonces
<1>4. \A u \in T : Before(u, t)
  <2> TAKE u \in T
  <2>1. CASE u = t
      BY <1>3, <2>1
  <2>2. CASE u # t
    <3>1. /\ ~(sent[u].nonce = sent[t].nonce /\ u > t)
          /\ ~(sent[u].nonce > sent[t].nonce)
        BY <1>1, <1>3, <2>2 DEF Hidden
    <3> QED
        BY <1>2, <1>3, <3>1
  <2> QED
      BY <2>1, <2>2
<1>5. LastInclusion(i) = t
  <2>1. LastInclusion(i) = CHOOSE v \in T : \A u \in T : Before(u, v)
      BY DEF LastInclusion
  <2>2. PICK v \in T : v = LastInclusion(i) /\ \A u \in T : Before(u, v)
    <3> HIDE DEF T, Before, i, t
    <3> QED
        BY <1>2, <1>4, <2>1
  <2>3. Before(t, v) /\ Before(v, t)
    <3> HIDE DEF T, Before, i, t
    <3> QED
        BY <1>2, <1>4, <2>2
  <2> QED
      BY <1>2, <1>3, <2>2, <2>3
<1>6. InBlock(t)
    BY <1>1 DEF InBlock
<1>7. StatusById(i).status = "InConfirmedTx"
  <2>1. TxsOf(i) # {}
      BY <1>2
  <2> HIDE DEF i, t, T
  <2>2. StatusById(i) = [status |-> "InConfirmedTx", tx_hash |-> t]
      BY <1>1, <1>5, <1>6, <2>1 DEF StatusById
  <2> QED
      BY <2>2
<1> QED
    BY <1>1, <1>7 DEF IsInBlock

\* ToldStep: a row is only lost with an excluded transaction, and what was sent is recorded
\* with all of its rows.
LEMMA ToldStep ==
    ASSUME FinalInv, CancelInv, ToldInv, UntoldHaveNoRow', [Next]_vars, faults' = 0,
           NEW r \in Untold'
    PROVE  \/ \E k \in DOMAIN fin : r[2] \in fin[k].excluded
           \/ Recorded(r[2]) /\ r \notin inclusions
<1>1. ~RecordFails /\ ~Restart /\ r \notin inclusions'
    BY FaultsStep DEF UntoldHaveNoRow
<1>2. r = <<r[1], r[2]>> /\ r[1] \in sent'[r[2]].ids /\ Recorded(r[2])'
    BY DEF Untold
<1>3. CASE r \in inclusions
  <2>1. DeleteInclusions
    <3>1. CASE RecordInclusions
        BY <1>1, <1>3, <3>1 DEF RecordInclusions
    <3>2. CASE FinalizeTxs \/ DropExcluded
        BY <1>1, <1>3, <3>2 DEF FinalizeTxs, DropExcluded, dbVars
    <3> QED
        BY <1>1, <1>3, <3>1, <3>2, OtherInclusions DEF Next, Sender, Subscriber, Faults
  <2>2. PICK t \in fin[1].excluded : inclusions' = {q \in inclusions : q[2] # t}
      BY <2>1 DEF DeleteInclusions
  <2>3. r[2] = t
      BY <1>1, <1>3, <2>2
  <2>4. 1 \in DOMAIN fin
      BY <2>1 DEF DeleteInclusions, ToldInv, OneAtATime
  <2> QED
      BY <2>3, <2>4
<1>4. CASE r \notin inclusions /\ ~Recorded(r[2])
  <2>1. 1 \in DOMAIN job /\ job # <<>> /\ job[1].step = "sent" /\ job[1].tx = r[2]
    <3>1. PICK k \in DOMAIN job : job[k].step = "sent" /\ job[k].tx = r[2]
        BY <1>4 DEF Recorded
    <3>2. job # <<>>
        BY <3>1
    <3> QED
        BY <3>1, <3>2 DEF ToldInv, OneAtATime
  <2>2. job' # job
      BY <1>2, <2>1 DEF Recorded
  <2>3. RecordInclusions
      BY <1>1, <2>1, <2>2, OtherJobs DEF Next, Sender, Faults, Pack, GiveUp, SendBlobTx,
         SendSelfTransfer, RegisterSent
  <2>4. inclusions' = inclusions \union (job[1].ids \X {job[1].tx}) /\ UNCHANGED sent
      BY <2>3 DEF RecordInclusions, chainVars
  <2>5. job[1].ids = sent[job[1].tx].ids
      BY <2>1 DEF FinalInv, JobOK
  <2>6. <<r[1], r[2]>> \in job[1].ids \X {job[1].tx}
      BY <1>2, <2>1, <2>4, <2>5
  <2> QED
      BY <1>1, <1>2, <2>4, <2>6
<1> QED
    BY <1>3, <1>4

\* PublishedIsToldHolds: for any intents, prices and reorganisations, while nothing fails,
\* the owner of a published intent is told so from its record on, unless its transaction
\* is excluded or was.
THEOREM PublishedIsToldHolds == Spec => PublishedIsTold
<1>1. FinalInv /\ CancelInv /\ ToldInv /\ UntoldHaveNoRow' /\ [Next]_vars
        => [faults' = 0 =>
              \A r \in Untold' \ Untold :
                \/ \E k \in DOMAIN fin : r[2] \in fin[k].excluded
                \/ Recorded(r[2]) /\ r \notin inclusions]_vars
    BY ToldStep
<1> QED
    BY <1>1, RowTells, FinalInvHolds, CancelInvHolds, ToldInvHolds, PTL
       DEF Spec, PublishedIsTold
================================================================================
