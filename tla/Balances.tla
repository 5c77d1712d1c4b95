------------------------------- MODULE Balances -------------------------------
(***************************************************************************)
(* The users' balances that BlockSync derives: the finalized balances of   *)
(* its anchor, the deltas of the unfinalized chain and the cost of what is *)
(* pending.  A participation costs the base fee plus the blob price for    *)
(* one unit of data (BlobTxSummary::cost_to_participant; the tip, which is *)
(* charged alike before and after inclusion, is left out), and a top-up is *)
(* worth TopupValue.                                                       *)
(***************************************************************************)
EXTENDS BlockSync

CONSTANT TopupValue

ASSUME BalancesAssumption == TopupValue \in Nat

Count(u, list) == Cardinality({i \in DOMAIN list : list[i] = u})

\* cost_to_participant at a block's price, or at the transaction's own fee
Cost(t, u, price) == Count(u, t.parts) * (price.base + price.blob)

\* BlockSummary::balance_delta
BalanceDelta(h, u) ==
    Count(u, blocks[h].topups) * TopupValue
      - MapThenSumSet(LAMBDA t : Cost(t, u, blocks[h].price), BlobTxs(h))

\* How many times get_all_participants lists u: once per top-up and once per
\* participation.
Mentions(h, u) ==
    Count(u, blocks[h].topups) + MapThenSumSet(LAMBDA t : Count(u, t.parts), BlobTxs(h))

\* apply_finalized_block adds the block's delta once for each entry of that list
FinalizedBalance(u) ==
    MapThenSumSet(LAMBDA i : Mentions(anchor.applied[i], u) * BalanceDelta(anchor.applied[i], u),
                  DOMAIN anchor.applied)

BalanceWithPending(u) ==
    FinalizedBalance(u)
      + MapThenSumSet(LAMBDA i : BalanceDelta(chain[i].hash, u), DOMAIN chain)
      - MapThenSumSet(LAMBDA t : Cost(t, u, t.fee), pending)

-----------------------------------------------------------------------------

\* What u has paid in and used up on the chain that ends in h.
NetPaid(h, u) == MapThenSumSet(LAMBDA g : BalanceDelta(g, u), Range(Path(h)))

PendingCost(u) == MapThenSumSet(LAMBDA t : Cost(t, u, t.fee), pending)

\* ExactWithoutRepeats: a balance is the sum of the deltas of all the blocks up to the
\* head, less the cost of what is pending (sync.rs: "Given a sequence of head blocks,
\* it allows to query: - the balance delta of users"), through reorganisations,
\* finalizations, failed writes and restarts, for a user whom no finalized block
\* mentions twice.  (Of one it does, apply_finalized_block adds the block's delta once
\* per mention.)
ExactWithoutRepeats ==
    \A u \in Users :
      (\A h \in Range(anchor.applied) : Mentions(h, u) <= 1) =>
         BalanceWithPending(u) = NetPaid(HeadHash, u) - PendingCost(u)

\* InclusionNeverCharges: when a step extends the head chain with blocks whose blob
\* transactions were all pending, nobody's balance falls: a pending transaction is
\* charged at least what its inclusion costs, and only until it is included.
InclusionNeverCharges ==
    [][/\ anchor' = anchor /\ Len(chain') > Len(chain)
       /\ IsPrefix(chain, chain')
       /\ \A i \in Len(chain) + 1 .. Len(chain') :
            BlobTxs(chain'[i].hash) \subseteq pending
       => \A u \in Users : BalanceWithPending(u)' >= BalanceWithPending(u)]_vars

\* ReorgNeverCredits: a reorganisation to blocks with none of our transactions gives
\* a user no more than their new top-ups: what it drops is charged again, at a price
\* no lower than the dropped block's.  (A transaction that was registered only after
\* its block was synced is charged twice until that block is dropped, so the step is
\* looked at where no pending nonce is used on the chain.)
ReorgNeverCredits ==
    [][LET fresh == {chain'[i].hash : i \in DOMAIN chain'} \ Known
       IN  /\ anchor' = anchor /\ ~IsPrefix(chain, chain') /\ phase # "down"
           /\ \A h \in fresh : blocks[h].txs = {}
           /\ Slots(pending) \intersect Slots(TxsUpTo(HeadHash)) = {}
           => \A u \in Users :
                BalanceWithPending(u)' <= BalanceWithPending(u)
                  + TopupValue * MapThenSumSet(LAMBDA h : Count(u, blocks[h].topups), fresh)]_vars
===============================================================================
