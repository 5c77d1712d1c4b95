------------------------------ MODULE Ethereum ------------------------------
(***************************************************************************)
(* The execution-layer node the bundler talks to: a tree of blocks, one of *)
(* which is the canonical head, a mempool of the senders' transactions and *)
(* the newHeads subscription.  None of it is this repository's code: it is *)
(* modelled from how src/bundler/src/sync.rs, block_subscriber_task.rs and *)
(* blob_sender_task.rs use it.                                             *)
(*                                                                         *)
(* A block's hash is its index in blocks.  A block carries its whole       *)
(* ancestry as path (path[1] is the starting block, the last element is    *)
(* the block itself), so that "parent" and "number" need no recursion.     *)
(* A transaction is its own hash: two transactions of equal content have   *)
(* the same hash.  A fee's base is max_fee_per_gas less the tip, the only  *)
(* quantity GasConfig::is_underpriced compares with the block's base fee.  *)
(***************************************************************************)
EXTENDS Integers, Sequences, FiniteSets, Functions

CONSTANTS
    Senders,        \* target_addresses: the bundler's sender wallets
    Users,          \* the addresses that post data and top up
    Prices,         \* gas prices a block may have, records [base, blob]
    GenesisPrice,   \* gas price of the starting block
    TopFee,         \* u128::MAX: the blob fee recorded for a self-transfer
    PartChoices,    \* participant lists a blob transaction may have
    TopupChoices,   \* lists of the users who top up in a block
    MaxBlocks,      \* bound: blocks in the tree
    MaxNews         \* bound: heads announced and not yet delivered

ASSUME PricesAssumption ==
    /\ TopFee \in Nat
    /\ Prices \subseteq [base : 0 .. TopFee - 1, blob : 0 .. TopFee - 1]
    /\ GenesisPrice \in Prices

ASSUME ChoicesAssumption ==
    /\ PartChoices \subseteq Seq(Users)
    /\ TopupChoices \subseteq Seq(Users)

VARIABLES blocks, elHead, news, pool

ethVars == <<blocks, elHead, news, pool>>

Genesis == 1
Hashes == DOMAIN blocks

Fee == [base : Nat, blob : 0 .. TopFee]

Tx == [from : Senders, nonce : Nat, kind : {"blob", "transfer"}, fee : Fee,
       parts : Seq(Users)]

Block == [path : Seq(Nat), txs : SUBSET Tx, topups : Seq(Users), price : Prices]

Path(h) == blocks[h].path
Number(h) == Len(Path(h)) - 1
Parent(h) == Path(h)[Len(Path(h)) - 1]

Slot(t) == <<t.from, t.nonce>>
Slots(T) == {Slot(t) : t \in T}

\* is_underpriced: the block's base fee or blob price is above what t offers.
\* The third disjunct of the code (the tip) is what makes base the fee net of it.
Underpriced(fee, price) == price.base > fee.base \/ price.blob > fee.blob

\* The senders' transactions on the chain that ends in h.
TxsUpTo(h) == UNION {blocks[g].txs : g \in Range(Path(h))}

\* eth_getTransactionCount(s, h)
TransactionCount(h, s) == Cardinality({t \in TxsUpTo(h) : t.from = s})

-----------------------------------------------------------------------------

EthInit ==
    /\ blocks = <<[path |-> <<Genesis>>, txs |-> {}, topups |-> <<>>,
                   price |-> GenesisPrice]>>
    /\ elHead = Genesis
    /\ news = <<>>
    /\ pool = {}

\* T can be the senders' part of a block on top of parent: one transaction per
\* nonce, each sender's nonces continuing its count, every fee paid.
Includable(T, parent, price) ==
    /\ \A t \in T : ~Underpriced(t.fee, price)
    /\ \A s \in Senders :
         LET mine == {t \in T : t.from = s}
             next == TransactionCount(parent, s)
         IN  {t.nonce : t \in mine} = next .. next + Cardinality(mine) - 1

Announce(h) ==
    /\ Len(news) < MaxNews
    /\ elHead' = h
    /\ news' = Append(news, h)

\* A block is mined on any known block.  It may become the head at once, or stay
\* on a side branch the subscription says nothing about.
MineBlock(parent, T, tops, price) ==
    /\ Len(blocks) < MaxBlocks
    /\ Includable(T, parent, price)
    /\ LET h == Len(blocks) + 1
       IN  /\ blocks' = Append(blocks, [path |-> Append(Path(parent), h), txs |-> T,
                                        topups |-> tops, price |-> price])
           /\ Announce(h) \/ UNCHANGED <<elHead, news>>
    /\ UNCHANGED pool

\* The node switches to a branch it already has.
SwitchHead(h) ==
    /\ h \notin Range(Path(elHead))
    /\ Announce(h)
    /\ UNCHANGED <<blocks, pool>>

\* The node takes a replacement only at a strictly higher fee, and no nonce that
\* its head has used.  Versions it accepted earlier may still be mined, by other
\* nodes that have not seen the replacement.
Acceptable(t) ==
    /\ t \notin pool
    /\ t.nonce >= TransactionCount(elHead, t.from)
    /\ \A other \in pool : Slot(other) = Slot(t) =>
         /\ t.fee.base > other.fee.base
         /\ t.kind = "blob" => t.fee.blob > other.fee.blob

=============================================================================
