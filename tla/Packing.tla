------------------------------- MODULE Packing -------------------------------
(***************************************************************************)
(* Choosing the intents of one blob (packing.rs) and what each of them is  *)
(* then charged (blob_tx_data.rs).  An item is the length and the highest  *)
(* price of an intent, by its index in the argument.  pack_items tries all *)
(* combinations of a few items, and picks greedily from many; knapsack is  *)
(* the third algorithm of the file, for items that all pay.  The loops are *)
(* the actions, so that order and early exits are those of the code.       *)
(***************************************************************************)
EXTENDS Integers, FiniteSets, SequencesExt, FiniteSetsExt

CONSTANTS
    Lens, MaxPrices, \* lengths and highest prices an item may have
    Costs,          \* prices of one unit of the blob; never 0, as the blob gas price
    MaxLen,         \* max_len: MAX_USABLE_BLOB_DATA_LEN
    BlobLen,        \* BYTES_PER_BLOB
    BruteForceBelow, \* MAX_COUNT_FOR_BRUTEFORCE
    MaxCount        \* bound: items

ASSUME PackingAssumption ==
    /\ Lens \subseteq Nat /\ MaxPrices \subseteq Nat /\ Costs \subseteq Nat \ {0}
    /\ MaxLen \in Nat \ {0} /\ BlobLen \in Nat /\ MaxLen <= BlobLen
    /\ BruteForceBelow \in Nat /\ MaxCount \in Nat

VARIABLES
    items, cost,    \* the arguments
    pc,             \* which loop runs, or "start" or "done"
    mask, best,     \* brute force: the next mask, and best_combination
    threshold,      \* greedy: min_cost_per_len_to_select
    row, col, sel,  \* knapsack: i, w and the table
    result          \* {}: None, {c}: Some(c)

args == <<items, cost>>
vars == <<items, cost, pc, mask, best, threshold, row, col, sel, result>>

Indexes == DOMAIN items
TotalLen(c) == MapThenSumSet(LAMBDA i : items[i].len, c)
LowestPrice(c) == Min({items[i].price : i \in c})

Init ==
    /\ \/ /\ pc = "start" /\ cost \in Costs
          /\ items \in SeqOf([len : Lens, price : MaxPrices], MaxCount)
       \/ /\ pc = "knapsack" /\ cost = 1
          /\ items \in SeqOf([len : Lens \ {0}, price : {10 * MaxLen}], MaxCount)
    /\ mask = 0 /\ best = {}
    /\ threshold = 0
    /\ row = 1 /\ col = MaxLen /\ sel = [w \in 0 .. MaxLen |-> <<>>]
    /\ result = {}

Return(r) == pc' = "done" /\ result' = r

-----------------------------------------------------------------------------
(* pack_items *)

Sorted == \A i, j \in Indexes : i <= j => items[i].len <= items[j].len

\* Mutant of PackItems: greedy picks from items in any order.
PackUnsorted ==
    /\ pc = "start"
    /\ pc' = IF Len(items) < BruteForceBelow THEN "brute force" ELSE "greedy"
    /\ threshold' = cost
    /\ UNCHANGED <<args, mask, best, row, col, sel, result>>

PackItems ==
    /\ pc = "start"
    /\ \/ Len(items) < BruteForceBelow /\ pc' = "brute force" /\ UNCHANGED result
       \/ Len(items) >= BruteForceBelow /\ ~Sorted /\ Return({})
       \/ Len(items) >= BruteForceBelow /\ Sorted /\ pc' = "greedy" /\ UNCHANGED result
    /\ threshold' = cost
    /\ UNCHANGED <<args, mask, best, row, col, sel>>

-----------------------------------------------------------------------------
(* pack_items_brute_force *)

Combination(m) == {i \in Indexes : (m \div 2^(i - 1)) % 2 = 1}

\* The combination fits, and each item covers its share of the whole blob.
Viable(c) ==
    /\ TotalLen(c) \in 1 .. MaxLen
    /\ (MaxLen * cost) \div TotalLen(c) <= LowestPrice(c)

\* Mutant of Better: the last viable combination is kept.
AnyViable(c) == Viable(c)

Better(c) == Viable(c) /\ TotalLen(c) > TotalLen(best)

BruteForceStep ==
    /\ pc = "brute force" /\ mask < 2^Len(items)
    /\ best' = IF Better(Combination(mask)) THEN Combination(mask) ELSE best
    /\ mask' = IF TotalLen(best') = MaxLen THEN 2^Len(items) ELSE mask + 1
    /\ UNCHANGED <<args, pc, threshold, row, col, sel, result>>

BruteForceReturns ==
    /\ pc = "brute force" /\ mask = 2^Len(items)
    /\ Return(IF best = {} THEN {} ELSE {best})
    /\ UNCHANGED <<args, mask, best, threshold, row, col, sel>>

-----------------------------------------------------------------------------
(* pack_items_greedy_sorted *)

\* pick_first_items_sorted_ascending: items that pay min, up to the first that does
\* not fit.
Picked(min) ==
    LET paying == {i \in Indexes : items[i].price >= min}
        upTo(k) == {i \in paying : i <= k}
    IN  UNION {upTo(k) : k \in {k \in paying : TotalLen(upTo(k)) <= MaxLen}}

\* Mutant of Covered: the price is that of the used part of the blob only.
CoversUsed(c) == TotalLen(c) * cost <= TotalLen(c) * LowestPrice(c)

Covered(c) == MaxLen * cost <= TotalLen(c) * LowestPrice(c)

\* Mutant of Raised: the increase is rounded down.
RaisedDown(min) == (11 * min) \div 10

\* increase_by_min_percent(min, 1.1); in f64, but exact in the range of the model
Raised(min) == (11 * min + 9) \div 10

GreedyStep ==
    /\ pc = "greedy"
    /\ LET c == Picked(threshold)
       IN  \/ TotalLen(c) = 0 /\ Return({}) /\ UNCHANGED threshold
           \/ TotalLen(c) > 0 /\ Covered(c) /\ Return({c}) /\ UNCHANGED threshold
           \/ /\ TotalLen(c) > 0 /\ ~Covered(c) /\ threshold > 2 * cost
              /\ Return({}) /\ UNCHANGED threshold
           \/ /\ TotalLen(c) > 0 /\ ~Covered(c) /\ threshold <= 2 * cost
              /\ threshold' = Raised(threshold) /\ UNCHANGED <<pc, result>>
    /\ UNCHANGED <<args, mask, best, row, col, sel>>

-----------------------------------------------------------------------------
(* knapsack *)

SeqLen(s) == FoldLeft(LAMBDA sum, i : sum + items[i].len, 0, s)

Adding(w) == Append(sel[w - items[row].len], row)

\* Mutant of NextCell: weights ascend, and an item is taken more than once.
NextAscending ==
    IF col < MaxLen THEN row' = row /\ col' = col + 1 ELSE row' = row + 1 /\ col' = 0

NextCell ==
    IF col > 0 THEN row' = row /\ col' = col - 1 ELSE row' = row + 1 /\ col' = MaxLen

KnapsackStep ==
    /\ pc = "knapsack" /\ row <= Len(items)
    /\ sel' = IF items[row].len <= col /\ SeqLen(Adding(col)) > SeqLen(sel[col])
              THEN [sel EXCEPT ![col] = Adding(col)]
              ELSE sel
    /\ NextCell
    /\ UNCHANGED <<args, pc, mask, best, threshold, result>>

KnapsackReturns ==
    /\ pc = "knapsack" /\ row > Len(items)
    /\ Return(IF sel[MaxLen] = <<>> THEN {} ELSE {Range(sel[MaxLen])})
    /\ UNCHANGED <<args, mask, best, threshold, row, col, sel>>

-----------------------------------------------------------------------------
(* cost_to_intent: the blob gas an item of combination c is charged *)

\* Mutant of AttributableUnused: the unused part is shared by the whole blob.
SharedByBlob(i, c) == ((BlobLen - TotalLen(c)) * items[i].len) \div BlobLen

AttributableUnused(i, c) == ((BlobLen - TotalLen(c)) * items[i].len) \div TotalLen(c)

BlobDataCost(i, c) == (AttributableUnused(i, c) + items[i].len) * cost

-----------------------------------------------------------------------------

Next == \/ PackItems \/ BruteForceStep \/ BruteForceReturns \/ GreedyStep
        \/ KnapsackStep \/ KnapsackReturns

Spec == Init /\ [][Next]_vars

\* The loops run to their end.
FairSpec == Spec /\ WF_vars(Next)

-----------------------------------------------------------------------------
(* Properties *)

\* pack_items starts with a threshold, knapsack has none.
ByKnapsack == pc = "done" /\ threshold = 0
ByBruteForce == pc = "done" /\ ~ByKnapsack /\ Len(items) < BruteForceBelow
ByGreedy == pc = "done" /\ ~ByKnapsack /\ Len(items) >= BruteForceBelow

AllViable == {c \in SUBSET Indexes : Viable(c)}
Longest == {c \in AllViable : \A d \in AllViable : TotalLen(d) <= TotalLen(c)}

\* BruteForceOptimal: brute force returns a viable combination that no viable one
\* exceeds in length, and None only if there is none, with all its early exits.
BruteForceOptimal ==
    ByBruteForce => IF AllViable = {} THEN result = {} ELSE \E c \in Longest : result = {c}

\* KnapsackAgrees: for items that all pay, the dynamic programming over one table
\* selects what brute force selects: of the longest combinations the one of the
\* lowest mask, no item twice.
MaskOf(c) == MapThenSumSet(LAMBDA i : 2^(i - 1), c)
KnapsackAgrees ==
    ByKnapsack =>
      /\ result = {c \in Longest : \A d \in Longest : MaskOf(c) <= MaskOf(d)}
      /\ IsInjective(sel[MaxLen])

\* GreedyFills: what greedy selects fits, each item covers its share without rounding,
\* and no item left out that pays the final threshold would still fit ("Ascending
\* sort, any next item will be over the limit").
GreedyFills ==
    ByGreedy =>
      \A c \in result :
        /\ TotalLen(c) \in 1 .. MaxLen /\ Covered(c)
        /\ \A i \in Indexes \ c :
             items[i].price >= threshold => TotalLen(c \union {i}) > MaxLen

\* BlobPaid: the items of a selection are charged the whole blob between them, and never
\* more: each charge is rounded down by less than one unit.
BlobPaid ==
    \A c \in result :
      LET paid == MapThenSumSet(LAMBDA i : BlobDataCost(i, c), c)
      IN  paid <= BlobLen * cost /\ paid > (BlobLen - Cardinality(c)) * cost

\* ChargeNearMax: an item is charged at most what its highest price allows, but for the
\* part of a blob that its encoding cannot use (BlobLen over MaxLen) and the rounding of
\* brute force (less than one unit of the price).
ChargeNearMax ==
    \A c \in result : \A i \in c :
      BlobDataCost(i, c) * MaxLen <= BlobLen * items[i].len * (items[i].price + 1)

\* Terminates: packing returns; greedy's threshold grows at every step, however low.
Terminates == <>(pc = "done")
=============================================================================
