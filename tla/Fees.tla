--------------------------------- MODULE Fees ---------------------------------
(***************************************************************************)
(* The price of blob gas, and the fees of a transaction: GasConfig and     *)
(* BlockGasSummary.  The protocol's numbers are CONSTANTS.                 *)
(***************************************************************************)
EXTENDS Integers

CONSTANTS
    MinBlobGasPrice,    \* MIN_BLOB_GASPRICE
    UpdateFraction,     \* BLOB_GASPRICE_UPDATE_FRACTION
    TargetBlobGas       \* TARGET_BLOB_GAS_PER_BLOCK

ASSUME FeesAssumption ==
    /\ MinBlobGasPrice \in Nat \ {0} /\ UpdateFraction \in Nat \ {0} /\ TargetBlobGas \in Nat

Fee == [max_priority_fee_per_gas : Nat, max_fee_per_gas : Nat, max_fee_per_blob_gas : Nat]

\* calc_excess_blob_gas, with its saturating subtraction
CalcExcessBlobGas(excess, used) ==
    IF excess + used <= TargetBlobGas THEN 0 ELSE excess + used - TargetBlobGas

\* the loop of fake_exponential: factor * e^(numerator / denominator), by its Taylor series
FakeExponential(factor, numerator, denominator) ==
    LET output[accum \in Nat, i \in Nat] ==
          IF accum = 0 THEN 0
          ELSE accum + output[(accum * numerator) \div (denominator * i), i + 1]
    IN  output[factor * denominator, 1] \div denominator

BlobGasPrice(excess) == FakeExponential(MinBlobGasPrice, excess, UpdateFraction)

\* Mutant of BlobGasPriceNextBlock: the price of the block itself.
BlobGasPriceOfBlock(excess, used) == BlobGasPrice(excess)

BlobGasPriceNextBlock(excess, used) == BlobGasPrice(CalcExcessBlobGas(excess, used))

Larger(a, b) == IF a >= b THEN a ELSE b

Bumped(fee) == (11 * fee) \div 10

\* reprice_to_at_least
Reprice(own, other) ==
    [max_priority_fee_per_gas |-> Larger(own.max_priority_fee_per_gas,
                                         Bumped(other.max_priority_fee_per_gas)),
     max_fee_per_gas          |-> Larger(own.max_fee_per_gas, Bumped(other.max_fee_per_gas)),
     max_fee_per_blob_gas     |-> Larger(own.max_fee_per_blob_gas,
                                         Bumped(other.max_fee_per_blob_gas))]

\* is_underpriced, against a block's base fee and blob gas price
IsUnderpriced(fee, baseFee, blobGasPrice) ==
    \/ baseFee > fee.max_fee_per_gas
    \/ blobGasPrice > fee.max_fee_per_blob_gas
    \/ fee.max_fee_per_gas < baseFee + fee.max_priority_fee_per_gas
=============================================================================
