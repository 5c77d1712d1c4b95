------------------------------ MODULE MCPacking ------------------------------
(* Instances of Packing small enough for TLC.                              *)
EXTENDS Packing

\* One length that fills the blob alone, one that never fits.
SomeLens == {0, 1, 2, 3, 6, 7}
SomePrices == {1, 2, 3}
SomeCosts == {1, 2}
==============================================================================
