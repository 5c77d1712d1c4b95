----------------------------- MODULE MCIntentPool -----------------------------
(* Instances of IntentPool, with the queries, small enough for TLC.        *)
EXTENDS Queries

CONSTANTS i1, i2

OneIntent == {i1}
TwoIntents == {i1, i2}
OnePrice == {1}
TwoPrices == {1, 2}

\* Every intent pays the two lower prices.
AllPay == [i \in Intents |-> 2]
================================================================================
