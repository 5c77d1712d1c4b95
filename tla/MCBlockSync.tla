----------------------------- MODULE MCBlockSync -----------------------------
(* Instances of BlockSync small enough for TLC.                            *)
EXTENDS BlockSync

CONSTANTS s1, alice, bob

OneSender == {s1}
OneUser == {alice}
TwoUsers == {alice, bob}

P(base, blob) == [base |-> base, blob |-> blob]

\* One gas market: the base fee and the blob price move together.
LowPrice == P(1, 1)
TwoPrices == {P(1, 1), P(2, 2)}
OnePrice == {P(1, 1)}
Fees1 == {P(1, 1)}
Fees2 == {P(1, 1), P(2, 2)}

NoParts == {<<>>}
NoTopups == {<<>>}
==============================================================================
