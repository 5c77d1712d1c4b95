------------------------------- MODULE MCClient -------------------------------
(* An instance of Client, small enough for TLC.                            *)
EXTENDS Client

CONSTANTS alice, r1

OneUser == {alice}
AllOfAlice == [r \in Runs |-> alice]

OneRun == {r1}

\* Two rounds, each with data for one blob
TwoRounds == [r \in Runs |-> <<1, 1>>]
================================================================================
