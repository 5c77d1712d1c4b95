------------------------------ MODULE MCBalances ------------------------------
(* Instances of Balances small enough for TLC.                             *)
EXTENDS Balances, MCBlockSync

\* Each transaction carries an intent of alice and one of bob.
SomeParts == {<<alice, bob>>}

\* alice tops up in every block, bob in none.
SomeTopups == {<<alice>>}
===============================================================================
