------------------------------- MODULE MCRunner -------------------------------
(* An instance of Runner for TLC *)
EXTENDS Runner

CONSTANT i1

OneIntent == {i1}
=============================================================================
