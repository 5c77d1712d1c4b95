------------------------------ MODULE MCAppLocks ------------------------------
(* Instances of AppLocks small enough for TLC.                             *)
EXTENDS AppLocks

\* The tasks are named for what they run.
FourKinds == {"sender", "subscriber", "sync_route", "post"}
OnItself == [t \in Tasks |-> t]
===============================================================================
