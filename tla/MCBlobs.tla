-------------------------------- MODULE MCBlobs --------------------------------
(* An instance of Blobs for TLC: two users, one of them with two intents.  Any  *)
(* two intents fit a blob, two of them fill it, and three do not fit.           *)
EXTENDS Blobs

CONSTANTS i1, i2, i3, alice, bob, wallet, foreigner

ThreeIntents == {i1, i2, i3}
Owners == i1 :> alice @@ i2 :> bob @@ i3 :> alice
Datas == i1 :> <<11>> @@ i2 :> <<12, 13, 14, 12>> @@ i3 :> <<15, 16>>

\* none; none that parses; a participant with a length that exceeds the blob
Inputs == {<<>>, <<7>>, <<1, 2, 1, bob>>}
OneOrTwo == {1, 2}
=============================================================================
