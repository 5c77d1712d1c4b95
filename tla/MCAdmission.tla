------------------------------ MODULE MCAdmission ------------------------------
(* Instances of Admission small enough for TLC.                            *)
EXTENDS Admission

CONSTANTS p1, p2, alice

\* p1 has two chunks, the second shorter than what is charged; p2 has the same nonce,
\* one intent and a lower price.
TwoPosts == {p1, p2}
OneUser == {alice}
AllOfAlice == [p \in Posts |-> alice]
SameNonce == [p \in Posts |-> 1]
Lens == [p \in Posts |-> IF p = p1 THEN 3 ELSE 1]
MaxPrices == [p \in Posts |-> IF p = p1 THEN 2 ELSE 1]
ThreeIntents == {<<p1, 1>>, <<p1, 2>>, <<p2, 1>>}
CapOfPost == [i \in ThreeIntents |-> IF i[1] = p1 THEN 2 ELSE 1]
Paid == [u \in Users |-> 6]

Answered == \A p \in Posts : post[p] \in {"stored", "refused"}

\* Bound: TLC goes no further from where a call failed, something is being cancelled or
\* evicted, or a second transaction was sent and a request is not answered yet.
Explored ==
    /\ faults = 0 /\ drop = <<>>
    /\ Len(sent) > 1 => Answered
================================================================================
