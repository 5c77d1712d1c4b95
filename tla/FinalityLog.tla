----------------------------- MODULE FinalityLog -----------------------------
(***************************************************************************)
(* What the bundler's view of the chain promises to the rest of the        *)
(* program: chains of block hashes from the starting block.  The head      *)
(* chain moves freely above the final chain and never below it; the final  *)
(* chain grows along the head, and only to a block that finalize_depth     *)
(* blocks confirm; the stored chain is the final one or the start, and a   *)
(* restart resumes from it, so that it may forget finalized blocks but     *)
(* never replaces one.                                                     *)
(***************************************************************************)
EXTENDS Integers, Sequences, SequencesExt

CONSTANTS Block, Start, Depth

VARIABLES final, head, stored

Init == final = <<Start>> /\ head = <<Start>> /\ stored = <<Start>>

MoveHead ==
    /\ head' \in Seq(Block)
    /\ IsPrefix(final, head')
    /\ UNCHANGED <<final, stored>>

Finalize ==
    /\ IsStrictPrefix(final, final')
    /\ IsPrefix(final', head)
    /\ Len(head) = Len(final') + Depth
    /\ UNCHANGED <<head, stored>>

Store ==
    /\ stored' \in {<<Start>>, final}
    /\ UNCHANGED <<final, head>>

Restart ==
    /\ final' = stored /\ head' = stored
    /\ UNCHANGED stored

Next == MoveHead \/ Finalize \/ Store \/ Restart

Spec == Init /\ [][Next]_<<final, head, stored>>
==============================================================================
