---------------------------- MODULE MCCodeChange ----------------------------
(* CodeChange on two commits that differ in the file f1 alone.             *)
EXTENDS CodeChange, TLC

CONSTANTS f1, A, B

MCContents == {0, 1}
MCTree == (A :> [f \in Files |-> 0]) @@ (B :> [f \in Files |-> IF f = f1 THEN 1 ELSE 0])

(* Overlapping calls, and the callIds of approvals, are interchangeable.   *)
Symmetry == Permutations(Calls) \cup Permutations(Approvals)
=============================================================================
