----------------------------- MODULE MCWorkflow -----------------------------
(* TLC instance of Workflow. *)
EXTENDS Workflow, TLC

CONSTANTS r1, r2

TwoRequests == {r1, r2}

\* Two titles to choose between, one hook and one thumbnail.
FewVariants == [hook |-> 1, title |-> 2, thumb |-> 1]

\* Requests are interchangeable.
Interchangeable == Permutations(TwoRequests)
=============================================================================
