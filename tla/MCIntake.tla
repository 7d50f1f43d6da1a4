------------------------------ MODULE MCIntake ------------------------------
(* TLC instance of Intake. *)
EXTENDS Intake, TLC

CONSTANTS b1, r1, r2, w1

OneBrief    == {b1}
TwoRequests == {r1, r2}
OneWorker   == {w1}

\* Requests are interchangeable.
Interchangeable == Permutations(TwoRequests)
=============================================================================
