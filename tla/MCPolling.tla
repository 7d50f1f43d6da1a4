----------------------------- MODULE MCPolling -----------------------------
(* TLC instances of Polling. *)
EXTENDS Polling, TLC

CONSTANTS s1, s2, s3, l1, l2, c1, c2, f1

\* Two signals about one listing, one about another.
ThreeSignals == {s1, s2, s3}
TwoListings  == {l1, l2}
Subjects     == (s1 :> l1) @@ (s2 :> l1) @@ (s3 :> l2)
TwoSignals   == {s1, s2}
OneListing   == {l1}
OneSubject   == (s1 :> l1) @@ (s2 :> l1)

\* A scheduled cycle and a manual one; one form submission.
TwoCycles == {c1, c2}
OneForm   == {f1}
=============================================================================
