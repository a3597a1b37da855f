------------------------ MODULE MCDeliverableReview -------------------------
(* Model values for checking DeliverableReview.  Threads are               *)
(* interchangeable.                                                        *)
EXTENDS DeliverableReview, TLC

Symmetry == Permutations(Workers)
=============================================================================
