------------------------ MODULE MCConfidenceReview -------------------------
(* Values for the model checking of ConfidenceReview.                      *)
EXTENDS ConfidenceReview, TLC

CONSTANTS e1, z1, o1, o2, w1, w2

(* Both targets start as verified; the scores straddle the band limits.    *)
IngestedScores == [t \in {e1, z1} |-> 80]

Symmetric == Permutations({o1, o2}) \cup Permutations(Worker)
=============================================================================
