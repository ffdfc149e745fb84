---------------------------- MODULE MCDraftFlow ----------------------------
(* Small instances of the draft flow.                                      *)
EXTENDS DraftFlow, TLC

CONSTANTS r1, r2, r3, t1, t2, nobody

OneRequest == {r1}
TwoRequests == {r1, r2}
ThreeRequests == {r1, r2, r3}
OneSender == {t1}
TwoSenders == {t1, t2}
Symmetry == Permutations(ThreeRequests) \cup Permutations(TwoSenders)
=============================================================================
