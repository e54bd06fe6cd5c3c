---------------------------- MODULE MCReviewDesk ----------------------------
(* Instances of ReviewDesk for TLC.                                        *)
EXTENDS ReviewDesk, TLC

CONSTANTS s1, ann, bob, cyd, dan

MCSubmissions == {s1}
MCOwner == (s1 :> dan)
MCReviewers == {ann, bob, cyd, dan}
MCLeavers == {ann}
MCVerdicts == {<<"accepted", 1, FALSE>>, <<"adjusted", 1, FALSE>>,
               <<"accepted", 1, TRUE>>}
MCTrio == {ann, bob, cyd}
MCZeroVerdict == {<<"accepted", 0, FALSE>>}
MCStayers == Permutations({bob, cyd})
MCTrioSymmetry == Permutations(MCTrio)
=============================================================================
