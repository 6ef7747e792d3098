-------------------------- MODULE MCSpeakerAttribution --------------------------
(* Two officers, who may serve in either role or in both, and two captures. *)
EXTENDS SpeakerAttribution, TLC

CONSTANTS o1, o2, c1, c2

MCBaseline == [threshold |-> 1, margin |-> Uncalibrated]
MCPoints == {MCBaseline, [threshold |-> 1, margin |-> 0], [threshold |-> 0, margin |-> 1]}

\* The officers are alike.
Symmetry == Permutations({o1, o2})
================================================================================
