------------------------- MODULE MCSpeakerCalibration -------------------------
(* Three officers, of whom the first may have a reference of the first releases. *)
EXTENDS SpeakerCalibration, TLC

CONSTANTS o1, o2, o3, s1, s2, old, x1, c1, c2, m1, m2, r1, r2

MCOldReference == [o \in {o1} |-> old]

\* An officer's references are bound to sessions, or the samples of two officers give
\* captures their thresholds.
MCParties ==
    {{x1, m1, r1, r2, o1}, {c1, m1, r1, r2, o2, o3}, {c1, c2, m1, m2, r1, o2, o3}}
    \cup {{c1, m1, m2, r1, o1, o} : o \in {o2, o3}}

\* The samples to come, and the officers without a past, are alike.
Symmetry == {p @@ q : p \in Permutations({s1, s2}), q \in Permutations({o2, o3})}
===============================================================================
