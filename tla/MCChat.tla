------------------------------- MODULE MCChat -------------------------------
(* Instances of Chat for TLC.                                               *)
EXTENDS Chat, TLC

CONSTANTS alice, bob, w1, w2

MCPlace == {<<alice, w1>>, <<alice, w2>>, <<bob, w1>>}
MCLimit == {-1, 1, 2}

Symmetry == Permutations(Request)
=============================================================================
