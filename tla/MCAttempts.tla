----------------------------- MODULE MCAttempts -----------------------------
(* Two processes of one session, and one of another where a run has it.    *)
EXTENDS Attempts, TLC

CONSTANTS p1, p2, p3, moon, sun, e1, i1, i2

MCSessionOf == [p \in Procs |-> IF p = p3 THEN sun ELSE moon]

MCSymmetry == Permutations(Ids) \union Permutations(Procs \ {p3})
=============================================================================
