---------------------------- MODULE MCFileLock ----------------------------
(* Three calls on one lock, two of them under one session name.            *)
EXTENDS FileLock

CONSTANTS p1, p2, p3, alice, bob

MCProcs == {p1, p2, p3}
MCNames == {alice, bob}
MCHolderName == [p \in MCProcs |-> IF p = p3 THEN bob ELSE alice]
==========================================================================
