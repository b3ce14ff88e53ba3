------------------------------ MODULE MCClaims ------------------------------
EXTENDS Claims, TLC

CONSTANTS e1, ann, moon, cli, m1

(* A person under the shared default name, and a session of its own.       *)
MCSessionOf == [a \in Actors |-> IF a = moon THEN m1 ELSE cli]

=============================================================================
