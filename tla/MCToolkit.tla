----------------------------- MODULE MCToolkit ------------------------------
(* The components around the claim protocol on small instances: the groups *)
(* of Evidence, Records, Decisions and Coordination, given their constants *)
(* in Toolkit.cfg, on the row they share.                                  *)
EXTENDS Evidence, Records, Decisions, Coordination

CONSTANTS p1, p2, slot, cmd

Likely == [conf |-> 5, impact |-> 2, cost |-> 1]
Unlikely == [conf |-> 9, impact |-> 1, cost |-> 3]
Priced == {Likely, Unlikely}

(* Three entries and a branch of the first.                                *)
Parents == <<Root, Root, Root, 1>>
Mechanisms == <<{"a"}, {"b"}, {"a", "b"}, {"b"}>>
Contexts == <<"x", "y", "x", "x">>
AllLikely == [e \in 1..4 |-> Likely]

(* Two runs of one configuration that beat the target from two slots, one  *)
(* that does not, and one outside the goal.                                *)
Run(config, value, source) == [config |-> config, value |-> value, source |-> source]
OutsideRuns == {Run("a", 9, "t")}
AllRuns == {Run("a", 1, "s"), Run("b", 5, "s"), Run("b", 5, "t")} \union OutsideRuns

(* What the validation of each upstream commit says of the domain.         *)
Validation == [commit \in 0..2 |-> CASE commit = 0 -> {} [] commit = 1 -> {"v"} [] OTHER -> {"w"}]

(* One page of the site, drawn from two of the three resources.            *)
DocReads == [d \in {"graph"} |-> {"entries", "clock"}]

(* Two runs an attempt made and one made by hand.                          *)
RunOwner == <<1, 1, 0>>

(* Both processes hold their slots under the name of one iteration.        *)
OneIteration == [p \in Pools |-> "it1"]

-----------------------------------------------------------------------------
Init == EvidenceInit \/ RecordsInit \/ DecisionsInit \/ CoordinationInit

Next == EvidenceNext \/ RecordsNext \/ DecisionsNext \/ CoordinationNext

Spec == Init /\ [][Next]_vars

-----------------------------------------------------------------------------
(* Every variable of the component at hand has its type.                   *)
TypeOK == EvidenceTypeOK /\ RecordsTypeOK /\ DecisionsTypeOK /\ CoordinationTypeOK
=============================================================================
