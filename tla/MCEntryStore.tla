---------------------------- MODULE MCEntryStore ----------------------------
(* Two threads of one process and one call of another, on one filed entry  *)
(* and two free numbers.                                                   *)
EXTENDS EntryStore, TLC

CONSTANTS w1, w2, w3, loop, cli

MCWriters == {w1, w2, w3}
MCProcs == {loop, cli}
MCProcOf == [w \in MCWriters |-> IF w = w3 THEN cli ELSE loop]
(* One call per process: what a person's shells and a coordinator are.     *)
MCTwoWriters == {w2, w3}
MCTwoProcOf == [w \in MCTwoWriters |-> IF w = w3 THEN cli ELSE loop]

MCSymmetry == Permutations({w1, w2})
=============================================================================
