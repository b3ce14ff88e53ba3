---------------------------- MODULE MCCoordinator ---------------------------
(* Two coordinators, `ar iterate` and `ar run`, over two cards.            *)
EXTENDS Coordinator
=============================================================================
