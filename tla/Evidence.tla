------------------------------ MODULE Evidence -------------------------------
(* What was measured or written, and must not be lost: the run ledger, the *)
(* workspaces of a pool, the worktrees of sessions, relocated memos and    *)
(* imported bundles.                                                       *)
EXTENDS ToolkitRow, Naturals, FiniteSets

CONSTANTS
    Slots, Debt, RunIds, MaxTouches, MaxTricks, MaxRuns,    \* RunLedger
    Names, Pools, Holder, MaxWork,                          \* Workspaces
    SessionRows, FileNames, MemoPaths, MaxEdits, Gone, Nobody, \* Sessions
    Dirs, MemoFiles, Entries, Movers, MayOverlap, MaxMemos, MaxRev, \* Relocation
    Importers, MaxTouched, Unheld                           \* Bundles

Ledg == INSTANCE RunLedger WITH
    MaxEdits <- MaxTouches,
    evaluator <- x1, copy <- x2, inherited <- x3, rows <- x4, measuring <- x5,
    receipt <- x6, harvest <- x7, ledger <- x8, audit <- x9, tricks <- x10,
    runs <- x11

Work == INSTANCE Workspaces WITH
    tree <- x1, marker <- x2, pending <- x3, archive <- x4, job <- x5,
    slots <- x6, seen <- x7, worked <- x8, harvested <- x9

Sess == INSTANCE Sessions WITH
    Rows <- SessionRows, Files <- FileNames, Memos <- MemoPaths,
    tree <- x1, record <- x2, config <- x3, archive <- x4, job <- x5,
    receipt <- x6, primary <- x7, ledger <- x8, proposed <- x9, edits <- x10,
    dropped <- x11

Relo == INSTANCE Relocation WITH
    Files <- MemoFiles, Overlap <- MayOverlap,
    disk <- x1, memos <- x2, entry <- x3, meant <- x4, job <- x5

Bund == INSTANCE Bundles WITH
    Files <- FileNames,
    target <- x1, touched <- x2, spoiled <- x3, lock <- x4, job <- x5

EvidenceInit ==
    \/ subject = "ledger" /\ Ledg!LedgerInit /\ Blank11
    \/ subject = "workspaces" /\ Work!WorkspacesInit /\ Blank9
    \/ subject = "sessions" /\ Sess!SessionsInit /\ Blank11
    \/ subject = "relocation" /\ Relo!RelocInit /\ Blank5
    \/ subject = "bundles" /\ Bund!BundlesInit /\ Blank5

EvidenceNext ==
    \/ subject = "ledger" /\ Ledg!LedgerNext /\ UNCHANGED Rest11
    \/ subject = "workspaces" /\ Work!WorkspacesNext /\ UNCHANGED Rest9
    \/ subject = "sessions" /\ Sess!SessionsNext /\ UNCHANGED Rest11
    \/ subject = "relocation" /\ Relo!RelocNext /\ UNCHANGED Rest5
    \/ subject = "bundles" /\ Bund!BundlesNext /\ UNCHANGED Rest5

EvidenceSpec == EvidenceInit /\ [][EvidenceNext]_vars

-----------------------------------------------------------------------------
(* What the proofs ask of the constants: the bounds are numbers, and what  *)
(* stands for "nothing" is none of the values it stands beside.            *)
Harvesting == [known : SUBSET Ledg!Row, todo : SUBSET Ledg!Row, row : {Idle} \union Ledg!Row,
               output : {"todo", "open", "done"}]
Audit == [from : Slots, whole : BOOLEAN]

LedgerHyp ==
    /\ Absent \notin Ledg!Row \union Audit
    /\ Idle \notin Ledg!Row \union Ledg!Measuring \union Harvesting
    /\ MaxTouches \in Nat /\ MaxTricks \in Nat /\ MaxRuns \in Nat

Ops == {"mark", "unmark", "move", "unlink", "finish"}
PoolJob == [by : Pools, op : Ops, name : Names]

WorkspacesHyp ==
    /\ MaxWork \in Nat /\ None \notin Nat \union Work!Mark /\ Idle \notin PoolJob

SessionsHyp ==
    /\ IsFiniteSet(Names) /\ MaxEdits \in Nat /\ Nobody \notin Names
    /\ Gone \notin Nat /\ Gone \notin Sess!Worktree

RelocBounds == "data" \notin Dirs /\ MaxMemos \in Nat /\ MaxRev \in Nat

BundlesHyp == MaxTouched \in Nat

ASSUME EvidenceAssumption ==
    LedgerHyp /\ WorkspacesHyp /\ SessionsHyp /\ RelocBounds /\ BundlesHyp

(* Nothing in the code keeps two relocations apart, so this is no          *)
(* assumption: a theorem that needs it says so.                            *)
RelocHyp == ~MayOverlap /\ RelocBounds

-----------------------------------------------------------------------------
EvidenceTypeOK ==
    /\ subject = "ledger" => Ledg!LedgerTypeOK
    /\ subject = "workspaces" => Work!WorkspacesTypeOK
    /\ subject = "sessions" => Sess!SessionsTypeOK
    /\ subject = "relocation" => Relo!RelocTypeOK
    /\ subject = "bundles" => Bund!BundlesTypeOK

(* No directory is removed or handed out again with evidence nobody took:  *)
(* of a worker's slot (workspaces.py), of a session (session.py); a row in *)
(* the ledger has its audit beside it (runs.py retain_output); relocating  *)
(* a memo destroys no standing verdict's (relocate.py); an imported bundle *)
(* is there whole or not at all (bundles.py).                              *)
EvidenceKept ==
    /\ subject = "workspaces" => Work!EvidenceKept
    /\ subject = "sessions" => Sess!SessionEvidenceKept
    /\ subject = "ledger" => Ledg!AuditKept
    /\ subject = "relocation" => Relo!EvidenceMoved
    /\ subject = "bundles" => Bund!ImportedWhole

(* Only rows core measured and stamped are evidence (runs.py harvest).     *)
LedgerProven == subject = "ledger" => Ledg!LedgerProven
=============================================================================
