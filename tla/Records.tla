------------------------------- MODULE Records -------------------------------
(* What the record says stands: entries filed under entries, field defects *)
(* ingested at the toolkit, the lessons distilled from verdicts, and what  *)
(* readers are shown of it.                                                *)
EXTENDS ToolkitRow, Naturals, FiniteSets

CONSTANTS
    EntryIds, Procs, MaxDepth, MaxChildren, MaxChanges,                 \* Lineage
    Projects, MaxId, Foreign, Ingesters, MaxReceived,                    \* Defects
    Judged, Lessons, Distillers, MaxTicks, MaxMoved,                \* Skills
    Resources, Docs, Reads, Browsers, Servers, Verbs, LogSize, MaxWrites    \* Pages

Lin == INSTANCE Lineage WITH
    Ids <- EntryIds, Free <- None,
    entry <- x1, filing <- x2, job <- x3, begun <- x4

Def == INSTANCE Defects WITH
    Missing <- Absent,
    defect <- x1, bundles <- x2, job <- x3, field <- x4, lock <- x5

Skil == INSTANCE Skills WITH
    Entries <- Judged, Names <- Lessons, MaxClock <- MaxTicks, MaxMoves <- MaxMoved,
    Missing <- Absent,
    entry <- x1, clock <- x2, skill <- x3, distil <- x4

Page == INSTANCE Pages WITH
    Threads <- Servers, MaxEdits <- MaxWrites,
    disk <- x1, last <- x2, poll <- x3, generation <- x4, log <- x5,
    cache <- x6, invalidations <- x7, seen <- x8, todo <- x9, latest <- x10,
    shown <- x11, since <- x12, request <- x13, verb <- x14, view <- x15,
    lapse <- x16

RecordsInit ==
    \/ subject = "lineage" /\ Lin!LineageInit /\ Blank4
    \/ subject = "defects" /\ Def!DefectsInit /\ Blank5
    \/ subject = "skills" /\ Skil!SkillsInit /\ Blank4
    \/ subject = "pages" /\ Page!PagesInit

RecordsNext ==
    \/ subject = "lineage" /\ Lin!LineageNext /\ UNCHANGED Rest4
    \/ subject = "defects" /\ Def!DefectsNext /\ UNCHANGED Rest5
    \/ subject = "skills" /\ Skil!SkillsNext /\ UNCHANGED Rest4
    \/ subject = "pages" /\ Page!PagesNext /\ UNCHANGED subject

RecordsSpec == RecordsInit /\ [][RecordsNext]_vars

-----------------------------------------------------------------------------
(* What the proofs ask of the constants: the bounds are numbers, and what  *)
(* stands for "nothing" is none of the values it stands beside.            *)
LineageHyp ==
    /\ EntryIds \subseteq Nat /\ IsFiniteSet(EntryIds)
    /\ MaxChildren \in Nat /\ MaxChanges \in Nat
    /\ Absent \notin Lin!Entry /\ Idle \notin Lin!Job /\ None \notin Procs /\ Root \notin EntryIds

DefectsHyp == MaxId \in Nat /\ Foreign \in Nat /\ MaxReceived \in Nat

SkillsHyp == MaxTicks \in Nat \ {0} /\ MaxMoved \in Nat

Pictures == UNION {[S -> Nat] : S \in SUBSET Resources}

Request == [page : Browsers, doc : Docs, started : Nat, after : BOOLEAN, got : Pictures,
            built : BOOLEAN]

Rendering == [at : {"read", "write"}, got : Nat]

(* Every document reads resources, the log holds something, and what       *)
(* stands for "nothing" is none of the values it stands beside.            *)
PagesHyp ==
    /\ {"entries", "clock"} \subseteq Resources /\ \A d \in Docs : Reads[d] \subseteq Resources
    /\ IsFiniteSet(Resources) /\ MaxWrites \in Nat
    /\ LogSize \in Nat \ {0} /\ None \notin Nat \union Servers
    /\ Idle \notin Request \union Rendering

ASSUME RecordsAssumption == LineageHyp /\ DefectsHyp /\ SkillsHyp /\ PagesHyp

-----------------------------------------------------------------------------
RecordsTypeOK ==
    /\ subject = "lineage" => Lin!LineageTypeOK
    /\ subject = "defects" => Def!DefectsTypeOK
    /\ subject = "skills" => Skil!SkillsTypeOK
    /\ subject = "pages" => Page!PagesTypeOK

(* Filing under a lock keeps a parent at its cap (cli.py cmd_entry_new).   *)
SiblingCapHeld == subject = "lineage" => Lin!SiblingCapHeld

(* What was retired is named by what absorbed it (cli.py cmd_close).       *)
RetirementNamed == subject = "lineage" => Lin!RetirementNamed

(* A bundle of defects files nothing twice (defects.py ingest_bundle).     *)
IngestedOnce == subject = "defects" => Def!IngestedOnce

(* A page shows what it was told of, a view the record (ui/api.py, cli.py);*)
(* a skill that passes rests on verdicts nobody moved since (skills.py).   *)
ReadersCurrent ==
    /\ subject = "pages" => Page!ReadersCurrent
    /\ subject = "skills" => Skil!MovedIsTold
=============================================================================
