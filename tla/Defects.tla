------------------------------- MODULE Defects --------------------------------
(***************************************************************************)
(* Defects found downstream, on their way upstream: export, and ingest     *)
(* (defects.py, cli.py cmd_harness_export, scripts/ingest-defects.py).     *)
(*                                                                         *)
(* A project exports the defects of its record that carry their evidence.  *)
(* People carry the bundles, as often as they like; one arrives that no    *)
(* current core exported.  Each ingest takes the filing lock of the        *)
(* receiving record (Lineage has the other user of it), reads the tags     *)
(* there are, and files what is new one defect at a time; it may die       *)
(* between any two, and its lock is stolen then.  That it holds the lock   *)
(* for less than the 120 seconds it goes stale in is assumed.              *)
(***************************************************************************)
EXTENDS Naturals, Sequences, FiniteSets

CONSTANTS
    Projects,       \* by the name each exports under
    MaxId,          \* bound: defects of a project
    Foreign,        \* bound: defects in the bundle that no export made
    Ingesters,
    MaxReceived,    \* bound: entries at the receiver
    Missing, Idle

VARIABLES
    defect,     \* by project and id: [open, evidence], or Missing
    bundles,    \* [name, items], in circulation
    field,      \* the receiver's entries on the defect track: [tag, evidence]
    lock,       \* its filing lock: who holds it, or Idle
    job         \* by ingester: [at, bundle, left, seen], or Idle

defectVars == <<defect, bundles, field, lock, job>>

Ids == 1..MaxId
Tags == Projects \X Ids

(* None of core, repro, observed empty; the same with a core of "auto".    *)
Evidence == {"whole", "auto", "incomplete"}

Handmade == UNION {[1..n -> [id : Ids, evidence : Evidence]] : n \in 0..Foreign}

Phases == {"wait", "read", "file", "done"}

DefectsTypeOK ==
    /\ \A p \in Projects, i \in Ids :
          defect[p][i] # Missing => defect[p][i] \in [open : BOOLEAN, evidence : Evidence]
    /\ \A b \in bundles : \A k \in DOMAIN b.items :
          <<b.name, b.items[k].id>> \in Tags /\ b.items[k].evidence \in Evidence
    /\ Len(field) <= MaxReceived
    /\ \A k \in DOMAIN field : field[k].tag \in Tags /\ field[k].evidence \in Evidence
    /\ lock \in Ingesters \union {Idle}
    /\ \A n \in Ingesters : job[n] # Idle =>
          job[n].at \in Phases /\ job[n].bundle \in bundles /\ job[n].seen \subseteq Tags

DefectsInit ==
    /\ defect = [p \in Projects |-> [i \in Ids |-> Missing]]
    /\ \E p \in Projects : bundles \in {{[name |-> p, items |-> items]} : items \in Handmade}
    /\ field = <<>> /\ lock = Idle /\ job = [n \in Ingesters |-> Idle]

-----------------------------------------------------------------------------
(* The project: a defect filed, by QC with what the model said of it; its  *)
(* evidence amended; the entry closed.                                     *)
File(p, i, evidence) ==
    /\ defect[p][i] = Missing /\ \A j \in 1..(i - 1) : defect[p][j] # Missing
    /\ defect' = [defect EXCEPT ![p][i] = [open |-> TRUE, evidence |-> evidence]]
    /\ UNCHANGED <<bundles, field, lock, job>>

Amend(p, i, evidence) ==
    /\ defect[p][i] # Missing /\ evidence # "incomplete"
    /\ defect' = [defect EXCEPT ![p][i].evidence = evidence]
    /\ UNCHANGED <<bundles, field, lock, job>>

Fix(p, i) ==
    /\ defect[p][i] # Missing /\ defect[p][i].open
    /\ defect' = [defect EXCEPT ![p][i].open = FALSE]
    /\ UNCHANGED <<bundles, field, lock, job>>

(* export_bundle(): the open ones, or all; the incomplete are refused by   *)
(* name, and nothing is written when that leaves none.                     *)
Exported(p, all) ==
    {i \in Ids : /\ defect[p][i] # Missing /\ (all \/ defect[p][i].open)
                 /\ defect[p][i].evidence = "whole"}

Export(p, all) ==
    /\ Exported(p, all) # {}
    /\ \E ids \in [1..Cardinality(Exported(p, all)) -> Exported(p, all)] :
          /\ \A k, other \in DOMAIN ids : k < other => ids[k] < ids[other]
          /\ bundles' = bundles \union
                 {[name |-> p, items |-> [k \in DOMAIN ids |-> [id |-> ids[k], evidence |-> "whole"]]]}
    /\ UNCHANGED <<defect, field, lock, job>>

-----------------------------------------------------------------------------
Become(n, phase) == job' = [job EXCEPT ![n] = [@ EXCEPT !.at = phase]]

At(n, phase) == job[n] # Idle /\ job[n].at = phase

Begin(n, b) ==
    /\ job[n] = Idle
    /\ job' = [job EXCEPT ![n] = [at |-> "wait", bundle |-> b, left |-> b.items, seen |-> {}]]
    /\ UNCHANGED <<defect, bundles, field, lock>>

(* Fault: what has been ingested is looked up before the lock (#48).       *)
GoOnUnlocked(n) ==
    /\ At(n, "wait") /\ Become(n, "read") /\ lock' = n
    /\ UNCHANGED <<defect, bundles, field>>

(* filing_lock(): free, or left by an ingest that died.                    *)
Acquire(n) ==
    /\ At(n, "wait")
    /\ \A other \in Ingesters \ {n} : lock = other => ~At(other, "read") /\ ~At(other, "file")
    /\ lock' = n /\ Become(n, "read") /\ UNCHANGED <<defect, bundles, field>>

ReadTags(n) ==
    /\ At(n, "read")
    /\ job' = [job EXCEPT ![n] = [@ EXCEPT
           !.at = "file", !.seen = {field[k].tag : k \in DOMAIN field}]]
    /\ UNCHANGED <<defect, bundles, field, lock>>

(* The next defect of the bundle: ingested before, or incomplete, it is    *)
(* skipped with the reason; else it is filed under the next free number,   *)
(* one whose core is "auto" too.                                           *)
Tag(n) == <<job[n].bundle.name, Head(job[n].left).id>>

Skip(n) ==
    /\ At(n, "file") /\ job[n].left # <<>>
    /\ Tag(n) \in job[n].seen \/ Head(job[n].left).evidence = "incomplete"
    /\ job' = [job EXCEPT ![n].left = Tail(@)]
    /\ UNCHANGED <<defect, bundles, field, lock>>

Ingest(n) ==
    /\ At(n, "file") /\ job[n].left # <<>> /\ Len(field) < MaxReceived
    /\ Tag(n) \notin job[n].seen /\ Head(job[n].left).evidence # "incomplete"
    /\ field' = Append(field, [tag |-> Tag(n), evidence |-> Head(job[n].left).evidence])
    /\ job' = [job EXCEPT ![n].left = Tail(@), ![n].seen = @ \union {Tag(n)}]
    /\ UNCHANGED <<defect, bundles, lock>>

Finish(n) ==
    /\ At(n, "file") /\ job[n].left = <<>> /\ Become(n, "done")
    /\ lock' = IF lock = n THEN Idle ELSE lock
    /\ UNCHANGED <<defect, bundles, field>>

(* The end of one that is done, a lock not had in 30 seconds, or a death.  *)
Leave(n) ==
    /\ job[n] # Idle /\ job' = [job EXCEPT ![n] = Idle]
    /\ UNCHANGED <<defect, bundles, field, lock>>

DefectsNext ==
    \/ \E p \in Projects, i \in Ids :
          \/ \E evidence \in Evidence : File(p, i, evidence) \/ Amend(p, i, evidence)
          \/ Fix(p, i)
    \/ \E p \in Projects, all \in BOOLEAN : Export(p, all)
    \/ \E n \in Ingesters :
          \/ \E b \in bundles : Begin(n, b)
          \/ Acquire(n) \/ ReadTags(n) \/ Skip(n) \/ Ingest(n) \/ Finish(n) \/ Leave(n)

DefectsSpec == DefectsInit /\ [][DefectsNext]_defectVars

-----------------------------------------------------------------------------
(* However often a bundle is ingested, by however many at once, and        *)
(* wherever one of them dies: a defect is filed at most once, never        *)
(* without its evidence, and once an ingest has finished everything of its *)
(* bundle that is not incomplete is there (README.md, 783: "files nothing  *)
(* twice"; the #48 comment of ingest_bundle).                              *)
IngestedOnce ==
    /\ \A k, other \in DOMAIN field : field[k].tag = field[other].tag => k = other
    /\ \A k \in DOMAIN field : field[k].evidence # "incomplete"
    /\ \A n \in Ingesters : At(n, "done") =>
          \A k \in DOMAIN job[n].bundle.items :
              job[n].bundle.items[k].evidence # "incomplete" =>
                  \E f \in DOMAIN field :
                      field[f].tag = <<job[n].bundle.name, job[n].bundle.items[k].id>>
===============================================================================
