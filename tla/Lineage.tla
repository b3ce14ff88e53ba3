------------------------------- MODULE Lineage -------------------------------
(***************************************************************************)
(* The tree of entries: who branches from whom, what a derivation and a    *)
(* retirement link, and the gate every branch passes (tree.py, `ar entry   *)
(* new`, `ar entry amend`, `ar close ... superseded`, the generator's      *)
(* _file()).                                                               *)
(*                                                                         *)
(* A filing checks and creates under the store's filing lock.  An amendment*)
(* runs the same gate without the lock and without looking at the entry    *)
(* being moved, so what the gate read may be gone when the amendment lands,*)
(* and an entry can be moved under its own descendant.  A retirement writes*)
(* two records, one after the other.                                       *)
(***************************************************************************)
EXTENDS Naturals, FiniteSets

CONSTANTS
    Ids,            \* 1..N, the numbers of the one track that has a prefix here
    Procs,
    MaxDepth,       \* coordinator.tree_max_depth
    MaxChildren,    \* coordinator.tree_max_children
    Stagnation,     \* coordinator.branch_stagnation
    MaxChanges,     \* bound: amendments and retirements begun
    Absent, Root, Idle, Free

VARIABLES
    entry,      \* the record of each entry
    filing,     \* who holds the filing lock
    job,        \* what each process read and has not written yet
    begun       \* amendments and retirements begun

lineageVars == <<entry, filing, job, begun>>

Verdicts == {"refuted", "confirmed", "superseded"}

(* `derived` stands for a derived_from that names an entry; `moved` for an *)
(* amendment of `parent`, which the history keeps.                         *)
Entry == [parent : {Root} \union Ids, derived : BOOLEAN, moved : BOOLEAN,
          verdict : {"open"} \union Verdicts, supersedes : SUBSET Ids]

Job == [op : {"file", "amend"}, id : Ids, was : {Absent} \union Entry, new : Entry]
       \union [op : {"absorb", "retire"}, id : Ids, was : Entry, by : Ids, seen : Entry]

LineageTypeOK ==
    /\ entry \in [Ids -> {Absent} \union Entry]
    /\ filing \in {Free} \union Procs
    /\ job \in [Procs -> {Idle} \union Job]
    /\ begun \in 0..MaxChanges

Filed == {i \in Ids : entry[i] # Absent}

LineageInit ==
    /\ entry = [i \in Ids |-> Absent]
    /\ filing = Free
    /\ job = [p \in Procs |-> Idle]
    /\ begun = 0

-----------------------------------------------------------------------------
(* The walk from an entry up its parents, one step per index.              *)
Walk(i) ==
    LET up[n \in 0..Cardinality(Ids)] ==
            IF n = 0 THEN i
            ELSE IF up[n - 1] \in Filed THEN entry[up[n - 1]].parent ELSE Root
    IN  up

Cyclic(i) == Walk(i)[Cardinality(Ids)] # Root

(* The depth a branch of i would have.                                     *)
Depth(i) == Cardinality({n \in DOMAIN Walk(i) : Walk(i)[n] # Root})

Children(i) == {c \in Filed : entry[c].parent = i}

(* stagnant_parents(): enough children refuted and none confirmed.         *)
Stagnant(i) ==
    /\ Cardinality({c \in Children(i) : entry[c].verdict = "refuted"}) >= Stagnation
    /\ \A c \in Children(i) : entry[c].verdict # "confirmed"

(* check_branch(): known parent, lineage that ends, depth and sibling caps,*)
(* and a parent whose branches are not all refuted.                        *)
CheckBranch(par) ==
    par # Root =>
        /\ par \in Filed
        /\ ~Cyclic(par)
        /\ Depth(par) <= MaxDepth
        /\ Cardinality(Children(par)) < MaxChildren
        /\ ~Stagnant(par)

(* check_derived(): lineage kept off the tree, never beside a parent.      *)
CheckDerived(der, par) == der => par = Root /\ Filed # {}

Fresh(par, der) ==
    [parent |-> par, derived |-> der, moved |-> FALSE, verdict |-> "open", supersedes |-> {}]

Hold(p, j) == job' = [job EXCEPT ![p] = j]

Begun == begun < MaxChanges /\ begun' = begun + 1

Drop(p) == job' = [job EXCEPT ![p] = Idle]

NextId == CHOOSE i \in Ids \ Filed : \A j \in Ids \ Filed : i <= j

-----------------------------------------------------------------------------
(* Fault: the check runs before the filing lock is taken.                  *)
FileBranchUnlocked(p) ==
    \E par \in {Root} \union Filed, der \in BOOLEAN :
        /\ job[p] = Idle /\ Filed # Ids
        /\ CheckDerived(der, par) /\ CheckBranch(par)
        /\ Hold(p, [op |-> "file", id |-> NextId, was |-> Absent, new |-> Fresh(par, der)])
        /\ UNCHANGED <<entry, filing, begun>>

(* `ar entry new` and _file(): the gate, inside the filing lock.           *)
FileBranch(p) ==
    \E par \in {Root} \union Filed, der \in BOOLEAN :
        /\ job[p] = Idle /\ filing = Free /\ Filed # Ids
        /\ CheckDerived(der, par) /\ CheckBranch(par)
        /\ filing' = p
        /\ Hold(p, [op |-> "file", id |-> NextId, was |-> Absent, new |-> Fresh(par, der)])
        /\ UNCHANGED <<entry, begun>>

(* create(renumber=True): the record lands under a number nobody took.     *)
CreateBranch(p) ==
    /\ job[p] # Idle /\ job[p].op = "file" /\ Filed # Ids
    /\ entry' = [entry EXCEPT ![NextId] = job[p].new]
    /\ filing' = IF filing = p THEN Free ELSE filing
    /\ Drop(p) /\ UNCHANGED begun

(* `ar entry amend --parent`: the same gate, outside the lock.  The entry's*)
(* own subtree is not looked at, and a derivation gives way to the parent. *)
AmendParent(p) ==
    \E i \in Filed, par \in {Root} \union Filed :
        /\ job[p] = Idle /\ CheckBranch(par) /\ Begun
        /\ Hold(p, [op |-> "amend", id |-> i, was |-> entry[i],
                    new |-> [entry[i] EXCEPT !.parent = par, !.moved = TRUE,
                                             !.derived = @ /\ par = Root]])
        /\ UNCHANGED <<entry, filing>>

(* Store.save(): refused when the record changed since it was read.        *)
SaveAmend(p) ==
    /\ job[p] # Idle /\ job[p].op = "amend"
    /\ entry' = IF entry[job[p].id] = job[p].was
                THEN [entry EXCEPT ![job[p].id] = job[p].new] ELSE entry
    /\ Drop(p) /\ UNCHANGED <<filing, begun>>

(* A verdict on the entry itself: one guarded write.                       *)
CloseOn(i) ==
    /\ i \in Filed /\ entry[i].verdict = "open"
    /\ \E v \in {"refuted", "confirmed"} : entry' = [entry EXCEPT ![i].verdict = v]
    /\ UNCHANGED <<filing, job, begun>>

(* `ar close <i> superseded --superseded-by <r>`: both records are read.   *)
Supersede(p) ==
    \E i, r \in Filed :
        /\ job[p] = Idle /\ i # r /\ entry[i].verdict = "open" /\ Begun
        /\ Hold(p, [op |-> "absorb", id |-> i, was |-> entry[i], by |-> r, seen |-> entry[r]])
        /\ UNCHANGED <<entry, filing>>

(* Fault: the write of the replacement is attempted, and its refusal lost. *)
SaveReplacementBlind(p) ==
    /\ job[p] # Idle /\ job[p].op = "absorb" /\ UNCHANGED <<filing, begun>>
    /\ entry' = IF entry[job[p].by] = job[p].seen
                THEN [entry EXCEPT ![job[p].by].supersedes = @ \union {job[p].id}] ELSE entry
    /\ Hold(p, [job[p] EXCEPT !.op = "retire"])

(* The replacement is written first; refused when it changed meanwhile.    *)
SaveReplacement(p) ==
    /\ job[p] # Idle /\ job[p].op = "absorb" /\ UNCHANGED <<filing, begun>>
    /\ IF entry[job[p].by] = job[p].seen
       THEN /\ entry' = [entry EXCEPT ![job[p].by].supersedes = @ \union {job[p].id}]
            /\ Hold(p, [job[p] EXCEPT !.op = "retire"])
       ELSE UNCHANGED entry /\ Drop(p)

(* ... and the retired entry second, refused when it changed meanwhile.    *)
SaveRetired(p) ==
    /\ job[p] # Idle /\ job[p].op = "retire" /\ UNCHANGED <<filing, begun>>
    /\ entry' = IF entry[job[p].id] = job[p].was
                THEN [entry EXCEPT ![job[p].id].verdict = "superseded"] ELSE entry
    /\ Drop(p)

(* Death of a process; the filing lock it held is stolen later (FileLock). *)
LineageCrash(p) ==
    /\ job[p] # Idle
    /\ filing' = IF filing = p THEN Free ELSE filing
    /\ Drop(p) /\ UNCHANGED <<entry, begun>>

LineageNext ==
    \/ \E p \in Procs : \/ FileBranch(p) \/ CreateBranch(p)
                        \/ AmendParent(p) \/ SaveAmend(p)
                        \/ Supersede(p) \/ SaveReplacement(p) \/ SaveRetired(p)
                        \/ LineageCrash(p)
    \/ \E i \in Ids : CloseOn(i)

LineageSpec == LineageInit /\ [][LineageNext]_lineageVars
-----------------------------------------------------------------------------
(* A parent never has more branches than the cap from filings alone: two   *)
(* concurrent filings, a generator's and a person's, cannot both pass a    *)
(* sibling count that one of them makes stale (cli.py cmd_entry_new, loop  *)
(* _file).  An amended parent is not counted: the amendment is not locked. *)
SiblingCapHeld ==
    \A i \in Filed : Cardinality({c \in Children(i) : ~entry[c].moved}) <= MaxChildren

(* An entry retired as superseded is named by the entry that absorbed it,  *)
(* whatever died between the two writes and whoever amended the replacement*)
(* meanwhile (cmd_close): a duplicate never outlives its only link.        *)
RetirementNamed ==
    \A i \in Filed : entry[i].verdict = "superseded" =>
        \E r \in Filed : i \in entry[r].supersedes
=============================================================================
