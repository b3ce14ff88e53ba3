--------------------------- MODULE RecordProofs ---------------------------
(***************************************************************************)
(* What the record says stands: entries filed under entries, field defects *)
(* ingested at the toolkit, the lessons distilled from verdicts, and what  *)
(* readers are shown of it.                                                *)
(*                                                                         *)
(* Each component has a part of its own, on its instance in the row that   *)
(* MCToolkit runs; the row's variables go by the names of the modules, or  *)
(* near them where two components share a name.                            *)
(* Only the last part, which states the properties as MCToolkit checks     *)
(* them, speaks of a group together. A theorem whose component needs its   *)
(* constants to be numbers, or its model values to be told apart, has that *)
(* as a hypothesis, named ...Hyp (LineageHyp for Lineage).                 *)
(***************************************************************************)
EXTENDS Records, Sequences, SequenceTheorems, FiniteSetTheorems,
        WellFoundedInduction, TLAPS

(* The row, by the names of the modules.                                   *)
entry == x1
filing == x2
recordJob == x3
begun == x4
defect == x1
bundles == x2
field == x4
lock == x5
clock == x2
skill == x3
distil == x4

USE DEF entry, filing, recordJob, begun, defect, bundles, field, lock, clock, skill,
    distil

-----------------------------------------------------------------------------
(* Lineage: entries filed under entries, amended and retired.               *)

(* An instance counts as the library does.                                 *)
LEMMA LineageCounts == ASSUME NEW S PROVE Lin!Cardinality(S) = Cardinality(S)
BY DEF Lin!Cardinality, Cardinality

(* The branches the sibling cap counts.                                    *)
Unmoved(i) == {c \in Lin!Children(i) : ~entry[c].moved}

(* A filing holds the lock from its check to its record, and finds room    *)
(* under its parent still.  An amendment keeps what links the entry to     *)
(* those it absorbed.  A retirement is linked before it is written.        *)
FilingSafe(p) ==
    recordJob[p].op = "file" =>
        /\ filing = p
        /\ recordJob[p].new.verdict = "open"
        /\ recordJob[p].new.parent # Root => Cardinality(Unmoved(recordJob[p].new.parent)) < MaxChildren

AmendSafe(p) ==
    recordJob[p].op = "amend" =>
        /\ recordJob[p].was \in Lin!Entry
        /\ recordJob[p].new.verdict = recordJob[p].was.verdict
        /\ recordJob[p].new.supersedes = recordJob[p].was.supersedes
        /\ recordJob[p].new.moved

RetireSafe(p) ==
    /\ recordJob[p].op \in {"absorb", "retire"} => recordJob[p].by \in Lin!Filed
    /\ recordJob[p].op = "retire" => recordJob[p].id \in entry[recordJob[p].by].supersedes

JobSafe(p) == recordJob[p] # Idle => FilingSafe(p) /\ AmendSafe(p) /\ RetireSafe(p)

(* The cap, for numbers nobody has taken yet as well.                      *)
CapEverywhere == \A i \in EntryIds : Cardinality(Unmoved(i)) <= MaxChildren

LineageInv ==
    /\ Lin!LineageTypeOK /\ CapEverywhere /\ Lin!RetirementNamed
    /\ \A p \in Procs : JobSafe(p)

(* A record that is filed stays, and never loses a link to one it absorbed.*)
LinksKept == \A i \in Lin!Filed : i \in Lin!Filed' /\
    entry[i].supersedes \subseteq entry'[i].supersedes

(* No parent gains a branch that counts.                                   *)
NoNewBranch == \A i \in EntryIds : Unmoved(i)' \subseteq Unmoved(i)

LEMMA LeastExists ==
  ASSUME NEW S \in SUBSET Nat, S # {}
  PROVE  \E i \in S : \A j \in S : i <= j
<1>1. PICK i \in S : \A j \in S : ~(<<j, i>> \in OpToRel(<, Nat))
  BY WFMin, NatLessThanWellFounded
<1>2. \A j \in S : ~(j < i)
  BY <1>1 DEF OpToRel
<1>3. QED
  BY <1>2

LEMMA NextIsNew ==
  ASSUME LineageHyp, Lin!Filed # EntryIds
  PROVE  Lin!NextId \in EntryIds \ Lin!Filed
<1> DEFINE S == EntryIds \ Lin!Filed
<1>1. S \in SUBSET Nat /\ S # {}
  BY DEF LineageHyp, Lin!Filed
<1>2. \E i \in S : \A j \in S : i <= j
  BY <1>1, LeastExists
<1>3. QED
  BY <1>2 DEF Lin!NextId

LEMMA UnmovedFinite ==
  ASSUME LineageHyp, NEW i
  PROVE  /\ IsFiniteSet(Unmoved(i)) /\ Cardinality(Unmoved(i)) \in Nat
         /\ Unmoved(i) \in SUBSET EntryIds
BY FS_Subset, FS_CardinalityType DEF LineageHyp, Unmoved, Lin!Children, Lin!Filed

(* The facts about a record are those of its type.                         *)
LEMMA EntryFields ==
  ASSUME LineageHyp, Lin!LineageTypeOK
  PROVE  /\ \A i \in Lin!Filed : entry[i] \in Lin!Entry
         /\ \A r \in Lin!Entry : r # Absent
         /\ \A j \in Lin!Job : j # Idle
         /\ \A p \in Procs : recordJob[p] # Idle => recordJob[p] \in Lin!Job
BY DEF LineageHyp, Lin!LineageTypeOK, Lin!Filed

(* One record is written over, with its links and its place in the tree    *)
(* kept, or with a new place that no longer counts.                        *)
LEMMA WrittenOver ==
  ASSUME LineageHyp, Lin!LineageTypeOK, NEW i \in Lin!Filed, NEW r \in Lin!Entry,
         entry' = [entry EXCEPT ![i] = r],
         entry[i].supersedes \subseteq r.supersedes,
         r.moved \/ (r.parent = entry[i].parent /\ r.moved = entry[i].moved)
  PROVE  entry' \in [EntryIds -> {Absent} \union Lin!Entry] /\ Lin!Filed' = Lin!Filed /\
      LinksKept /\ NoNewBranch
<1>1. entry' \in [EntryIds -> {Absent} \union Lin!Entry] /\ entry'[i] = r
      /\ \A k \in EntryIds : k # i => entry'[k] = entry[k]
  BY DEF Lin!LineageTypeOK, Lin!Filed
<1>2. Lin!Filed' = Lin!Filed
  BY <1>1, EntryFields DEF Lin!Filed
<1>3. LinksKept
  BY <1>1, <1>2 DEF LinksKept
<1>4. NoNewBranch
  BY <1>1, <1>2 DEF NoNewBranch, Unmoved, Lin!Children, Lin!Filed
<1>5. QED
  BY <1>1, <1>2, <1>3, <1>4

(* The cap and the links survive whatever adds no branch and keeps links.  *)
LEMMA CapKept ==
  ASSUME LineageHyp, NoNewBranch, NEW i \in EntryIds
  PROVE  Cardinality(Unmoved(i)') <= Cardinality(Unmoved(i))
<1>1. IsFiniteSet(Unmoved(i)) /\ Unmoved(i)' \in SUBSET Unmoved(i)
  BY UnmovedFinite DEF NoNewBranch
<1>2. QED
  BY <1>1, FS_Subset

LEMMA SiblingsKept ==
  ASSUME LineageHyp, CapEverywhere, NoNewBranch
  PROVE  CapEverywhere'
<1>1. ASSUME NEW i \in EntryIds PROVE Cardinality(Unmoved(i)') <= MaxChildren
  <2>1. i \in EntryIds /\ Cardinality(Unmoved(i)) <= MaxChildren
    BY DEF CapEverywhere
  <2>2. Cardinality(Unmoved(i)') <= Cardinality(Unmoved(i)) /\ Cardinality(Unmoved(i)) \in Nat
    BY <2>1, CapKept, UnmovedFinite
  <2>3. Cardinality(Unmoved(i)') \in Nat
    BY <2>1, FS_Subset, FS_CardinalityType, UnmovedFinite DEF NoNewBranch
  <2>4. QED
    BY <2>1, <2>2, <2>3 DEF LineageHyp
<1>2. QED
  BY <1>1 DEF CapEverywhere

LEMMA NamesKept ==
  ASSUME Lin!RetirementNamed, LinksKept, NEW i \in Lin!Filed, entry[i].verdict = "superseded"
  PROVE  \E r \in Lin!Filed' : i \in entry'[r].supersedes
BY DEF Lin!RetirementNamed, LinksKept

(* A process that does not move keeps its part, unless it is filing while  *)
(* somebody else adds a branch.                                            *)
LEMMA OthersSafe ==
  ASSUME LineageHyp, Lin!LineageTypeOK, LinksKept, NEW q \in Procs, JobSafe(q),
         recordJob'[q] = recordJob[q],
         recordJob[q] # Idle /\ recordJob[q].op = "file" => NoNewBranch /\ filing' = filing
  PROVE  JobSafe(q)'
<1>1. SUFFICES ASSUME recordJob[q] # Idle PROVE FilingSafe(q)' /\ AmendSafe(q)' /\ RetireSafe(q)'
  BY DEF JobSafe
<1>2. recordJob[q] \in Lin!Job
  BY <1>1, EntryFields
<1>3. FilingSafe(q)'
  <2> PICK par : par = recordJob[q].new.parent
    OBVIOUS
  <2>1. SUFFICES ASSUME recordJob[q].op = "file", par # Root
                 PROVE  Cardinality(Unmoved(par)') < MaxChildren
    BY <1>1 DEF FilingSafe, JobSafe, Unmoved, Lin!Children, Lin!Filed
  <2>2. par \in EntryIds /\ Cardinality(Unmoved(par)) < MaxChildren
    BY <1>1, <1>2, <2>1 DEF Lin!Job, Lin!Entry, JobSafe, FilingSafe
  <2>3. NoNewBranch
    BY <1>1, <2>1
  <2>4. /\ Cardinality(Unmoved(par)') <= Cardinality(Unmoved(par))
        /\ Cardinality(Unmoved(par)) \in Nat
    BY <2>2, <2>3, CapKept, UnmovedFinite
  <2>5. Cardinality(Unmoved(par)') \in Nat
    BY <2>2, <2>3, FS_Subset, FS_CardinalityType, UnmovedFinite DEF NoNewBranch
  <2>6. QED
    BY <2>2, <2>4, <2>5 DEF LineageHyp
<1>4. AmendSafe(q)' /\ RetireSafe(q)'
  BY <1>1 DEF JobSafe, AmendSafe, RetireSafe, LinksKept
<1>5. QED
  BY <1>3, <1>4

(* No record changes.                                                      *)
LEMMA NothingWritten ==
  ASSUME LineageInv, entry' = entry
  PROVE  LinksKept /\ NoNewBranch /\ Lin!Filed' = Lin!Filed /\ CapEverywhere' /\
      Lin!RetirementNamed'
BY DEF LineageInv, LinksKept, NoNewBranch, Unmoved, Lin!Children, Lin!Filed, CapEverywhere,
       Lin!RetirementNamed

LEMMA LineageStarts == ASSUME LineageHyp, Lin!LineageInit PROVE LineageInv
<1>1. Lin!Filed = {}
  BY DEF Lin!LineageInit, Lin!Filed
<1>2. \A i \in EntryIds : Unmoved(i) = {}
  BY <1>1 DEF Unmoved, Lin!Children
<1>3. CapEverywhere
  BY <1>2, FS_EmptySet DEF CapEverywhere, LineageHyp
<1>4. QED
  BY <1>1, <1>3
     DEF LineageHyp, Lin!LineageInit, LineageInv, Lin!LineageTypeOK, Lin!RetirementNamed,
         JobSafe

LEMMA FileBranchSafe ==
  ASSUME LineageHyp, LineageInv, NEW p \in Procs, Lin!FileBranch(p)
  PROVE  LineageInv'
<1>1. PICK par \in {Root} \union Lin!Filed, der \in BOOLEAN :
        /\ recordJob[p] = Idle /\ filing = None /\ Lin!Filed # EntryIds
        /\ Lin!CheckBranch(par) /\ filing' = p
        /\ recordJob' = [recordJob EXCEPT ![p] = [op |-> "file", id |-> Lin!NextId, was |-> Absent,
                                      new |-> Lin!Fresh(par, der)]]
        /\ UNCHANGED <<entry, begun>>
  BY DEF Lin!FileBranch, Lin!Hold
<1> DEFINE r == Lin!Fresh(par, der)
<1>2. /\ r \in Lin!Entry /\ r.parent = par /\ r.verdict = "open" /\ Lin!NextId \in EntryIds
  BY <1>1, NextIsNew DEF Lin!Fresh, Lin!Entry, Lin!Filed
<1> HIDE DEF r
<1> DEFINE j == [op |-> "file", id |-> Lin!NextId, was |-> Absent, new |-> r]
<1>3. j \in Lin!Job /\ j.op = "file" /\ j.new = r
  BY <1>2 DEF Lin!Job
<1>4. recordJob' = [recordJob EXCEPT ![p] = j]
  BY <1>1 DEF r
<1> HIDE DEF j
<1>5. Lin!LineageTypeOK'
  BY <1>1, <1>3, <1>4 DEF LineageInv, Lin!LineageTypeOK
<1>6. LinksKept /\ NoNewBranch /\ Lin!Filed' = Lin!Filed /\ CapEverywhere' /\ Lin!RetirementNamed'
  BY <1>1, NothingWritten
<1>7. JobSafe(p)'
  <2>1. recordJob'[p] = j
    BY <1>4 DEF LineageInv, Lin!LineageTypeOK
  <2>2. ASSUME par # Root PROVE Cardinality(Unmoved(par)') < MaxChildren
    <3>1. Cardinality(Lin!Children(par)) < MaxChildren /\ Unmoved(par)' = Unmoved(par)
      BY <1>1, <2>2, LineageCounts DEF Lin!CheckBranch, Unmoved, Lin!Children, Lin!Filed
    <3>2. IsFiniteSet(Lin!Children(par)) /\ Unmoved(par) \in SUBSET Lin!Children(par)
      BY FS_Subset DEF LineageHyp, Unmoved, Lin!Children, Lin!Filed
    <3>3. /\ Cardinality(Unmoved(par)) <= Cardinality(Lin!Children(par))
          /\ Cardinality(Unmoved(par)) \in Nat /\ Cardinality(Lin!Children(par)) \in Nat
      BY <3>2, FS_Subset, FS_CardinalityType, UnmovedFinite
    <3>4. QED
      BY <3>1, <3>3 DEF LineageHyp
  <2>3. QED
    BY <1>1, <1>2, <1>3, <2>1, <2>2 DEF JobSafe, FilingSafe, AmendSafe, RetireSafe
<1>8. ASSUME NEW q \in Procs, q # p PROVE JobSafe(q)'
  <2>1. recordJob'[q] = recordJob[q] /\ JobSafe(q) /\ Lin!LineageTypeOK
    BY <1>4, <1>8 DEF LineageInv, Lin!LineageTypeOK
  <2>2. recordJob[q] # Idle => recordJob[q].op # "file"
    BY <1>1, <2>1 DEF JobSafe, FilingSafe, LineageHyp
  <2>3. QED
    BY <1>6, <2>1, <2>2, OthersSafe
<1>9. QED
  BY <1>5, <1>6, <1>7, <1>8 DEF LineageInv

(* The branch lands: its parent had room, and nobody else was filing.      *)
LEMMA CreateBranchSafe ==
  ASSUME LineageHyp, LineageInv, NEW p \in Procs, Lin!CreateBranch(p)
  PROVE  LineageInv'
<1> DEFINE i == Lin!NextId
           r == recordJob[p].new
<1>1. /\ recordJob[p] # Idle /\ recordJob[p].op = "file" /\ filing' = None /\ begun' = begun
      /\ recordJob' = [recordJob EXCEPT ![p] = Idle] /\ entry' = [entry EXCEPT ![i] = r]
      /\ filing = p /\ r.verdict = "open"
      /\ r.parent # Root => Cardinality(Unmoved(r.parent)) < MaxChildren
  BY DEF Lin!CreateBranch, Lin!Drop, LineageInv, JobSafe, FilingSafe
<1>2. i \in EntryIds /\ i \notin Lin!Filed
  BY NextIsNew DEF Lin!CreateBranch
<1>3. r \in Lin!Entry
  BY <1>1, EntryFields DEF LineageInv, Lin!Job
<1> HIDE DEF i, r
<1>4. /\ entry' \in [EntryIds -> {Absent} \union Lin!Entry] /\ entry'[i] = r
      /\ \A k \in EntryIds : k # i => entry'[k] = entry[k]
  BY <1>1, <1>2, <1>3 DEF LineageInv, Lin!LineageTypeOK
<1>5. Lin!LineageTypeOK'
  BY <1>1, <1>4 DEF LineageInv, Lin!LineageTypeOK
<1>6. Lin!Filed' = Lin!Filed \union {i} /\ LinksKept
  <2>1. Lin!Filed' = Lin!Filed \union {i}
    BY <1>2, <1>3, <1>4, EntryFields DEF Lin!Filed, LineageInv
  <2>2. QED
    BY <1>2, <1>4, <2>1 DEF LinksKept, Lin!Filed
<1>7. Lin!RetirementNamed'
  <2>1. ASSUME NEW k \in Lin!Filed', entry'[k].verdict = "superseded"
        PROVE  \E m \in Lin!Filed' : k \in entry'[m].supersedes
    <3>1. k # i /\ k \in Lin!Filed /\ entry[k].verdict = "superseded"
      BY <1>1, <1>2, <1>4, <1>6, <2>1 DEF Lin!Filed
    <3>2. QED
      BY <1>6, <3>1, NamesKept DEF LineageInv
  <2>2. QED
    BY <2>1 DEF Lin!RetirementNamed
<1>8. \A k \in EntryIds : Unmoved(k)' \subseteq Unmoved(k) \union (IF k = r.parent THEN {i} ELSE {})
  BY <1>2, <1>4, <1>6 DEF Unmoved, Lin!Children, Lin!Filed
<1>9. CapEverywhere'
  <2>1. ASSUME NEW k \in EntryIds PROVE Cardinality(Unmoved(k)') <= MaxChildren
    <3>1. k \in EntryIds /\ IsFiniteSet(Unmoved(k)) /\ Cardinality(Unmoved(k)) \in Nat
      BY UnmovedFinite DEF Lin!Filed
    <3>2. Cardinality(Unmoved(k)) <= MaxChildren
      BY DEF LineageInv, CapEverywhere
    <3>3. CASE k # r.parent
      <4>1. Unmoved(k)' \in SUBSET Unmoved(k)
        BY <1>8, <3>1, <3>3
      <4>2. Cardinality(Unmoved(k)') <= Cardinality(Unmoved(k)) /\ Cardinality(Unmoved(k)') \in Nat
        BY <3>1, <4>1, FS_Subset, FS_CardinalityType
      <4>3. QED
        BY <3>1, <3>2, <4>2 DEF LineageHyp
    <3>4. CASE k = r.parent
      <4>1. Unmoved(k)' \in SUBSET (Unmoved(k) \union {i})
        BY <1>8, <3>1, <3>4
      <4>2. /\ IsFiniteSet(Unmoved(k) \union {i})
            /\ Cardinality(Unmoved(k) \union {i}) <= Cardinality(Unmoved(k)) + 1
            /\ Cardinality(Unmoved(k) \union {i}) \in Nat
        <5> PICK S : S = Unmoved(k)
          OBVIOUS
        <5>1. /\ IsFiniteSet(S \union {i})
              /\ Cardinality(S \union {i}) = IF i \in S THEN Cardinality(S) ELSE Cardinality(S) + 1
          BY <3>1, FS_AddElement
        <5>2. QED
          BY <3>1, <5>1
      <4>3. /\ Cardinality(Unmoved(k)') <= Cardinality(Unmoved(k) \union {i})
            /\ Cardinality(Unmoved(k)') \in Nat
        BY <4>1, <4>2, FS_Subset, FS_CardinalityType
      <4>4. Cardinality(Unmoved(k)) < MaxChildren
        BY <1>1, <3>1, <3>4 DEF LineageHyp
      <4>5. QED
        BY <3>1, <4>2, <4>3, <4>4 DEF LineageHyp
    <3>5. QED
      BY <3>3, <3>4
  <2>2. QED
    BY <2>1 DEF CapEverywhere
<1>10. ASSUME NEW q \in Procs PROVE JobSafe(q)'
  <2>1. CASE q = p
    BY <1>1, <2>1 DEF JobSafe, LineageInv, Lin!LineageTypeOK
  <2>2. CASE q # p
    <3>1. recordJob'[q] = recordJob[q] /\ JobSafe(q) /\ Lin!LineageTypeOK
      BY <1>1, <2>2 DEF LineageInv, Lin!LineageTypeOK
    <3>2. recordJob[q] # Idle => recordJob[q].op # "file"
      BY <1>1, <2>2, <3>1 DEF JobSafe, FilingSafe
    <3>3. QED
      BY <1>6, <3>1, <3>2, OthersSafe
  <2>3. QED
    BY <2>1, <2>2
<1>11. QED
  BY <1>5, <1>7, <1>9, <1>10 DEF LineageInv

LEMMA AmendParentSafe ==
  ASSUME LineageHyp, LineageInv, NEW p \in Procs, Lin!AmendParent(p)
  PROVE  LineageInv'
<1>1. PICK i \in Lin!Filed, par \in {Root} \union Lin!Filed :
        /\ recordJob[p] = Idle /\ Lin!Begun /\ UNCHANGED <<entry, filing>>
        /\ recordJob' = [recordJob EXCEPT ![p] =
                      [op |-> "amend", id |-> i, was |-> entry[i],
                       new |-> [entry[i] EXCEPT !.parent = par, !.moved = TRUE,
                                                !.derived = @ /\ par = Root]]]
  BY DEF Lin!AmendParent, Lin!Hold
<1> DEFINE r == [entry[i] EXCEPT !.parent = par, !.moved = TRUE, !.derived = @ /\ par = Root]
<1>2. i \in EntryIds /\ par \in {Root} \union EntryIds /\ entry[i] \in Lin!Entry
  BY EntryFields DEF Lin!Filed, LineageInv
<1>3. /\ r \in Lin!Entry /\ r.verdict = entry[i].verdict
      /\ r.supersedes = entry[i].supersedes /\ r.moved
  BY <1>2 DEF Lin!Entry
<1> HIDE DEF r
<1> DEFINE j == [op |-> "amend", id |-> i, was |-> entry[i], new |-> r]
<1>4. /\ j \in Lin!Job /\ j.op = "amend" /\ j.was = entry[i] /\ j.new = r
      /\ recordJob' = [recordJob EXCEPT ![p] = j]
  BY <1>1, <1>2, <1>3 DEF Lin!Job, r
<1> HIDE DEF j
<1>5. Lin!LineageTypeOK'
  BY <1>1, <1>4 DEF LineageInv, Lin!LineageTypeOK, Lin!Begun, LineageHyp
<1>6. LinksKept /\ NoNewBranch /\ Lin!Filed' = Lin!Filed /\ CapEverywhere' /\ Lin!RetirementNamed'
  BY <1>1, NothingWritten
<1>7. JobSafe(p)'
  BY <1>2, <1>3, <1>4 DEF JobSafe, FilingSafe, AmendSafe, RetireSafe, LineageInv, Lin!LineageTypeOK
<1>8. ASSUME NEW q \in Procs, q # p PROVE JobSafe(q)'
  BY <1>1, <1>4, <1>6, <1>8, OthersSafe DEF LineageInv, Lin!LineageTypeOK
<1>9. QED
  BY <1>5, <1>6, <1>7, <1>8 DEF LineageInv

LEMMA SupersedeSafe ==
  ASSUME LineageHyp, LineageInv, NEW p \in Procs, Lin!Supersede(p)
  PROVE  LineageInv'
<1>1. PICK i \in Lin!Filed, r \in Lin!Filed :
        /\ recordJob[p] = Idle /\ Lin!Begun /\ UNCHANGED <<entry, filing>>
        /\ recordJob' = [recordJob EXCEPT ![p] = [op |-> "absorb", id |-> i, was |-> entry[i],
                                      by |-> r, seen |-> entry[r]]]
  BY DEF Lin!Supersede, Lin!Hold
<1>2. i \in EntryIds /\ r \in EntryIds /\ entry[i] \in Lin!Entry /\ entry[r] \in Lin!Entry
  BY EntryFields DEF Lin!Filed, LineageInv
<1> DEFINE j == [op |-> "absorb", id |-> i, was |-> entry[i], by |-> r, seen |-> entry[r]]
<1>3. j \in Lin!Job /\ j.op = "absorb" /\ j.by = r /\ recordJob' = [recordJob EXCEPT ![p] = j]
  BY <1>1, <1>2 DEF Lin!Job
<1> HIDE DEF j
<1>4. Lin!LineageTypeOK'
  BY <1>1, <1>3 DEF LineageInv, Lin!LineageTypeOK, Lin!Begun, LineageHyp
<1>5. LinksKept /\ NoNewBranch /\ Lin!Filed' = Lin!Filed /\ CapEverywhere' /\ Lin!RetirementNamed'
  BY <1>1, NothingWritten
<1>6. JobSafe(p)'
  BY <1>3, <1>5 DEF JobSafe, FilingSafe, AmendSafe, RetireSafe, LineageInv, Lin!LineageTypeOK
<1>7. ASSUME NEW q \in Procs, q # p PROVE JobSafe(q)'
  BY <1>1, <1>3, <1>5, <1>7, OthersSafe DEF LineageInv, Lin!LineageTypeOK
<1>8. QED
  BY <1>4, <1>5, <1>6, <1>7 DEF LineageInv

LEMMA LineageCrashSafe ==
  ASSUME LineageHyp, LineageInv, NEW p \in Procs, Lin!LineageCrash(p)
  PROVE  LineageInv'
<1>1. /\ entry' = entry /\ begun' = begun /\ recordJob' = [recordJob EXCEPT ![p] = Idle]
      /\ filing' = IF filing = p THEN None ELSE filing
  BY DEF Lin!LineageCrash, Lin!Drop
<1>2. Lin!LineageTypeOK'
  BY <1>1 DEF LineageInv, Lin!LineageTypeOK
<1>3. LinksKept /\ NoNewBranch /\ Lin!Filed' = Lin!Filed /\ CapEverywhere' /\ Lin!RetirementNamed'
  BY <1>1, NothingWritten
<1>4. ASSUME NEW q \in Procs PROVE JobSafe(q)'
  <2>1. CASE q = p
    BY <1>1, <2>1 DEF JobSafe, LineageInv, Lin!LineageTypeOK
  <2>2. CASE q # p
    <3>1. recordJob'[q] = recordJob[q] /\ JobSafe(q) /\ Lin!LineageTypeOK
      BY <1>1, <2>2 DEF LineageInv, Lin!LineageTypeOK
    <3>2. recordJob[q] # Idle /\ recordJob[q].op = "file" => filing' = filing
      BY <1>1, <2>2, <3>1 DEF JobSafe, FilingSafe
    <3>3. QED
      BY <1>3, <3>1, <3>2, OthersSafe
  <2>3. QED
    BY <2>1, <2>2
<1>5. QED
  BY <1>2, <1>3, <1>4 DEF LineageInv

(* A record was written over: what is left to show of such a step.         *)
LEMMA FilingRewriteSafe ==
  ASSUME LineageHyp, LineageInv, NEW i \in Lin!Filed, NEW r \in Lin!Entry,
         entry' = [entry EXCEPT ![i] = r],
         entry[i].supersedes \subseteq r.supersedes,
         r.moved \/ (r.parent = entry[i].parent /\ r.moved = entry[i].moved),
         r.verdict = "superseded" => \/ entry[i].verdict = "superseded"
                                     \/ \E k \in Lin!Filed : i \in entry[k].supersedes
  PROVE  /\ entry' \in [EntryIds -> {Absent} \union Lin!Entry] /\ LinksKept /\ NoNewBranch
         /\ CapEverywhere' /\ Lin!RetirementNamed'
<1>1. /\ entry' \in [EntryIds -> {Absent} \union Lin!Entry] /\ Lin!Filed' = Lin!Filed
      /\ LinksKept /\ NoNewBranch
  BY WrittenOver DEF LineageInv
<1>2. CapEverywhere'
  BY <1>1, SiblingsKept DEF LineageInv
<1>3. ASSUME NEW k \in Lin!Filed, entry'[k].verdict = "superseded"
      PROVE  \E m \in Lin!Filed : k \in entry'[m].supersedes
  <2>1. k \in EntryIds /\ (k = i => entry'[k] = r) /\ (k # i => entry'[k] = entry[k])
    BY DEF LineageInv, Lin!LineageTypeOK, Lin!Filed
  <2>2. entry[k].verdict = "superseded" \/ \E m \in Lin!Filed : k \in entry[m].supersedes
    BY <1>3, <2>1
  <2>3. QED
    BY <1>1, <2>2 DEF LineageInv, Lin!RetirementNamed, LinksKept
<1>4. QED
  BY <1>1, <1>2, <1>3 DEF Lin!RetirementNamed

LEMMA SaveAmendSafe ==
  ASSUME LineageHyp, LineageInv, NEW p \in Procs, Lin!SaveAmend(p)
  PROVE  LineageInv'
<1>1. /\ recordJob[p] # Idle /\ recordJob[p].op = "amend" /\ UNCHANGED <<filing, begun>>
      /\ recordJob' = [recordJob EXCEPT ![p] = Idle]
      /\ entry' = IF entry[recordJob[p].id] = recordJob[p].was
                  THEN [entry EXCEPT ![recordJob[p].id] = recordJob[p].new] ELSE entry
  BY DEF Lin!SaveAmend, Lin!Drop
<1>2. /\ recordJob[p] \in Lin!Job /\ recordJob[p].id \in EntryIds
      /\ recordJob[p].new \in Lin!Entry /\ AmendSafe(p)
  BY <1>1, EntryFields DEF LineageInv, Lin!Job, JobSafe
<1>3. /\ entry' \in [EntryIds -> {Absent} \union Lin!Entry] /\ LinksKept /\ NoNewBranch
      /\ CapEverywhere' /\ Lin!RetirementNamed'
  <2>1. CASE entry[recordJob[p].id] = recordJob[p].was
    <3> DEFINE i == recordJob[p].id
               r == recordJob[p].new
    <3>1. /\ i \in Lin!Filed /\ r \in Lin!Entry /\ entry' = [entry EXCEPT ![i] = r] /\ r.moved
          /\ r.supersedes = entry[i].supersedes /\ r.verdict = entry[i].verdict
      BY <1>1, <1>2, <2>1 DEF AmendSafe, Lin!Filed, LineageHyp
    <3> HIDE DEF i, r
    <3>2. QED
      BY <3>1, FilingRewriteSafe
  <2>2. CASE entry[recordJob[p].id] # recordJob[p].was
    BY <1>1, <2>2, NothingWritten DEF LineageInv, Lin!LineageTypeOK
  <2>3. QED
    BY <2>1, <2>2
<1>4. Lin!LineageTypeOK'
  BY <1>1, <1>3 DEF LineageInv, Lin!LineageTypeOK
<1>5. ASSUME NEW q \in Procs PROVE JobSafe(q)'
  <2>1. CASE q = p
    BY <1>1, <2>1 DEF JobSafe, LineageInv, Lin!LineageTypeOK
  <2>2. CASE q # p
    BY <1>1, <1>3, <2>2, OthersSafe DEF LineageInv, Lin!LineageTypeOK
  <2>3. QED
    BY <2>1, <2>2
<1>6. QED
  BY <1>3, <1>4, <1>5 DEF LineageInv

(* The replacement takes the retired entry up, or the retirement is off.   *)
LEMMA SaveReplacementSafe ==
  ASSUME LineageHyp, LineageInv, NEW p \in Procs, Lin!SaveReplacement(p)
  PROVE  LineageInv'
<1>1. /\ recordJob[p] # Idle /\ recordJob[p].op = "absorb" /\ UNCHANGED <<filing, begun>>
  BY DEF Lin!SaveReplacement
<1>2. /\ recordJob[p] \in Lin!Job /\ recordJob[p].id \in EntryIds /\ recordJob[p].by \in Lin!Filed
      /\ entry[recordJob[p].by] \in Lin!Entry
  BY <1>1, EntryFields DEF LineageInv, Lin!Job, JobSafe, RetireSafe
<1>3. CASE entry[recordJob[p].by] = recordJob[p].seen
  <2> DEFINE b == recordJob[p].by
             i == recordJob[p].id
             r == [entry[b] EXCEPT !.supersedes = @ \union {i}]
             j == [recordJob[p] EXCEPT !.op = "retire"]
  <2>1. entry' = [entry EXCEPT ![b] = r] /\ recordJob' = [recordJob EXCEPT ![p] = j]
    BY <1>3 DEF Lin!SaveReplacement, Lin!Hold
  <2>2. /\ r \in Lin!Entry /\ r.parent = entry[b].parent /\ r.moved = entry[b].moved
        /\ r.verdict = entry[b].verdict /\ r.supersedes = entry[b].supersedes \union {i}
    BY <1>2 DEF Lin!Entry
  <2>3. j \in Lin!Job /\ j.op = "retire" /\ j.by = b /\ j.id = i
    BY <1>1, <1>2 DEF Lin!Job
  <2>4. b \in Lin!Filed /\ i \in EntryIds
    BY <1>2
  <2> HIDE DEF b, i, r, j
  <2>5. /\ entry' \in [EntryIds -> {Absent} \union Lin!Entry] /\ LinksKept /\ NoNewBranch
        /\ CapEverywhere' /\ Lin!RetirementNamed'
    BY <2>1, <2>2, <2>4, FilingRewriteSafe
  <2>6. Lin!LineageTypeOK'
    BY <1>1, <2>1, <2>3, <2>5 DEF LineageInv, Lin!LineageTypeOK
  <2>7. JobSafe(p)'
    <3>1. recordJob'[p] = j /\ entry'[b] = r /\ b \in Lin!Filed'
      BY <2>1, <2>4, <2>5 DEF LineageInv, Lin!LineageTypeOK, LinksKept, Lin!Filed
    <3>2. QED
      BY <2>2, <2>3, <3>1 DEF JobSafe, FilingSafe, AmendSafe, RetireSafe
  <2>8. ASSUME NEW q \in Procs, q # p PROVE JobSafe(q)'
    BY <1>1, <2>1, <2>5, <2>8, OthersSafe DEF LineageInv, Lin!LineageTypeOK
  <2>9. QED
    BY <2>5, <2>6, <2>7, <2>8 DEF LineageInv
<1>4. CASE entry[recordJob[p].by] # recordJob[p].seen
  <2>1. entry' = entry /\ recordJob' = [recordJob EXCEPT ![p] = Idle]
    BY <1>4 DEF Lin!SaveReplacement, Lin!Drop
  <2>2. LinksKept /\ NoNewBranch /\ CapEverywhere' /\ Lin!RetirementNamed'
    BY <2>1, NothingWritten
  <2>3. Lin!LineageTypeOK'
    BY <1>1, <2>1 DEF LineageInv, Lin!LineageTypeOK
  <2>4. JobSafe(p)'
    BY <2>1 DEF JobSafe, LineageInv, Lin!LineageTypeOK
  <2>5. ASSUME NEW q \in Procs, q # p PROVE JobSafe(q)'
    BY <1>1, <2>1, <2>2, <2>5, OthersSafe DEF LineageInv, Lin!LineageTypeOK
  <2>6. QED
    BY <2>2, <2>3, <2>4, <2>5 DEF LineageInv
<1>5. QED
  BY <1>3, <1>4

LEMMA SaveRetiredSafe ==
  ASSUME LineageHyp, LineageInv, NEW p \in Procs, Lin!SaveRetired(p)
  PROVE  LineageInv'
<1>1. /\ recordJob[p] # Idle /\ recordJob[p].op = "retire" /\ UNCHANGED <<filing, begun>>
      /\ recordJob' = [recordJob EXCEPT ![p] = Idle]
  BY DEF Lin!SaveRetired, Lin!Drop
<1>2. /\ recordJob[p] \in Lin!Job /\ recordJob[p].id \in EntryIds /\ recordJob[p].was \in Lin!Entry
      /\ recordJob[p].by \in Lin!Filed /\ recordJob[p].id \in entry[recordJob[p].by].supersedes
  BY <1>1, EntryFields DEF LineageInv, Lin!Job, JobSafe, RetireSafe
<1>3. /\ entry' \in [EntryIds -> {Absent} \union Lin!Entry] /\ LinksKept /\ NoNewBranch
      /\ CapEverywhere' /\ Lin!RetirementNamed'
  <2>1. CASE entry[recordJob[p].id] = recordJob[p].was
    <3> DEFINE i == recordJob[p].id
               r == [entry[i] EXCEPT !.verdict = "superseded"]
    <3>1. /\ i \in Lin!Filed /\ entry' = [entry EXCEPT ![i] = r]
          /\ i \in entry[recordJob[p].by].supersedes
      BY <1>2, <2>1 DEF Lin!SaveRetired, Lin!Filed, LineageHyp
    <3>2. /\ r \in Lin!Entry /\ r.parent = entry[i].parent /\ r.moved = entry[i].moved
          /\ r.supersedes = entry[i].supersedes
      BY <1>2, <2>1 DEF Lin!Entry, Lin!Verdicts
    <3> HIDE DEF i, r
    <3>3. QED
      BY <1>2, <3>1, <3>2, FilingRewriteSafe
  <2>2. CASE entry[recordJob[p].id] # recordJob[p].was
    BY <2>2, NothingWritten DEF Lin!SaveRetired, LineageInv, Lin!LineageTypeOK
  <2>3. QED
    BY <2>1, <2>2
<1>4. Lin!LineageTypeOK'
  BY <1>1, <1>3 DEF LineageInv, Lin!LineageTypeOK
<1>5. ASSUME NEW q \in Procs PROVE JobSafe(q)'
  <2>1. CASE q = p
    BY <1>1, <2>1 DEF JobSafe, LineageInv, Lin!LineageTypeOK
  <2>2. CASE q # p
    BY <1>1, <1>3, <2>2, OthersSafe DEF LineageInv, Lin!LineageTypeOK
  <2>3. QED
    BY <2>1, <2>2
<1>6. QED
  BY <1>3, <1>4, <1>5 DEF LineageInv

LEMMA CloseOnSafe ==
  ASSUME LineageHyp, LineageInv, NEW i \in EntryIds, Lin!CloseOn(i)
  PROVE  LineageInv'
<1>1. PICK v \in {"refuted", "confirmed"} : entry' = [entry EXCEPT ![i].verdict = v]
  BY DEF Lin!CloseOn
<1> DEFINE r == [entry[i] EXCEPT !.verdict = v]
<1>2. i \in Lin!Filed /\ entry[i] \in Lin!Entry /\ UNCHANGED <<filing, recordJob, begun>>
  BY EntryFields DEF Lin!CloseOn, LineageInv
<1>3. /\ r \in Lin!Entry /\ r.parent = entry[i].parent /\ r.moved = entry[i].moved
      /\ r.supersedes = entry[i].supersedes /\ r.verdict # "superseded"
      /\ entry' = [entry EXCEPT ![i] = r]
  BY <1>1, <1>2 DEF Lin!Entry, Lin!Verdicts
<1> HIDE DEF r
<1>4. /\ entry' \in [EntryIds -> {Absent} \union Lin!Entry] /\ LinksKept /\ NoNewBranch
      /\ CapEverywhere' /\ Lin!RetirementNamed'
  BY <1>2, <1>3, FilingRewriteSafe
<1>5. Lin!LineageTypeOK'
  BY <1>2, <1>4 DEF LineageInv, Lin!LineageTypeOK
<1>6. ASSUME NEW q \in Procs PROVE JobSafe(q)'
  BY <1>2, <1>4, OthersSafe DEF LineageInv
<1>7. QED
  BY <1>4, <1>5, <1>6 DEF LineageInv

(* The invariant holds throughout.                                         *)
THEOREM LineageSafe == LineageHyp => (Lin!LineageSpec => []LineageInv)
<1> SUFFICES ASSUME LineageHyp PROVE Lin!LineageSpec => []LineageInv
  OBVIOUS
<1>1. Lin!LineageInit => LineageInv
  BY LineageStarts
<1>2. LineageInv /\ [Lin!LineageNext]_Lin!lineageVars => LineageInv'
  <2>1. LineageInv /\ Lin!LineageNext => LineageInv'
    BY FileBranchSafe, CreateBranchSafe, AmendParentSafe, SaveAmendSafe, SupersedeSafe,
       SaveReplacementSafe, SaveRetiredSafe, LineageCrashSafe, CloseOnSafe DEF Lin!LineageNext
  <2>2. LineageInv /\ UNCHANGED Lin!lineageVars => LineageInv'
    <3> SUFFICES ASSUME LineageInv, UNCHANGED Lin!lineageVars PROVE LineageInv'
      OBVIOUS
    <3>1. UNCHANGED <<entry, filing, recordJob, begun>>
      BY DEF Lin!lineageVars
    <3>2. Lin!LineageTypeOK' /\ LinksKept /\ NoNewBranch /\ CapEverywhere' /\ Lin!RetirementNamed'
      BY <3>1, NothingWritten DEF LineageInv, Lin!LineageTypeOK
    <3>3. QED
      BY <3>1, <3>2, OthersSafe DEF LineageInv
  <2>3. QED
    BY <2>1, <2>2
<1>3. QED
  BY <1>1, <1>2, PTL DEF Lin!LineageSpec

(* The types, for any numbers and any processes.                           *)
THEOREM LineageTypeCorrect == LineageHyp => (Lin!LineageSpec => []Lin!LineageTypeOK)
<1> SUFFICES ASSUME LineageHyp PROVE Lin!LineageSpec => []Lin!LineageTypeOK
  OBVIOUS
<1>1. LineageInv => Lin!LineageTypeOK
  BY DEF LineageInv
<1>2. QED
  BY <1>1, LineageSafe, PTL

(* However many filings race, a parent never has more branches than the    *)
(* cap from filings (cli.py cmd_entry_new and loop.py _file, inside the    *)
(* filing lock).                                                           *)
THEOREM SiblingCapHolds == LineageHyp => (Lin!LineageSpec => []Lin!SiblingCapHeld)
<1> SUFFICES ASSUME LineageHyp PROVE Lin!LineageSpec => []Lin!SiblingCapHeld
  OBVIOUS
<1>1. LineageInv => Lin!SiblingCapHeld
  BY LineageCounts DEF LineageInv, CapEverywhere, Lin!SiblingCapHeld, Unmoved, Lin!Filed
<1>2. QED
  BY <1>1, LineageSafe, PTL

(* A retired entry is named by the one that absorbed it, whatever died or  *)
(* was amended between the two writes (cli.py cmd_close).                  *)
THEOREM RetirementNamedHolds == LineageHyp => (Lin!LineageSpec => []Lin!RetirementNamed)
<1> SUFFICES ASSUME LineageHyp PROVE Lin!LineageSpec => []Lin!RetirementNamed
  OBVIOUS
<1>1. LineageInv => Lin!RetirementNamed
  BY DEF LineageInv
<1>2. QED
  BY <1>1, LineageSafe, PTL

-----------------------------------------------------------------------------
(* Defects: reports ingested into the toolkit's own field track.           *)

Item == [id : Def!Ids, evidence : Def!Evidence]
Bundle == [name : Projects, items : Seq(Item)]
Received == [tag : Def!Tags, evidence : Def!Evidence]
IngestJob == [at : Def!Phases, bundle : Bundle, left : Seq(Item), seen : SUBSET Def!Tags]

FiledTags == {field[k].tag : k \in DOMAIN field}

(* One item of a bundle under way is refused, filed, or still to come.     *)
Accounted(n, item) ==
    \/ item.evidence = "incomplete"
    \/ <<recordJob[n].bundle.name, item.id>> \in FiledTags
    \/ \E i \in DOMAIN recordJob[n].left : recordJob[n].left[i] = item

(* Who reads or files has the lock, so what it has seen is what there is.  *)
IngestRight(n) ==
    recordJob[n] # Idle =>
        /\ recordJob[n].at \in {"read", "file"} => lock = n
        /\ recordJob[n].at = "file" => recordJob[n].seen = FiledTags
        /\ recordJob[n].at = "done" => recordJob[n].left = <<>>
        /\ \A k \in DOMAIN recordJob[n].bundle.items : Accounted(n, recordJob[n].bundle.items[k])

FieldRight ==
    /\ field \in Seq(Received)
    /\ \A k, other \in DOMAIN field : field[k].tag = field[other].tag => k = other
    /\ \A k \in DOMAIN field : field[k].evidence # "incomplete"

DefectsInv ==
    /\ bundles \subseteq Bundle /\ recordJob \in [Ingesters -> {Idle} \union IngestJob]
    /\ FieldRight
    /\ \A n \in Ingesters : IngestRight(n)

LEMMA TailOf ==
  ASSUME NEW S, NEW s \in Seq(S), s # <<>>, NEW i \in DOMAIN s
  PROVE  /\ i # 1 => i - 1 \in DOMAIN Tail(s) /\ Tail(s)[i - 1] = s[i]
         /\ i = 1 => s[i] = Head(s)
         /\ Head(s) \in S /\ Tail(s) \in Seq(S)
OBVIOUS

(* An ingest whose record stays is still right when the field has grown,   *)
(* unless it had the lock.                                                 *)
LEMMA OtherJobsRight ==
  ASSUME NEW m \in Ingesters, IngestRight(m), recordJob'[m] = recordJob[m],
         FiledTags \subseteq FiledTags',
         recordJob[m] # Idle /\ recordJob[m].at \in {"read", "file"} => lock' = m /\ FiledTags' = FiledTags
  PROVE  IngestRight(m)'
<1>1. ASSUME NEW item, Accounted(m, item) PROVE Accounted(m, item)'
  BY <1>1 DEF Accounted
<1>2. QED
  BY <1>1 DEF IngestRight

(* One ingest moves on, and the field is what it was.                      *)
LEMMA IngestMoves ==
  ASSUME DefectsInv, NEW n \in Ingesters, NEW j \in {Idle} \union IngestJob,
         recordJob' = [recordJob EXCEPT ![n] = j], UNCHANGED <<bundles, field>>,
         \A m \in Ingesters \ {n} :
             recordJob[m] # Idle /\ recordJob[m].at \in {"read", "file"} => lock' = m,
         IngestRight(n)'
  PROVE  DefectsInv'
<1>1. /\ recordJob' \in [Ingesters -> {Idle} \union IngestJob]
      /\ \A m \in Ingesters \ {n} : recordJob'[m] = recordJob[m]
  BY DEF DefectsInv
<1>2. FiledTags' = FiledTags
  BY DEF FiledTags
<1>3. ASSUME NEW m \in Ingesters \ {n} PROVE IngestRight(m)'
  BY <1>1, <1>2, OtherJobsRight DEF DefectsInv
<1>4. FieldRight'
  BY DEF DefectsInv, FieldRight
<1>5. QED
  BY <1>1, <1>3, <1>4 DEF DefectsInv

(* The same, when all that moves is where it is.                           *)
LEMMA IngestBecomes ==
  ASSUME DefectsInv, NEW n \in Ingesters, NEW phase \in Def!Phases \ {"file"}, recordJob[n] # Idle,
         Def!Become(n, phase), UNCHANGED <<bundles, field>>,
         phase = "read" => lock' = n, phase = "done" => recordJob[n].left = <<>>,
         \A m \in Ingesters \ {n} :
             recordJob[m] # Idle /\ recordJob[m].at \in {"read", "file"} => lock' = m
  PROVE  DefectsInv'
<1> PICK j : j = [recordJob[n] EXCEPT !.at = phase]
  OBVIOUS
<1>1. recordJob[n] \in IngestJob
  BY DEF DefectsInv
<1>2. /\ j \in IngestJob /\ j.at = phase /\ j.bundle = recordJob[n].bundle
      /\ j.left = recordJob[n].left
  BY <1>1 DEF IngestJob
<1>3. recordJob' = [recordJob EXCEPT ![n] = j] /\ recordJob'[n] = j
  BY DEF Def!Become, DefectsInv
<1>4. FiledTags' = FiledTags
  BY DEF FiledTags
<1>5. ASSUME NEW item, Accounted(n, item) PROVE Accounted(n, item)'
  BY <1>2, <1>3, <1>4, <1>5 DEF Accounted
<1>6. IngestRight(n)'
  BY <1>2, <1>3, <1>4, <1>5 DEF IngestRight, DefectsInv
<1>7. QED
  BY <1>2, <1>3, <1>6, IngestMoves

(* Nothing of the receiving side moves.                                    *)
LEMMA NothingIngested ==
  ASSUME DefectsInv, bundles' \subseteq Bundle, UNCHANGED <<field, lock, recordJob>>
  PROVE  DefectsInv'
<1>1. FiledTags' = FiledTags
  BY DEF FiledTags
<1>2. ASSUME NEW m \in Ingesters PROVE IngestRight(m)'
  <2>1. IngestRight(m)
    BY DEF DefectsInv
  <2>2. recordJob[m] # Idle /\ recordJob[m].at \in {"read", "file"} => lock' = m
    BY <2>1 DEF IngestRight
  <2>3. QED
    BY <1>1, <2>1, <2>2, OtherJobsRight
<1>3. FieldRight'
  BY DEF DefectsInv, FieldRight
<1>4. QED
  BY <1>2, <1>3 DEF DefectsInv

LEMMA HolderAlone ==
  ASSUME DefectsInv, NEW n \in Ingesters, recordJob[n] # Idle, recordJob[n].at \in {"read", "file"}
  PROVE  /\ lock = n
         /\ \A m \in Ingesters \ {n} : ~(recordJob[m] # Idle /\ recordJob[m].at \in {"read", "file"})
BY DEF DefectsInv, IngestRight

LEMMA ProjectSafe ==
  ASSUME DefectsInv, NEW p \in Projects, NEW i \in Def!Ids,
         Def!Fix(p, i) \/ \E e \in Def!Evidence : Def!File(p, i, e) \/ Def!Amend(p, i, e)
  PROVE  DefectsInv'
<1>1. UNCHANGED <<bundles, field, lock, recordJob>>
  BY DEF Def!Fix, Def!File, Def!Amend
<1>2. QED
  BY <1>1, NothingIngested DEF DefectsInv

LEMMA ItemsOf ==
  ASSUME NEW N \in Nat, NEW ids \in [1..N -> Def!Ids]
  PROVE  [k \in DOMAIN ids |-> [id |-> ids[k], evidence |-> "whole"]] \in Seq(Item)
<1>1. ASSUME NEW k \in 1..N PROVE [id |-> ids[k], evidence |-> "whole"] \in Item
  <2>1. ids[k] \in Def!Ids
    OBVIOUS
  <2>2. QED
    BY <2>1 DEF Item, Def!Evidence
<1>2. [k \in DOMAIN ids |-> [id |-> ids[k], evidence |-> "whole"]] \in [1..N -> Item]
  BY <1>1
<1>3. [1..N -> Item] \subseteq Seq(Item)
  OBVIOUS
<1>4. QED
  BY <1>2, <1>3

LEMMA DefectsCounts == ASSUME NEW S PROVE Def!Cardinality(S) = Cardinality(S)
BY DEF Def!Cardinality, Cardinality

LEMMA ExportSafe ==
  ASSUME DefectsHyp, DefectsInv, NEW p \in Projects, NEW all \in BOOLEAN, Def!Export(p, all)
  PROVE  DefectsInv'
<1>1. \E ids \in [1..Cardinality(Def!Exported(p, all)) -> Def!Exported(p, all)] :
         bundles' = bundles \union
             {[name |-> p, items |-> [k \in DOMAIN ids |-> [id |-> ids[k], evidence |-> "whole"]]]}
  BY DefectsCounts DEF Def!Export
<1> PICK S : S = Def!Exported(p, all)
  OBVIOUS
<1> PICK ids \in [1..Cardinality(S) -> S] :
         bundles' = bundles \union
             {[name |-> p, items |-> [k \in DOMAIN ids |-> [id |-> ids[k], evidence |-> "whole"]]]}
  BY <1>1
<1>2. S \subseteq Def!Ids /\ IsFiniteSet(Def!Ids)
  BY FS_Interval DEF Def!Exported, Def!Ids, DefectsHyp
<1>3. Cardinality(S) \in Nat
  BY <1>2, FS_Subset, FS_CardinalityType
<1>4. ids \in [1..Cardinality(S) -> Def!Ids]
  BY <1>2
<1> PICK items : items = [k \in DOMAIN ids |-> [id |-> ids[k], evidence |-> "whole"]]
  OBVIOUS
<1>6. items \in Seq(Item)
  BY <1>3, <1>4, ItemsOf
<1> PICK b : b = [name |-> p, items |-> items]
  OBVIOUS
<1>7. b \in Bundle /\ bundles' = bundles \union {b}
  BY <1>1, <1>6 DEF Bundle
<1>8. UNCHANGED <<field, lock, recordJob>>
  BY DEF Def!Export
<1>9. bundles' \subseteq Bundle
  BY <1>7 DEF DefectsInv
<1>10. QED
  BY <1>8, <1>9, NothingIngested

LEMMA BeginSafe ==
  ASSUME DefectsInv, NEW n \in Ingesters, NEW b \in bundles, Def!Begin(n, b)
  PROVE  DefectsInv'
<1> PICK j : j = [at |-> "wait", bundle |-> b, left |-> b.items, seen |-> {}]
  OBVIOUS
<1>1. b \in Bundle
  BY DEF DefectsInv
<1>2. j \in IngestJob /\ j.at = "wait" /\ j.bundle = b /\ j.left = b.items
  BY <1>1 DEF IngestJob, Bundle, Def!Phases
<1>3. /\ recordJob' = [recordJob EXCEPT ![n] = j] /\ UNCHANGED <<bundles, field, lock>>
      /\ recordJob'[n] = j
  BY DEF Def!Begin, DefectsInv
<1>4. IngestRight(n)'
  BY <1>2, <1>3 DEF IngestRight, Accounted
<1>5. QED
  BY <1>2, <1>3, <1>4, IngestMoves DEF DefectsInv, IngestRight

LEMMA AcquireFieldSafe ==
  ASSUME DefectsInv, NEW n \in Ingesters, Def!Acquire(n)
  PROVE  DefectsInv'
<1>1. \A m \in Ingesters \ {n} : ~(recordJob[m] # Idle /\ recordJob[m].at \in {"read", "file"})
  BY DEF Def!Acquire, Def!At, DefectsInv, IngestRight
<1>2. recordJob[n] # Idle /\ Def!Become(n, "read") /\ lock' = n /\ UNCHANGED <<bundles, field>>
  BY DEF Def!Acquire, Def!At
<1>3. QED
  BY <1>1, <1>2, IngestBecomes DEF Def!Phases

LEMMA ReadTagsSafe ==
  ASSUME DefectsInv, NEW n \in Ingesters, Def!ReadTags(n)
  PROVE  DefectsInv'
<1> PICK j : j = [recordJob[n] EXCEPT !.at = "file", !.seen = FiledTags]
  OBVIOUS
<1>1. recordJob[n] # Idle /\ recordJob[n].at = "read" /\ recordJob[n] \in IngestJob
  BY DEF Def!ReadTags, Def!At, DefectsInv
<1>2. /\ recordJob' = [recordJob EXCEPT ![n] = j] /\ UNCHANGED <<bundles, field, lock>>
      /\ recordJob'[n] = j
  BY DEF Def!ReadTags, DefectsInv, FiledTags
<1>3. FiledTags \subseteq Def!Tags
  <2>1. \A k \in DOMAIN field : field[k] \in Received
    BY DEF DefectsInv, FieldRight
  <2>2. QED
    BY <2>1 DEF FiledTags, Received
<1>4. /\ j \in IngestJob /\ j.at = "file" /\ j.bundle = recordJob[n].bundle
      /\ j.left = recordJob[n].left
      /\ j.seen = FiledTags
  BY <1>1, <1>3 DEF IngestJob, Def!Phases
<1>5. FiledTags' = FiledTags /\ lock = n
  BY <1>1, <1>2, HolderAlone DEF FiledTags
<1>6. ASSUME NEW item, Accounted(n, item) PROVE Accounted(n, item)'
  BY <1>2, <1>4, <1>5, <1>6 DEF Accounted
<1>7. IngestRight(n)'
  BY <1>1, <1>2, <1>4, <1>5, <1>6 DEF IngestRight, DefectsInv
<1>8. QED
  BY <1>1, <1>2, <1>4, <1>7, IngestMoves, HolderAlone

LEMMA SkipSafe ==
  ASSUME DefectsInv, NEW n \in Ingesters, Def!Skip(n)
  PROVE  DefectsInv'
<1> PICK j : j = [recordJob[n] EXCEPT !.left = Tail(recordJob[n].left)]
  OBVIOUS
<1>1. /\ recordJob[n] # Idle /\ recordJob[n].at = "file" /\ recordJob[n] \in IngestJob
      /\ recordJob[n].left # <<>>
      /\ Def!Tag(n) \in recordJob[n].seen \/ Head(recordJob[n].left).evidence = "incomplete"
  BY DEF Def!Skip, Def!At, DefectsInv
<1>2. /\ recordJob' = [recordJob EXCEPT ![n] = j] /\ UNCHANGED <<bundles, field, lock>>
      /\ recordJob'[n] = j
  BY <1>1 DEF Def!Skip, DefectsInv, IngestJob
<1> PICK left : left = recordJob[n].left
  OBVIOUS
<1>3. left \in Seq(Item) /\ left # <<>> /\ Tail(left) \in Seq(Item)
  BY <1>1, TailOf DEF IngestJob
<1>4. /\ j \in IngestJob /\ j.at = "file" /\ j.bundle = recordJob[n].bundle
      /\ j.left = Tail(left) /\ j.seen = recordJob[n].seen
  BY <1>1, <1>3 DEF IngestJob
<1>5. FiledTags' = FiledTags /\ lock = n /\ recordJob[n].seen = FiledTags
  BY <1>1, <1>2, HolderAlone DEF FiledTags, DefectsInv, IngestRight
<1>6. ASSUME NEW item, Accounted(n, item) PROVE Accounted(n, item)'
  <2>1. ASSUME NEW i \in DOMAIN left, left[i] = item PROVE Accounted(n, item)'
    <3>1. CASE i = 1
      <4>1. item = Head(left)
        BY <1>3, <2>1, <3>1, TailOf
      <4>2. QED
        BY <1>1, <1>2, <1>4, <1>5, <4>1 DEF Accounted, Def!Tag
    <3>2. CASE i # 1
      <4>1. i - 1 \in DOMAIN Tail(left) /\ Tail(left)[i - 1] = item
        BY <1>3, <2>1, <3>2, TailOf
      <4>2. QED
        BY <1>2, <1>4, <4>1 DEF Accounted
    <3>3. QED
      BY <3>1, <3>2
  <2>2. QED
    BY <1>2, <1>4, <1>5, <1>6, <2>1 DEF Accounted
<1>7. IngestRight(n)'
  BY <1>1, <1>2, <1>4, <1>5, <1>6 DEF IngestRight, DefectsInv
<1>8. QED
  BY <1>1, <1>2, <1>4, <1>7, IngestMoves, HolderAlone

(* What is filed is new to the field and to the ingest's memory of it.     *)
LEMMA IngestSafe ==
  ASSUME DefectsInv, NEW n \in Ingesters, Def!Ingest(n)
  PROVE  DefectsInv'
<1> PICK t : t = Def!Tag(n)
  OBVIOUS
<1> PICK r : r = [tag |-> t, evidence |-> Head(recordJob[n].left).evidence]
  OBVIOUS
<1> PICK j : j = [recordJob[n] EXCEPT !.left = Tail(recordJob[n].left),
                                      !.seen = recordJob[n].seen \union {t}]
  OBVIOUS
<1>1. /\ recordJob[n] # Idle /\ recordJob[n].at = "file" /\ recordJob[n] \in IngestJob
      /\ recordJob[n].left # <<>>
      /\ t \notin recordJob[n].seen /\ Head(recordJob[n].left).evidence # "incomplete"
  BY DEF Def!Ingest, Def!At, DefectsInv
<1>2. recordJob' = [recordJob EXCEPT ![n] = j] /\ UNCHANGED <<bundles, lock>> /\ recordJob'[n] = j
  BY <1>1 DEF Def!Ingest, DefectsInv, IngestJob
<1>3. field' = Append(field, r)
  BY DEF Def!Ingest
<1> PICK left : left = recordJob[n].left
  OBVIOUS
<1>4. left \in Seq(Item) /\ left # <<>> /\ Head(left) \in Item /\ Tail(left) \in Seq(Item)
  BY <1>1, TailOf DEF IngestJob
<1>5. t \in Def!Tags /\ t = <<recordJob[n].bundle.name, Head(recordJob[n].left).id>>
  BY <1>1, <1>4 DEF Def!Tag, Def!Tags, IngestJob, Bundle, Item
<1>6. r \in Received /\ r.tag = t /\ r.evidence # "incomplete"
  BY <1>1, <1>4, <1>5 DEF Received, Item
<1>7. lock = n /\ recordJob[n].seen = FiledTags
  BY <1>1, HolderAlone DEF DefectsInv, IngestRight
<1>8. field \in Seq(Received)
  BY DEF DefectsInv, FieldRight
<1>9. /\ field' \in Seq(Received) /\ DOMAIN field' = DOMAIN field \union {Len(field) + 1}
      /\ field'[Len(field) + 1] = r /\ Len(field) + 1 \notin DOMAIN field
      /\ \A k \in DOMAIN field : field'[k] = field[k]
  BY <1>3, <1>6, <1>8
<1>10. FieldRight'
  BY <1>1, <1>6, <1>7, <1>9 DEF DefectsInv, FieldRight, FiledTags
<1>11. FiledTags' = FiledTags \union {t}
  BY <1>6, <1>9 DEF FiledTags
<1>12. /\ j \in IngestJob /\ j.at = "file" /\ j.bundle = recordJob[n].bundle
       /\ j.left = Tail(left) /\ j.seen = FiledTags'
  BY <1>1, <1>4, <1>5, <1>7, <1>11 DEF IngestJob
<1>13. ASSUME NEW item, Accounted(n, item) PROVE Accounted(n, item)'
  <2>1. ASSUME NEW i \in DOMAIN left, left[i] = item PROVE Accounted(n, item)'
    <3>1. CASE i = 1
      <4>1. item = Head(left)
        BY <1>4, <2>1, <3>1, TailOf
      <4>2. QED
        BY <1>2, <1>5, <1>11, <1>12, <4>1 DEF Accounted
    <3>2. CASE i # 1
      <4>1. i - 1 \in DOMAIN Tail(left) /\ Tail(left)[i - 1] = item
        BY <1>4, <2>1, <3>2, TailOf
      <4>2. QED
        BY <1>2, <1>12, <4>1 DEF Accounted
    <3>3. QED
      BY <3>1, <3>2
  <2>2. QED
    BY <1>2, <1>11, <1>12, <1>13, <2>1 DEF Accounted
<1>14. IngestRight(n)'
  BY <1>1, <1>2, <1>7, <1>12, <1>13 DEF IngestRight, DefectsInv
<1>15. /\ recordJob' \in [Ingesters -> {Idle} \union IngestJob]
       /\ \A m \in Ingesters \ {n} : recordJob'[m] = recordJob[m]
  BY <1>2, <1>12 DEF DefectsInv
<1>16. ASSUME NEW m \in Ingesters \ {n} PROVE IngestRight(m)'
  BY <1>1, <1>11, <1>15, HolderAlone, OtherJobsRight DEF DefectsInv
<1>17. QED
  BY <1>2, <1>10, <1>14, <1>15, <1>16 DEF DefectsInv

LEMMA FinishSafe ==
  ASSUME DefectsInv, NEW n \in Ingesters, Def!Finish(n)
  PROVE  DefectsInv'
<1>1. /\ recordJob[n] # Idle /\ recordJob[n].at = "file" /\ recordJob[n].left = <<>>
      /\ Def!Become(n, "done")
  BY DEF Def!Finish, Def!At
<1>2. UNCHANGED <<bundles, field>>
  BY DEF Def!Finish
<1>3. QED
  BY <1>1, <1>2, HolderAlone, IngestBecomes DEF Def!Phases

LEMMA LeaveIngestSafe ==
  ASSUME DefectsInv, NEW n \in Ingesters, Def!Leave(n)
  PROVE  DefectsInv'
<1>1. /\ recordJob' = [recordJob EXCEPT ![n] = Idle]
      /\ UNCHANGED <<bundles, field, lock>> /\ recordJob'[n] = Idle
  BY DEF Def!Leave, DefectsInv
<1>2. QED
  BY <1>1, IngestMoves DEF DefectsInv, IngestRight

LEMMA DefectsBegin == ASSUME DefectsHyp, Def!DefectsInit PROVE DefectsInv
<1>1. Def!Handmade \subseteq Seq(Item)
  <2>1. ASSUME NEW n \in 0..Foreign, NEW s \in [1..n -> Item] PROVE s \in Seq(Item)
    BY <2>1 DEF DefectsHyp
  <2>2. QED
    BY <2>1 DEF Def!Handmade, Item
<1>2. bundles \subseteq Bundle
  BY <1>1 DEF Def!DefectsInit, Bundle
<1>3. field = <<>> /\ recordJob = [n \in Ingesters |-> Idle]
  BY DEF Def!DefectsInit
<1>4. QED
  BY <1>2, <1>3 DEF DefectsInv, FieldRight, IngestRight

LEMMA DefectsRight == DefectsHyp => (Def!DefectsSpec => []DefectsInv)
<1> SUFFICES ASSUME DefectsHyp PROVE Def!DefectsSpec => []DefectsInv
  OBVIOUS
<1>1. Def!DefectsInit => DefectsInv
  BY DefectsBegin
<1>2. DefectsInv /\ [Def!DefectsNext]_Def!defectVars => DefectsInv'
  <2>1. DefectsInv /\ Def!DefectsNext => DefectsInv'
    BY ProjectSafe, ExportSafe, BeginSafe, AcquireFieldSafe, ReadTagsSafe, SkipSafe, IngestSafe,
       FinishSafe, LeaveIngestSafe DEF Def!DefectsNext
  <2>2. DefectsInv /\ UNCHANGED Def!defectVars => DefectsInv'
    BY NothingIngested DEF Def!defectVars, DefectsInv
  <2>3. QED
    BY <2>1, <2>2
<1>3. QED
  BY <1>1, <1>2, PTL DEF Def!DefectsSpec

(* However often a bundle is ingested, by however many at once, and        *)
(* wherever one of them dies: a defect is filed at most once, never        *)
(* without its evidence, and all of a bundle once an ingest has finished   *)
(* (defects.py ingest_bundle).                                             *)
THEOREM IngestedOnceHolds == DefectsHyp => (Def!DefectsSpec => []Def!IngestedOnce)
<1>1. DefectsInv => Def!IngestedOnce
  <2>1. ASSUME DefectsInv, NEW n \in Ingesters, Def!At(n, "done"),
        NEW k \in DOMAIN recordJob[n].bundle.items,
               recordJob[n].bundle.items[k].evidence # "incomplete"
        PROVE  <<recordJob[n].bundle.name, recordJob[n].bundle.items[k].id>> \in FiledTags
    BY <2>1 DEF DefectsInv, IngestRight, Accounted, Def!At
  <2>2. QED
    BY <2>1 DEF DefectsInv, FieldRight, Def!IngestedOnce, FiledTags
<1>2. QED
  BY <1>1, DefectsRight, PTL

(* What the receiver has is within its bound, and an ingest works on a     *)
(* bundle in circulation.                                                  *)
Filed == [open : BOOLEAN, evidence : Def!Evidence]

DefectsTyped ==
    /\ defect \in [Projects -> [Def!Ids -> {Absent} \union Filed]]
    /\ Len(field) <= MaxReceived /\ lock \in Ingesters \union {Idle}
    /\ \A n \in Ingesters : recordJob[n] # Idle => recordJob[n].bundle \in bundles

LEMMA DefectsAreTyped == ASSUME DefectsInv, DefectsTyped PROVE Def!DefectsTypeOK
<1>1. ASSUME NEW p \in Projects, NEW i \in Def!Ids, defect[p][i] # Absent
      PROVE  defect[p][i] \in [open : BOOLEAN, evidence : Def!Evidence]
  <2>1. defect[p] \in [Def!Ids -> {Absent} \union Filed]
    BY DEF DefectsTyped
  <2>2. QED
    BY <1>1, <2>1 DEF Filed
<1>2. ASSUME NEW b \in bundles, NEW k \in DOMAIN b.items
      PROVE  <<b.name, b.items[k].id>> \in Def!Tags /\ b.items[k].evidence \in Def!Evidence
  <2>1. b.name \in Projects /\ b.items \in Seq(Item)
    BY DEF DefectsInv, Bundle
  <2>2. b.items[k] \in Item
    BY <1>2, <2>1
  <2>3. QED
    BY <2>1, <2>2 DEF Item, Def!Tags
<1>3. ASSUME NEW k \in DOMAIN field
      PROVE  field[k].tag \in Def!Tags /\ field[k].evidence \in Def!Evidence
  <2>1. field[k] \in Received
    BY <1>3 DEF DefectsInv, FieldRight
  <2>2. QED
    BY <2>1 DEF Received
<1>4. ASSUME NEW n \in Ingesters, recordJob[n] # Idle
      PROVE  /\ recordJob[n].at \in Def!Phases /\ recordJob[n].bundle \in bundles
             /\ recordJob[n].seen \subseteq Def!Tags
  <2>1. recordJob[n] \in IngestJob
    BY <1>4 DEF DefectsInv
  <2>2. QED
    BY <1>4, <2>1 DEF IngestJob, DefectsTyped
<1>5. QED
  BY <1>1, <1>2, <1>3, <1>4 DEF DefectsTyped, Def!DefectsTypeOK

LEMMA DefectsTypesBegin == ASSUME DefectsHyp, Def!DefectsInit PROVE DefectsTyped
<1>1. field = <<>> /\ lock = Idle /\ recordJob = [n \in Ingesters |-> Idle]
  BY DEF Def!DefectsInit
<1>2. defect = [p \in Projects |-> [i \in Def!Ids |-> Absent]]
  BY DEF Def!DefectsInit
<1>3. defect \in [Projects -> [Def!Ids -> {Absent} \union Filed]]
  BY <1>2
<1>4. QED
  BY <1>1, <1>3 DEF DefectsTyped, DefectsHyp

(* A project's record holds what was filed in it, amended and fixed.       *)
LEMMA ProjectTyped ==
  ASSUME DefectsTyped, NEW p \in Projects, NEW i \in Def!Ids,
         Def!Fix(p, i) \/ \E e \in Def!Evidence : Def!File(p, i, e) \/ Def!Amend(p, i, e)
  PROVE  DefectsTyped'
<1>1. UNCHANGED <<bundles, field, lock, recordJob>>
  BY DEF Def!Fix, Def!File, Def!Amend
<1> DEFINE D == {Absent} \union Filed
<1>2. defect \in [Projects -> [Def!Ids -> D]] /\ defect[p] \in [Def!Ids -> D] /\ defect[p][i] \in D
  BY DEF DefectsTyped
<1>3. \E v \in D : defect' = [defect EXCEPT ![p][i] = v]
  <2>1. ASSUME Def!Fix(p, i) PROVE \E v \in D : defect' = [defect EXCEPT ![p][i] = v]
    <3> PICK v : v = [defect[p][i] EXCEPT !.open = FALSE]
      OBVIOUS
    <3>1. v \in D
      BY <1>2, <2>1 DEF Def!Fix, Filed
    <3>2. defect' = [defect EXCEPT ![p][i] = v]
      BY <1>2, <2>1 DEF Def!Fix
    <3>3. QED
      BY <3>1, <3>2
  <2>2. ASSUME NEW e \in Def!Evidence, Def!File(p, i, e)
        PROVE  \E v \in D : defect' = [defect EXCEPT ![p][i] = v]
    <3>1. [open |-> TRUE, evidence |-> e] \in D
      BY DEF Filed
    <3>2. QED
      BY <2>2, <3>1 DEF Def!File
  <2>3. ASSUME NEW e \in Def!Evidence, Def!Amend(p, i, e)
        PROVE  \E v \in D : defect' = [defect EXCEPT ![p][i] = v]
    <3> PICK v : v = [defect[p][i] EXCEPT !.evidence = e]
      OBVIOUS
    <3>1. v \in D
      BY <1>2, <2>3 DEF Def!Amend, Filed
    <3>2. defect' = [defect EXCEPT ![p][i] = v]
      BY <1>2, <2>3 DEF Def!Amend
    <3>3. QED
      BY <3>1, <3>2
  <2>4. QED
    BY <2>1, <2>2, <2>3
<1> PICK v \in D : defect' = [defect EXCEPT ![p][i] = v]
  BY <1>3
<1> PICK f : f = [defect[p] EXCEPT ![i] = v]
  OBVIOUS
<1>4. f \in [Def!Ids -> D] /\ defect' = [defect EXCEPT ![p] = f]
  BY <1>2
<1>5. defect' \in [Projects -> [Def!Ids -> D]]
  BY <1>2, <1>4
<1>6. QED
  BY <1>1, <1>5 DEF DefectsTyped

(* Bundles only come to be; an ingest keeps the one it has.                *)
LEMMA IngestTyped ==
  ASSUME DefectsInv, DefectsTyped, NEW n \in Ingesters, NEW j, recordJob' = [recordJob EXCEPT ![n] = j],
         j # Idle => j.bundle \in bundles, UNCHANGED <<defect, bundles>>,
         lock' \in Ingesters \union {Idle}, Len(field') <= MaxReceived
  PROVE  DefectsTyped'
BY DEF DefectsTyped, DefectsInv

LEMMA DefectsStepTyped ==
  ASSUME DefectsHyp, DefectsInv, DefectsTyped, Def!DefectsNext PROVE DefectsTyped'
<1>1. ASSUME NEW p \in Projects, NEW all \in BOOLEAN, Def!Export(p, all) PROVE DefectsTyped'
  <2>1. UNCHANGED <<defect, field, lock, recordJob>> /\ bundles \subseteq bundles'
    BY <1>1 DEF Def!Export
  <2>2. QED
    BY <2>1 DEF DefectsTyped
<1>2. ASSUME NEW n \in Ingesters, NEW b \in bundles, Def!Begin(n, b) PROVE DefectsTyped'
  <2> PICK j : j = [at |-> "wait", bundle |-> b, left |-> b.items, seen |-> {}]
    OBVIOUS
  <2>1. /\ recordJob' = [recordJob EXCEPT ![n] = j]
        /\ UNCHANGED <<defect, bundles, field, lock>> /\ j.bundle = b
    BY <1>2 DEF Def!Begin
  <2>2. QED
    BY <2>1, IngestTyped DEF DefectsTyped
<1>3. ASSUME NEW n \in Ingesters,
             Def!Acquire(n) \/ Def!ReadTags(n) \/ Def!Skip(n) \/ Def!Ingest(n) \/ Def!Finish(n)
      PROVE  DefectsTyped'
  <2>1. recordJob[n] # Idle /\ recordJob[n] \in IngestJob /\ recordJob[n].bundle \in bundles
    BY <1>3
       DEF Def!Acquire, Def!ReadTags, Def!Skip, Def!Ingest, Def!Finish, Def!At, DefectsInv,
           DefectsTyped
  <2>2. \E j : recordJob' = [recordJob EXCEPT ![n] = j] /\ j.bundle = recordJob[n].bundle
    <3>1. CASE Def!Acquire(n) \/ Def!ReadTags(n) \/ Def!Finish(n)
      BY <2>1, <3>1 DEF Def!Acquire, Def!ReadTags, Def!Finish, Def!Become, IngestJob
    <3>2. CASE Def!Skip(n)
      <4> PICK j : j = [recordJob[n] EXCEPT !.left = Tail(recordJob[n].left)]
        OBVIOUS
      <4>1. recordJob' = [recordJob EXCEPT ![n] = j] /\ j.bundle = recordJob[n].bundle
        BY <2>1, <3>2 DEF Def!Skip, IngestJob, DefectsInv
      <4>2. QED
        BY <4>1
    <3>3. CASE Def!Ingest(n)
      <4> PICK j : j = [recordJob[n] EXCEPT !.left = Tail(recordJob[n].left),
                                            !.seen = recordJob[n].seen \union {Def!Tag(n)}]
        OBVIOUS
      <4>1. recordJob' = [recordJob EXCEPT ![n] = j] /\ j.bundle = recordJob[n].bundle
        BY <2>1, <3>3 DEF Def!Ingest, IngestJob, DefectsInv
      <4>2. QED
        BY <4>1
    <3>4. QED
      BY <1>3, <3>1, <3>2, <3>3
  <2>3. lock' \in Ingesters \union {Idle} /\ UNCHANGED <<defect, bundles>>
    BY <1>3 DEF Def!Acquire, Def!ReadTags, Def!Skip, Def!Ingest, Def!Finish, DefectsTyped
  <2>4. Len(field') <= MaxReceived
    <3>1. CASE field' = field
      BY <3>1 DEF DefectsTyped
    <3>2. CASE Def!Ingest(n)
      <4>1. field \in Seq(Received) /\ field' \in Seq(Received)
        <5>1. DefectsInv'
          BY <3>2, IngestSafe
        <5>2. QED
          BY <5>1 DEF DefectsInv, FieldRight
      <4>2. \E r : field' = Append(field, r)
        BY <3>2 DEF Def!Ingest
      <4>3. Len(field') = Len(field) + 1 /\ Len(field) \in Nat
        BY <4>1, <4>2
      <4>4. Len(field) < MaxReceived
        BY <3>2 DEF Def!Ingest
      <4>5. QED
        BY <4>3, <4>4 DEF DefectsHyp
    <3>3. QED
      BY <1>3, <3>1, <3>2 DEF Def!Acquire, Def!ReadTags, Def!Skip, Def!Finish
  <2>5. QED
    BY <2>1, <2>2, <2>3, <2>4, IngestTyped
<1>4. ASSUME NEW n \in Ingesters, Def!Leave(n) PROVE DefectsTyped'
  <2>1. recordJob' = [recordJob EXCEPT ![n] = Idle] /\ UNCHANGED <<defect, bundles, field, lock>>
    BY <1>4 DEF Def!Leave
  <2>2. QED
    BY <2>1, IngestTyped DEF DefectsTyped
<1>5. QED
  BY <1>1, <1>2, <1>3, <1>4, ProjectTyped DEF Def!DefectsNext

(* Whatever is exported, carried and ingested, the receiver's entries are  *)
(* tagged by project and number, and an ingest works on a bundle there is  *)
(* (defects.py export_bundle, ingest_bundle).                              *)
THEOREM DefectsTypes == DefectsHyp => (Def!DefectsSpec => []Def!DefectsTypeOK)
<1> SUFFICES ASSUME DefectsHyp PROVE Def!DefectsSpec => []Def!DefectsTypeOK
  OBVIOUS
<1>1. Def!DefectsInit => DefectsTyped
  BY DefectsTypesBegin
<1>2. DefectsInv /\ DefectsTyped /\ [Def!DefectsNext]_Def!defectVars => DefectsTyped'
  <2>1. DefectsInv /\ DefectsTyped /\ Def!DefectsNext => DefectsTyped'
    BY DefectsStepTyped
  <2>2. DefectsTyped /\ UNCHANGED Def!defectVars => DefectsTyped'
    BY DEF DefectsTyped, Def!defectVars
  <2>3. QED
    BY <2>1, <2>2
<1>3. DefectsInv /\ DefectsTyped => Def!DefectsTypeOK
  BY DefectsAreTyped
<1>4. QED
  BY <1>1, <1>2, <1>3, DefectsRight, PTL DEF Def!DefectsSpec

-----------------------------------------------------------------------------
(* Skills: lessons distilled from verdicts that can still move.            *)

Verdict == [open : BOOLEAN, moves : Nat, moved : Nat]
Stamped == UNION {[cites : {c}, stood : [c -> Nat], at : Nat] : c \in SUBSET Judged}
DistilJob == [at : {"ask", "put"}, seen : [Judged -> Verdict], name : Lessons \union {Absent},
              draft : Stamped \union {Absent}]

(* Of what a skill cites, what has moved since it was stamped has moved no *)
(* earlier than the second on its stamp.                                   *)
ToldOf(s) ==
    /\ s \in Stamped /\ s.at <= clock
    /\ \A e \in s.cites : entry[e].moves = s.stood[e] \/ entry[e].moved >= s.at

Drafting(d) == distil[d] # Idle /\ distil[d].at = "put"

SkillsInv ==
    /\ clock \in Nat /\ entry \in [Judged -> Verdict] /\ DOMAIN skill = Lessons
    /\ distil \in [Distillers -> {Idle} \union DistilJob]
    /\ \A n \in Lessons : Skil!OnDisk(n) => ToldOf(skill[n])
    /\ \A d \in Distillers : Drafting(d) => ToldOf(distil[d].draft)

LEMMA StampFields ==
  ASSUME NEW s \in Stamped
  PROVE  s.cites \subseteq Judged /\ s.at \in Nat
BY DEF Stamped

(* The entries and the clock move; nothing is written.                     *)
LEMMA VerdictsMove ==
  ASSUME SkillsInv, clock' \in Nat, clock' >= clock, entry' \in [Judged -> Verdict],
         \A e \in Judged : \/ entry'[e].moves = entry[e].moves /\ entry'[e].moved = entry[e].moved
                           \/ entry'[e].moved = clock,
         UNCHANGED <<skill, distil>>
  PROVE  SkillsInv'
<1>1. ASSUME NEW s, ToldOf(s) PROVE ToldOf(s)'
  <2>1. s \in Stamped /\ s.cites \subseteq Judged /\ s.at \in Nat /\ s.at <= clock /\ clock \in Nat
    BY <1>1, StampFields DEF ToldOf, SkillsInv
  <2>2. ASSUME NEW e \in s.cites PROVE entry'[e].moves = s.stood[e] \/ entry'[e].moved >= s.at
    BY <1>1, <2>1 DEF ToldOf
  <2>3. QED
    BY <2>1, <2>2 DEF ToldOf
<1>2. QED
  BY <1>1 DEF SkillsInv, Skil!OnDisk, Drafting

LEMMA CloseSafe == ASSUME SkillsInv, NEW e \in Judged, Skil!Close(e) PROVE SkillsInv'
<1> PICK v : v = [entry[e] EXCEPT !.open = FALSE]
  OBVIOUS
<1>1. entry \in [Judged -> Verdict] /\ clock \in Nat
  BY DEF SkillsInv
<1>2. v \in Verdict /\ v.moves = entry[e].moves /\ v.moved = entry[e].moved
  BY <1>1 DEF Verdict
<1>3. entry' = [entry EXCEPT ![e] = v] /\ UNCHANGED <<clock, skill, distil>>
  BY <1>1 DEF Skil!Close, Verdict
<1>4. QED
  BY <1>1, <1>2, <1>3, VerdictsMove

LEMMA MoveSafe ==
  ASSUME SkillsInv, NEW e \in Judged, NEW open \in BOOLEAN, Skil!Move(e, open)
  PROVE  SkillsInv'
<1> PICK v : v = [open |-> open, moves |-> entry[e].moves + 1, moved |-> clock]
  OBVIOUS
<1>1. entry \in [Judged -> Verdict] /\ clock \in Nat
  BY DEF SkillsInv
<1>2. v \in Verdict /\ v.moved = clock
  BY <1>1 DEF Verdict
<1>3. entry' = [entry EXCEPT ![e] = v] /\ UNCHANGED <<clock, skill, distil>>
  BY DEF Skil!Move
<1>4. QED
  BY <1>1, <1>2, <1>3, VerdictsMove

LEMMA TickSafe == ASSUME SkillsInv, Skil!Tick PROVE SkillsInv'
<1>1. clock \in Nat /\ clock' = clock + 1 /\ entry \in [Judged -> Verdict]
  BY DEF Skil!Tick, SkillsInv
<1>2. UNCHANGED <<entry, skill, distil>>
  BY DEF Skil!Tick
<1>3. QED
  BY <1>1, <1>2, VerdictsMove

(* A distiller moves on, and skills are written or taken away.             *)
LEMMA SkillsMove ==
  ASSUME SkillsInv, UNCHANGED <<clock, entry>>, DOMAIN skill' = Lessons,
         distil' \in [Distillers -> {Idle} \union DistilJob],
         \A n \in Lessons : skill'[n] \in {skill[n], Absent, Torn} \/ ToldOf(skill'[n]),
         \A d \in Distillers :
            \/ distil'[d] = distil[d] \/ distil'[d] = Idle \/ distil'[d].at = "ask"
            \/ ToldOf(distil'[d].draft)
  PROVE  SkillsInv'
<1>1. ASSUME NEW s, ToldOf(s) PROVE ToldOf(s)'
  BY <1>1 DEF ToldOf
<1>2. ASSUME NEW n \in Lessons, Skil!OnDisk(n)' PROVE ToldOf(skill[n])'
  <2>1. ToldOf(skill'[n])
    BY <1>2 DEF SkillsInv, Skil!OnDisk
  <2>2. QED
    BY <1>1, <2>1 DEF ToldOf
<1>3. ASSUME NEW d \in Distillers, Drafting(d)' PROVE ToldOf(distil[d].draft)'
  <2>1. ToldOf(distil'[d].draft)
    BY <1>3 DEF SkillsInv, Drafting
  <2>2. QED
    BY <1>1, <2>1 DEF ToldOf
<1>4. QED
  BY <1>2, <1>3 DEF SkillsInv

LEMMA BriefSafe == ASSUME SkillsInv, NEW d \in Distillers, Skil!Brief(d) PROVE SkillsInv'
<1> PICK j : j = [at |-> "ask", seen |-> entry, name |-> Absent, draft |-> Absent]
  OBVIOUS
<1>1. j \in DistilJob /\ j.at = "ask"
  BY DEF SkillsInv, DistilJob
<1>2. distil' = [distil EXCEPT ![d] = j] /\ UNCHANGED <<clock, entry, skill>>
  BY DEF Skil!Brief
<1>3. QED
  BY <1>1, <1>2, SkillsMove DEF SkillsInv

(* What is stamped now has not moved since.                                *)
LEMMA DraftSafe ==
  ASSUME SkillsInv, NEW d \in Distillers, NEW n \in Lessons, NEW cites \in SUBSET Judged,
         Skil!Draft(d, n, cites)
  PROVE  SkillsInv'
<1> PICK s : s = Skil!Drafted(cites)
  OBVIOUS
<1> PICK j : j = [distil[d] EXCEPT !.at = "put", !.name = n, !.draft = s]
  OBVIOUS
<1>1. s.cites = cites /\ s.at = clock /\ \A e \in cites : s.stood[e] = entry[e].moves
  BY DEF Skil!Drafted
<1>2. s \in Stamped
  <2>1. [e \in cites |-> entry[e].moves] \in [cites -> Nat] /\ clock \in Nat
    BY DEF SkillsInv, Verdict
  <2>2. s \in [cites : {cites}, stood : [cites -> Nat], at : Nat]
    BY <2>1 DEF Skil!Drafted
  <2>3. QED
    BY <2>2 DEF Stamped
<1>3. ToldOf(s)
  BY <1>1, <1>2 DEF ToldOf, SkillsInv
<1>4. distil[d] \in DistilJob
  BY DEF SkillsInv, Skil!Draft
<1>5. j \in DistilJob /\ j.draft = s
  BY <1>2, <1>4 DEF DistilJob
<1>6. distil' = [distil EXCEPT ![d] = j] /\ UNCHANGED <<clock, entry, skill>>
  BY DEF Skil!Draft
<1>7. QED
  BY <1>3, <1>5, <1>6, SkillsMove DEF SkillsInv

LEMMA PutSafe == ASSUME SkillsInv, NEW d \in Distillers, Skil!Put(d) PROVE SkillsInv'
<1> PICK j : j = [distil[d] EXCEPT !.at = "ask", !.name = Absent, !.draft = Absent]
  OBVIOUS
<1>1. distil[d] \in DistilJob /\ ToldOf(distil[d].draft)
  BY DEF SkillsInv, Skil!Put, Drafting
<1>2. j \in DistilJob /\ j.at = "ask"
  BY <1>1 DEF DistilJob
<1>3. /\ distil' = [distil EXCEPT ![d] = j]
      /\ skill' = [skill EXCEPT ![distil[d].name] = distil[d].draft] /\ UNCHANGED <<clock, entry>>
  BY DEF Skil!Put
<1>4. QED
  BY <1>1, <1>2, <1>3, SkillsMove DEF SkillsInv

LEMMA LeaveDistilSafe == ASSUME SkillsInv, NEW d \in Distillers, Skil!Leave(d) PROVE SkillsInv'
<1>1. /\ distil' = [distil EXCEPT ![d] = Idle] /\ UNCHANGED <<clock, entry>>
      /\ skill' = skill \/ skill' = [skill EXCEPT ![distil[d].name] = Torn]
  BY DEF Skil!Leave
<1>2. QED
  BY <1>1, SkillsMove DEF SkillsInv

LEMMA RetireSkillSafe == ASSUME SkillsInv, NEW n \in Lessons, Skil!Retire(n) PROVE SkillsInv'
<1>1. skill' = [skill EXCEPT ![n] = Absent] /\ UNCHANGED <<clock, entry, distil>>
  BY DEF Skil!Retire
<1>2. QED
  BY <1>1, SkillsMove DEF SkillsInv

(* A skill `ar skill check` passes rests on settled verdicts, none of them *)
(* withdrawn or relabelled since it was stamped (skills.py _moved_since,   *)
(* check, write), however many are distilled at once.                      *)
THEOREM MovedIsToldHolds == Skil!SkillsSpec => []Skil!MovedIsTold
<1>1. Skil!SkillsInit => SkillsInv
  BY DEF Skil!SkillsInit, SkillsInv, Verdict, Skil!OnDisk, Drafting
<1>2. SkillsInv /\ [Skil!SkillsNext]_Skil!skillVars => SkillsInv'
  <2>1. SkillsInv /\ Skil!SkillsNext => SkillsInv'
    BY TickSafe, CloseSafe, MoveSafe, BriefSafe, PutSafe, LeaveDistilSafe, DraftSafe,
       RetireSkillSafe
       DEF Skil!SkillsNext
  <2>2. SkillsInv /\ UNCHANGED Skil!skillVars => SkillsInv'
    BY DEF Skil!skillVars, SkillsInv, Skil!OnDisk, Drafting, ToldOf
  <2>3. QED
    BY <2>1, <2>2
<1>3. SkillsInv => Skil!MovedIsTold
  <2>1. ASSUME SkillsInv, NEW n \in Lessons, Skil!OnDisk(n), ~Skil!Refused(skill[n], entry),
        NEW e \in skill[n].cites
        PROVE  ~entry[e].open /\ entry[e].moves = skill[n].stood[e]
    <3>1. skill[n].at \in Nat /\ e \in Judged /\ entry[e].moved \in Nat
      BY <2>1, StampFields DEF SkillsInv, ToldOf, Verdict
    <3>2. QED
      BY <2>1, <3>1 DEF SkillsInv, ToldOf, Skil!Refused, Skil!MovedSince
  <2>2. QED
    BY <2>1 DEF Skil!MovedIsTold
<1>4. QED
  BY <1>1, <1>2, <1>3, PTL DEF Skil!SkillsSpec

(* A distiller that asks has no draft; one that writes has a name for it.  *)
AskJobs == [at : {"ask"}, seen : Skil!Boards, name : {Absent}, draft : {Absent}]
PutJobs == [at : {"put"}, seen : Skil!Boards, name : Lessons, draft : Skil!Skill]

SkillsTyped ==
    /\ clock \in Skil!Times /\ entry \in Skil!Boards
    /\ skill \in [Lessons -> {Absent, Torn} \union Skil!Skill]
    /\ distil \in [Distillers -> {Idle} \union AskJobs \union PutJobs]

LEMMA SkillsAreTyped == ASSUME SkillsTyped PROVE Skil!SkillsTypeOK
<1>1. ASSUME NEW d \in Distillers, distil[d] # Idle
      PROVE  /\ distil[d].at \in {"ask", "put"} /\ distil[d].seen \in Skil!Boards
             /\ IF distil[d].at = "ask"
                THEN distil[d].name = Absent /\ distil[d].draft = Absent
                ELSE distil[d].name \in Lessons /\ distil[d].draft \in Skil!Skill
  <2>1. distil[d] \in AskJobs \union PutJobs
    BY <1>1 DEF SkillsTyped
  <2>2. QED
    BY <2>1 DEF AskJobs, PutJobs
<1>2. QED
  BY <1>1 DEF SkillsTyped, Skil!SkillsTypeOK

LEMMA SkillsTypesBegin == ASSUME SkillsHyp, Skil!SkillsInit PROVE SkillsTyped
<1>1. 0 \in 0..MaxMoved /\ 1 \in Skil!Times
  BY DEF SkillsHyp, Skil!Times
<1>2. QED
  BY <1>1 DEF Skil!SkillsInit, SkillsTyped, Skil!Boards

(* A verdict moves, and nothing else does.                                 *)
LEMMA BoardTypesKept ==
  ASSUME SkillsHyp, SkillsTyped, NEW e \in Judged, NEW open \in BOOLEAN,
         Skil!Close(e) \/ Skil!Move(e, open)
  PROVE  SkillsTyped'
<1> DEFINE V == [open : BOOLEAN, moves : 0..MaxMoved, moved : {0} \union Skil!Times]
<1>1. entry \in [Judged -> V] /\ entry[e] \in V /\ clock \in Skil!Times
  BY DEF SkillsTyped, Skil!Boards
<1>2. entry' \in [Judged -> V]
  <2>1. CASE Skil!Close(e)
    <3> PICK v : v = [entry[e] EXCEPT !.open = FALSE]
      OBVIOUS
    <3>1. v \in V
      BY <1>1
    <3>2. entry' = [entry EXCEPT ![e] = v]
      BY <2>1, <1>1 DEF Skil!Close
    <3>3. QED
      BY <3>1, <3>2, <1>1
  <2>2. CASE Skil!Move(e, open)
    <3> PICK v : v = [open |-> open, moves |-> entry[e].moves + 1, moved |-> clock]
      OBVIOUS
    <3>1. entry[e].moves + 1 \in 0..MaxMoved
      BY <2>2, <1>1 DEF Skil!Move, SkillsHyp
    <3>2. v \in V
      BY <1>1, <3>1
    <3>3. entry' = [entry EXCEPT ![e] = v]
      BY <2>2, <1>1 DEF Skil!Move
    <3>4. QED
      BY <3>2, <3>3, <1>1
  <2>3. QED
    BY <2>1, <2>2
<1>3. UNCHANGED <<clock, skill, distil>>
  BY DEF Skil!Close, Skil!Move
<1>4. QED
  BY <1>2, <1>3 DEF SkillsTyped, Skil!Boards

(* A distiller goes on with a job of its kind, or is done.                 *)
LEMMA DistilTypesKept ==
  ASSUME SkillsTyped, NEW d \in Distillers, NEW j \in {Idle} \union AskJobs \union PutJobs,
         distil' = [distil EXCEPT ![d] = j],
         skill' \in [Lessons -> {Absent, Torn} \union Skil!Skill], UNCHANGED <<clock, entry>>
  PROVE  SkillsTyped'
BY DEF SkillsTyped

LEMMA BriefTyped == ASSUME SkillsTyped, NEW d \in Distillers, Skil!Brief(d) PROVE SkillsTyped'
<1> PICK j : j = [at |-> "ask", seen |-> entry, name |-> Absent, draft |-> Absent]
  OBVIOUS
<1>1. j \in AskJobs
  BY DEF AskJobs, SkillsTyped
<1>2. /\ distil' = [distil EXCEPT ![d] = j] /\ UNCHANGED <<clock, entry, skill>>
  BY DEF Skil!Brief
<1>3. QED
  BY <1>1, <1>2, DistilTypesKept DEF SkillsTyped

(* What is stamped says of each citation how often it has moved.           *)
LEMMA DraftTyped ==
  ASSUME SkillsTyped, NEW d \in Distillers, NEW n \in Lessons, NEW cites \in SUBSET Judged,
         Skil!Draft(d, n, cites)
  PROVE  SkillsTyped'
<1> PICK s : s = Skil!Drafted(cites)
  OBVIOUS
<1>1. s \in Skil!Skill
  <2>1. \A e \in cites : entry[e].moves \in 0..MaxMoved
    BY DEF SkillsTyped, Skil!Boards
  <2>2. [e \in cites |-> entry[e].moves] \in Skil!Versions(cites) /\ clock \in Skil!Times
    BY <2>1 DEF SkillsTyped, Skil!Versions
  <2>3. s \in [cites : {cites}, stood : Skil!Versions(cites), at : Skil!Times]
    BY <2>2 DEF Skil!Drafted
  <2>4. cites \in (SUBSET Judged) \ {{}}
    BY DEF Skil!Draft
  <2>5. QED
    BY <2>3, <2>4 DEF Skil!Skill
<1> PICK j : j = [distil[d] EXCEPT !.at = "put", !.name = n, !.draft = s]
  OBVIOUS
<1>2. distil[d] \in AskJobs
  BY DEF SkillsTyped, Skil!Draft, PutJobs
<1>3. j \in PutJobs
  BY <1>1, <1>2 DEF AskJobs, PutJobs
<1>4. /\ distil' = [distil EXCEPT ![d] = j] /\ UNCHANGED <<clock, entry, skill>>
  BY DEF Skil!Draft
<1>5. QED
  BY <1>3, <1>4, DistilTypesKept DEF SkillsTyped

LEMMA PutTyped == ASSUME SkillsTyped, NEW d \in Distillers, Skil!Put(d) PROVE SkillsTyped'
<1> PICK j : j = [distil[d] EXCEPT !.at = "ask", !.name = Absent, !.draft = Absent]
  OBVIOUS
<1>1. distil[d] \in PutJobs
  BY DEF SkillsTyped, Skil!Put, AskJobs
<1>2. j \in AskJobs /\ distil[d].name \in Lessons /\ distil[d].draft \in Skil!Skill
  BY <1>1 DEF AskJobs, PutJobs
<1>3. /\ distil' = [distil EXCEPT ![d] = j] /\ UNCHANGED <<clock, entry>>
      /\ skill' = [skill EXCEPT ![distil[d].name] = distil[d].draft]
  BY DEF Skil!Put
<1>4. skill' \in [Lessons -> {Absent, Torn} \union Skil!Skill]
  BY <1>2, <1>3 DEF SkillsTyped
<1>5. QED
  BY <1>2, <1>3, <1>4, DistilTypesKept

LEMMA LeaveDistilTyped ==
  ASSUME SkillsTyped, NEW d \in Distillers, Skil!Leave(d) PROVE SkillsTyped'
<1>1. /\ distil' = [distil EXCEPT ![d] = Idle] /\ UNCHANGED <<clock, entry>>
      /\ skill' = skill \/ skill' = [skill EXCEPT ![distil[d].name] = Torn]
  BY DEF Skil!Leave
<1>2. skill' \in [Lessons -> {Absent, Torn} \union Skil!Skill]
  BY <1>1 DEF SkillsTyped
<1>3. QED
  BY <1>1, <1>2, DistilTypesKept

(* Whatever is distilled and withdrawn, a skill is a stamped citation, or  *)
(* missing, or torn by a death in its writing (skills.py write, retire).   *)
THEOREM SkillsTypes == SkillsHyp => (Skil!SkillsSpec => []Skil!SkillsTypeOK)
<1> SUFFICES ASSUME SkillsHyp PROVE Skil!SkillsSpec => []Skil!SkillsTypeOK
  OBVIOUS
<1>1. Skil!SkillsInit => SkillsTyped
  BY SkillsTypesBegin
<1>2. SkillsTyped /\ [Skil!SkillsNext]_Skil!skillVars => SkillsTyped'
  <2>1. SkillsTyped /\ Skil!Tick => SkillsTyped'
    BY DEF SkillsTyped, Skil!Tick, Skil!Times, SkillsHyp, Skil!Boards, AskJobs, PutJobs, Skil!Skill
  <2>2. SkillsTyped /\ (\E n \in Lessons : Skil!Retire(n)) => SkillsTyped'
    BY DEF SkillsTyped, Skil!Retire
  <2>3. ASSUME SkillsTyped, NEW e \in Judged, Skil!Close(e) PROVE SkillsTyped'
    <3>1. FALSE \in BOOLEAN
      OBVIOUS
    <3>2. QED
      BY <2>3, <3>1, BoardTypesKept
  <2>4. SkillsTyped /\ Skil!SkillsNext => SkillsTyped'
    BY <2>1, <2>2, <2>3, BoardTypesKept, BriefTyped, DraftTyped, PutTyped, LeaveDistilTyped
       DEF Skil!SkillsNext
  <2>5. SkillsTyped /\ UNCHANGED Skil!skillVars => SkillsTyped'
    BY DEF SkillsTyped, Skil!skillVars
  <2>6. QED
    BY <2>4, <2>5
<1>3. SkillsTyped => Skil!SkillsTypeOK
  BY SkillsAreTyped
<1>4. QED
  BY <1>1, <1>2, <1>3, PTL DEF Skil!SkillsSpec

-----------------------------------------------------------------------------
(* Sums over finite sets, which the meters need too (CoordinatorProofs).    *)

(* Induction over the subsets of a finite set: by those smaller than the   *)
(* set at hand, or an element at a time.                                   *)
LEMMA SmallerFirst ==
  ASSUME NEW S, IsFiniteSet(S), NEW Q,
         \A T \in SUBSET S : (\A U \in SUBSET T : U # T => U \in Q) => T \in Q
  PROVE  SUBSET S \subseteq Q
<1> DEFINE Bad == {T \in SUBSET S : T \notin Q}
<1> SUFFICES ASSUME Bad # {} PROVE FALSE
  OBVIOUS
<1>1. Bad \subseteq FiniteSubsetsOf(S)
  BY FS_Subset DEF FiniteSubsetsOf
<1>2. PICK T \in Bad : \A U \in Bad : ~(<<U, T>> \in StrictSubsetOrdering(S))
  <2>1. IsWellFoundedOn(StrictSubsetOrdering(S), FiniteSubsetsOf(S))
    BY FS_StrictSubsetOrderingWellFounded
  <2> HIDE DEF Bad
  <2>2. QED
    BY <1>1, <2>1, WFMin
<1>3. \A U \in SUBSET T : U # T => U \in Q
  BY <1>2 DEF StrictSubsetOrdering
<1>4. QED
  BY <1>3

LEMMA OneMore ==
  ASSUME NEW S, IsFiniteSet(S), NEW Q, {} \in Q,
         \A T \in SUBSET S : \A x \in S \ T : T \in Q => T \union {x} \in Q
  PROVE  SUBSET S \subseteq Q
<1>1. ASSUME NEW T \in SUBSET S, \A U \in SUBSET T : U # T => U \in Q
      PROVE  T \in Q
  <2>1. CASE T = {}
    BY <2>1
  <2>2. CASE T # {}
    <3>1. PICK x \in T : TRUE
      BY <2>2
    <3>2. T \ {x} \in SUBSET T /\ T \ {x} # T /\ (T \ {x}) \union {x} = T /\ x \in S \ (T \ {x})
      BY <3>1
    <3>3. T \ {x} \in Q
      BY <3>2, <1>1
    <3>4. (T \ {x}) \union {x} \in Q
      BY <3>2, <3>3
    <3>5. QED
      BY <3>2, <3>4
  <2>3. QED
    BY <2>1, <2>2
<1>2. QED
  BY <1>1, SmallerFirst

LEMMA CountUp ==
  ASSUME NEW Q, 0 \in Q, \A k \in Nat : k \in Q => k + 1 \in Q
  PROVE  Nat \subseteq Q
<1> DEFINE Bad == {k \in Nat : k \notin Q}
<1> SUFFICES ASSUME Bad # {} PROVE FALSE
  OBVIOUS
<1>1. PICK k \in Bad : \A m \in Bad : ~(<<m, k>> \in OpToRel(<, Nat))
  BY WFMin, NatLessThanWellFounded
<1>2. k # 0 /\ k \in Nat
  OBVIOUS
<1>3. k - 1 \in Nat /\ k - 1 < k /\ (k - 1) + 1 = k
  BY <1>2
<1>4. k - 1 \notin Bad
  BY <1>1, <1>3 DEF OpToRel
<1>5. QED
  BY <1>3, <1>4

(* The element the folds take next, and one turn of them.                  *)
Taken(s) == CHOOSE x \in s : TRUE

Turn(f, g, s) == IF s = {} THEN 0 ELSE f[Taken(s)] + g[s \ {Taken(s)}]

Folding(f, S, g) == g = [s \in SUBSET S |-> Turn(f, g, s)]

(* The sum of a function over a finite set, as the community modules' folds *)
(* take it.                                                                 *)
Total(f, S) == (CHOOSE g : Folding(f, S, g))[S]

LEMMA TakenIn == ASSUME NEW s, s # {} PROVE Taken(s) \in s
BY DEF Taken

LEMMA FoldExists ==
  ASSUME NEW f, NEW S, IsFiniteSet(S)
  PROVE  \E g : Folding(f, S, g)
<1> DEFINE Layer(k) == {s \in SUBSET S : Cardinality(s) <= k}
           Good(k, g) == g = [s \in Layer(k) |-> Turn(f, g, s)]
           Q == {k \in Nat : \E g : Good(k, g)}
<1>0. \A s \in SUBSET S : IsFiniteSet(s) /\ Cardinality(s) \in Nat /\
      Cardinality(s) <= Cardinality(S)
  BY FS_Subset, FS_CardinalityType
<1>1. 0 \in Q
  <2> DEFINE g == [s \in Layer(0) |-> 0]
  <2>1. \A s \in Layer(0) : s = {}
    BY <1>0, FS_EmptySet
  <2>2. \A s \in Layer(0) : Turn(f, g, s) = 0
    BY <2>1 DEF Turn
  <2>3. Good(0, g)
    BY <2>2
  <2>4. QED
    BY <2>3
<1>2. ASSUME NEW k \in Nat, k \in Q PROVE k + 1 \in Q
  <2>1. PICK g : Good(k, g)
    BY <1>2
  <2> DEFINE h == [s \in Layer(k + 1) |-> Turn(f, g, s)]
  <2>2. ASSUME NEW s \in Layer(k + 1) PROVE Turn(f, h, s) = Turn(f, g, s)
    <3>1. CASE s = {}
      BY <3>1 DEF Turn
    <3>2. CASE s # {}
      <4>1. s \ {Taken(s)} \in SUBSET S /\ Cardinality(s \ {Taken(s)}) = Cardinality(s) - 1
        BY <3>2, TakenIn, <1>0, FS_RemoveElement
      <4>2. s \ {Taken(s)} \in Layer(k) /\ s \ {Taken(s)} \in Layer(k + 1)
        BY <4>1, <1>0
      <4>3. g[s \ {Taken(s)}] = Turn(f, g, s \ {Taken(s)})
        BY <2>1, <4>2
      <4>4. h[s \ {Taken(s)}] = Turn(f, g, s \ {Taken(s)})
        BY <4>2
      <4>5. QED
        BY <3>2, <4>3, <4>4 DEF Turn
    <3>3. QED
      BY <3>1, <3>2
  <2>3. Good(k + 1, h)
    BY <2>2
  <2> HIDE DEF Good
  <2>4. QED
    BY <2>3
<1>3. Cardinality(S) \in Q
  <2> HIDE DEF Q
  <2>1. Nat \subseteq Q
    BY <1>1, <1>2, CountUp
  <2>2. QED
    BY <2>1, <1>0
<1>4. PICK g : Good(Cardinality(S), g)
  BY <1>3
<1>5. Layer(Cardinality(S)) = SUBSET S
  BY <1>0
<1>6. QED
  BY <1>4, <1>5 DEF Folding

LEMMA FoldUnique ==
  ASSUME NEW f, NEW S, IsFiniteSet(S), NEW g, NEW h, Folding(f, S, g), Folding(f, S, h)
  PROVE  g = h
<1> DEFINE Bad == {s \in SUBSET S : g[s] # h[s]}
<1>1. ASSUME Bad # {} PROVE FALSE
  <2>1. Bad \subseteq FiniteSubsetsOf(S)
    BY FS_Subset DEF FiniteSubsetsOf
  <2>2. PICK s \in Bad : \A t \in Bad : ~(<<t, s>> \in StrictSubsetOrdering(S))
    BY <1>1, <2>1, WFMin, FS_StrictSubsetOrderingWellFounded
  <2>3. g[s] = Turn(f, g, s) /\ h[s] = Turn(f, h, s)
    BY DEF Folding
  <2>4. s # {}
    BY <2>3 DEF Turn
  <2>5. s \ {Taken(s)} \in SUBSET S /\ s \ {Taken(s)} # s
    BY <2>4, TakenIn
  <2>6. <<s \ {Taken(s)}, s>> \in StrictSubsetOrdering(S)
    BY <2>5 DEF StrictSubsetOrdering
  <2>7. g[s \ {Taken(s)}] = h[s \ {Taken(s)}]
    BY <2>2, <2>5, <2>6
  <2>8. QED
    BY <2>3, <2>7 DEF Turn
<1>2. QED
  BY <1>1 DEF Folding

LEMMA SumIsFold ==
  ASSUME NEW f, NEW S, IsFiniteSet(S), NEW g, Folding(f, S, g)
  PROVE  Total(f, S) = g[S]
<1> DEFINE G == CHOOSE h : Folding(f, S, h)
<1>1. Total(f, S) = G[S]
  BY DEF Total
<1>2. Folding(f, S, G)
  OBVIOUS
<1> HIDE DEF G
<1>3. QED
  BY <1>1, <1>2, FoldUnique

(* A sum, taken apart as the fold does it ...                              *)
LEMMA SumNext ==
  ASSUME NEW f, NEW S, IsFiniteSet(S), S # {}
  PROVE  Total(f, S) = f[Taken(S)] + Total(f, S \ {Taken(S)})
<1> DEFINE T == S \ {Taken(S)}
<1>1. PICK g : Folding(f, S, g)
  BY FoldExists
<1> DEFINE h == [s \in SUBSET T |-> g[s]]
<1>2. IsFiniteSet(T) /\ T \in SUBSET S
  BY FS_RemoveElement
<1>3. ASSUME NEW s \in SUBSET T PROVE Turn(f, g, s) = Turn(f, h, s)
  BY DEF Turn
<1>4. \A s \in SUBSET T : g[s] = Turn(f, g, s)
  BY <1>1, <1>2 DEF Folding
<1>5. Folding(f, T, h)
  BY <1>3, <1>4 DEF Folding
<1>6. Total(f, T) = h[T]
  <2> HIDE DEF h
  <2>1. QED
    BY <1>2, <1>5, SumIsFold
<1>7. Total(f, S) = g[S] /\ g[S] = Turn(f, g, S)
  BY <1>1, SumIsFold DEF Folding
<1>8. QED
  BY <1>6, <1>7 DEF Turn

LEMMA SumNone == ASSUME NEW f PROVE Total(f, {}) = 0
<1>1. PICK g : Folding(f, {}, g)
  BY FoldExists, FS_EmptySet
<1>2. Total(f, {}) = g[{}]
  BY <1>1, SumIsFold, FS_EmptySet
<1>3. QED
  BY <1>1, <1>2 DEF Folding, Turn

(* ... and by whatever element one likes.                                  *)
LEMMA SumTake ==
  ASSUME NEW f, NEW S, IsFiniteSet(S), \A x \in S : f[x] \in Int
  PROVE  /\ Total(f, S) \in Int
         /\ \A x \in S : Total(f, S) = f[x] + Total(f, S \ {x})
<1> DEFINE Q == {T \in SUBSET S : /\ Total(f, T) \in Int
                                 /\ \A x \in T : Total(f, T) = f[x] + Total(f, T \ {x})}
<1>1. ASSUME NEW T \in SUBSET S, \A U \in SUBSET T : U # T => U \in Q
      PROVE  T \in Q
  <2>1. CASE T = {}
    BY <2>1, SumNone
  <2>2. CASE T # {}
    <3> DEFINE c == Taken(T)
    <3>1. c \in T
      BY <2>2, TakenIn
    <3>2. Total(f, T) = f[c] + Total(f, T \ {c})
      BY <2>2, SumNext, FS_Subset
    <3> HIDE DEF c
    <3>3. T \ {c} \in Q /\ Total(f, T \ {c}) \in Int /\ f[c] \in Int
      BY <1>1, <3>1
    <3>4. ASSUME NEW x \in T PROVE Total(f, T) = f[x] + Total(f, T \ {x})
      <4>1. CASE x = c
        BY <3>2, <4>1
      <4>2. CASE x # c
        <5> DEFINE U == T \ {c} V == T \ {x} W == T \ {c, x}
        <5>1. U \ {x} = W /\ V \ {c} = W /\ x \in U /\ c \in V /\ V # T
          BY <3>1, <4>2
        <5>2. V \in Q /\ Total(f, V) = f[c] + Total(f, V \ {c})
          BY <1>1, <5>1
        <5>3. Total(f, U) = f[x] + Total(f, U \ {x})
          BY <3>3, <5>1
        <5>4. W \in Q /\ Total(f, W) \in Int
          BY <1>1, <3>1
        <5>5. f[x] \in Int
          OBVIOUS
        <5> HIDE DEF U, V, W, Q
        <5>6. Total(f, U) = f[x] + Total(f, W)
              /\ Total(f, V) = f[c] + Total(f, W)
          BY <5>1, <5>2, <5>3
        <5>7. Total(f, T) = f[c] + Total(f, U)
          BY <3>2 DEF U
        <5>8. Total(f, T) = f[x] + Total(f, V)
          BY <3>3, <5>4, <5>5, <5>6, <5>7
        <5>9. QED
          BY <5>8 DEF V
      <4>3. QED
        BY <4>1, <4>2
    <3>5. Total(f, T) \in Int
      BY <3>2, <3>3
    <3>6. QED
      BY <3>4, <3>5
  <2>3. QED
    BY <2>1, <2>2
<1>2. S \in Q
  <2> HIDE DEF Q
  <2>1. QED
    BY <1>1, SmallerFirst
<1>3. QED
  BY <1>2

LEMMA SumAdd ==
  ASSUME NEW f, NEW S, IsFiniteSet(S), NEW x, x \notin S, \A y \in S \union {x} : f[y] \in Int
  PROVE  Total(f, S \union {x}) = f[x] + Total(f, S)
<1>1. IsFiniteSet(S \union {x}) /\ (S \union {x}) \ {x} = S
  BY FS_AddElement
<1>2. QED
  BY <1>1, SumTake

(* Sums are ordered as their terms are, and add up as they do.             *)
LEMMA SumOrder ==
  ASSUME NEW f, NEW g, NEW S, IsFiniteSet(S),
         \A x \in S : f[x] \in Int /\ g[x] \in Int /\ f[x] <= g[x]
  PROVE  Total(f, S) <= Total(g, S)
<1> DEFINE Q == {T \in SUBSET S : Total(f, T) <= Total(g, T)}
<1>1. {} \in Q
  BY SumNone
<1>2. ASSUME NEW T \in SUBSET S, NEW x \in S \ T, T \in Q PROVE T \union {x} \in Q
  <2>1. IsFiniteSet(T)
    BY FS_Subset
  <2>2. Total(f, T) \in Int /\ Total(g, T) \in Int
    BY <2>1, SumTake
  <2>3. Total(f, T \union {x}) = f[x] + Total(f, T)
        /\ Total(g, T \union {x}) = g[x] + Total(g, T)
    BY <2>1, SumAdd
  <2>4. QED
    BY <1>2, <2>2, <2>3
<1>3. S \in Q
  <2> HIDE DEF Q
  <2>1. QED
    BY <1>1, <1>2, OneMore
<1>4. QED
  BY <1>3

LEMMA SumSame ==
  ASSUME NEW f, NEW g, NEW S, IsFiniteSet(S), \A x \in S : f[x] \in Int /\ f[x] = g[x]
  PROVE  Total(f, S) = Total(g, S)
BY SumOrder, SumTake

LEMMA SumNat ==
  ASSUME NEW f, NEW S, IsFiniteSet(S), \A x \in S : f[x] \in Nat
  PROVE  Total(f, S) \in Nat
<1> DEFINE Q == {T \in SUBSET S : Total(f, T) \in Nat}
<1>1. {} \in Q
  BY SumNone
<1>2. ASSUME NEW T \in SUBSET S, NEW x \in S \ T, T \in Q PROVE T \union {x} \in Q
  <2>1. Total(f, T \union {x}) = f[x] + Total(f, T)
    BY SumAdd, FS_Subset
  <2>2. QED
    BY <1>2, <2>1
<1>3. S \in Q
  <2> HIDE DEF Q
  <2>1. QED
    BY <1>1, <1>2, OneMore
<1>4. QED
  BY <1>3

LEMMA SumPlus ==
  ASSUME NEW f, NEW g, NEW h, NEW S, IsFiniteSet(S),
         \A x \in S : f[x] \in Int /\ g[x] \in Int /\ h[x] = f[x] + g[x]
  PROVE  Total(h, S) = Total(f, S) + Total(g, S)
<1> DEFINE Q == {T \in SUBSET S : Total(h, T) = Total(f, T) + Total(g, T)}
<1>1. {} \in Q
  BY SumNone
<1>2. ASSUME NEW T \in SUBSET S, NEW x \in S \ T, T \in Q PROVE T \union {x} \in Q
  <2>1. IsFiniteSet(T) /\ \A y \in S : h[y] \in Int
    BY FS_Subset
  <2>2. Total(f, T) \in Int /\ Total(g, T) \in Int
    BY <2>1, SumTake
  <2>3. /\ Total(f, T \union {x}) = f[x] + Total(f, T)
        /\ Total(g, T \union {x}) = g[x] + Total(g, T)
        /\ Total(h, T \union {x}) = h[x] + Total(h, T)
    BY <2>1, SumAdd
  <2>4. QED
    BY <1>2, <2>2, <2>3
<1>3. S \in Q
  <2> HIDE DEF Q
  <2>1. QED
    BY <1>1, <1>2, OneMore
<1>4. QED
  BY <1>3

LEMMA SumWithin ==
  ASSUME NEW f, NEW g, NEW S, IsFiniteSet(S), NEW T \in SUBSET S,
         \A x \in T : f[x] \in Int /\ g[x] = f[x], \A x \in S \ T : g[x] = 0
  PROVE  Total(f, T) = Total(g, S)
<1> DEFINE Q == {U \in SUBSET S : Total(f, U \cap T) = Total(g, U)}
<1>1. {} \in Q
  <2>1. {} \cap T = {}
    OBVIOUS
  <2>2. QED
    BY <2>1, SumNone
<1>2. ASSUME NEW U \in SUBSET S, NEW x \in S \ U, U \in Q PROVE U \union {x} \in Q
  <2>1. IsFiniteSet(U) /\ IsFiniteSet(U \cap T) /\ x \notin U \cap T
    BY FS_Subset, FS_Intersection
  <2>2. \A y \in S : g[y] \in Int
    OBVIOUS
  <2>3. Total(g, U \union {x}) = g[x] + Total(g, U)
        /\ Total(g, U) \in Int
    BY <2>1, <2>2, SumAdd, SumTake
  <2>4. CASE x \in T
    <3>1. (U \union {x}) \cap T = (U \cap T) \union {x} /\ g[x] = f[x]
      BY <2>4
    <3>2. \A y \in (U \cap T) \union {x} : f[y] \in Int
      BY <2>4
    <3>3. Total(f, (U \cap T) \union {x}) = f[x] + Total(f, U \cap T)
      BY <2>1, <3>2, SumAdd
    <3>4. Total(f, U \cap T) = Total(g, U)
      BY <1>2
    <3> HIDE DEF Q
    <3>5. Total(f, (U \union {x}) \cap T) = Total(g, U \union {x})
      BY <2>3, <3>1, <3>3, <3>4
    <3>6. QED
      BY <3>5 DEF Q
  <2>5. CASE x \notin T
    <3> DEFINE V == (U \union {x}) \cap T W == U \cap T
    <3>1. V = W /\ g[x] = 0
      BY <2>5
    <3>2. Total(f, W) = Total(g, U)
      BY <1>2
    <3> HIDE DEF V, W
    <3>3. Total(f, V) = Total(g, U \union {x})
      BY <2>3, <3>1, <3>2
    <3>4. QED
      BY <3>3 DEF V
  <2>6. QED
    BY <2>4, <2>5
<1>3. S \in Q
  <2> HIDE DEF Q
  <2>1. QED
    BY <1>1, <1>2, OneMore
<1>4. S \cap T = T
  OBVIOUS
<1>5. QED
  BY <1>3, <1>4

(* The members of disjoint sets, counted set by set.                       *)
LEMMA CountByParts ==
  ASSUME NEW S, IsFiniteSet(S), NEW F, \A x \in S : IsFiniteSet(F[x]),
         \A x, y \in S : x # y => F[x] \cap F[y] = {}
  PROVE  /\ IsFiniteSet(UNION {F[x] : x \in S})
         /\ Cardinality(UNION {F[x] : x \in S}) = Total([x \in S |-> Cardinality(F[x])], S)
<1> DEFINE f == [x \in S |-> Cardinality(F[x])]
           Q == {T \in SUBSET S :
                    /\ IsFiniteSet(UNION {F[x] : x \in T})
                    /\ Cardinality(UNION {F[x] : x \in T}) = Total(f, T)}
<1>1. {} \in Q
  <2>1. UNION {F[x] : x \in {}} = {}
    OBVIOUS
  <2>2. QED
    BY <2>1, SumNone, FS_EmptySet
<1>2. ASSUME NEW T \in SUBSET S, NEW z \in S \ T, T \in Q PROVE T \union {z} \in Q
  <2> DEFINE A == UNION {F[x] : x \in T}
  <2>1. UNION {F[x] : x \in T \union {z}} = A \union F[z]
    OBVIOUS
  <2>2. A \cap F[z] = {}
    OBVIOUS
  <2>3. IsFiniteSet(A) /\ Cardinality(A) = Total(f, T)
    BY <1>2
  <2>4. IsFiniteSet(F[z]) /\ IsFiniteSet(A \cap F[z]) /\ Cardinality(A \cap F[z]) = 0
    BY <2>2, FS_EmptySet
  <2>5. IsFiniteSet(T) /\ \A x \in S : f[x] \in Int
    BY FS_Subset, FS_CardinalityType
  <2>6. Total(f, T \union {z}) = f[z] + Total(f, T)
    <3> HIDE DEF f
    <3>1. QED
      BY <2>5, SumAdd
  <2>7. f[z] = Cardinality(F[z]) /\ Cardinality(A) \in Nat /\ Cardinality(F[z]) \in Nat
    BY <2>3, <2>4, FS_CardinalityType
  <2> HIDE DEF A, f
  <2>8. IsFiniteSet(A \union F[z])
        /\ Cardinality(A \union F[z]) =
             Cardinality(A) + Cardinality(F[z]) - Cardinality(A \cap F[z])
    BY <2>3, <2>4, FS_Union
  <2>9. Cardinality(A \union F[z]) = Total(f, T \union {z})
    BY <2>3, <2>4, <2>6, <2>7, <2>8
  <2>10. QED
    BY <2>1, <2>8, <2>9
<1>3. S \in Q
  <2> HIDE DEF Q
  <2>1. QED
    BY <1>1, <1>2, OneMore
<1>4. QED
  BY <1>3

-----------------------------------------------------------------------------
(* Pages: a page, a cached document and a view are as new as what was told.*)

disk == x1
last == x2
poll == x3
generation == x4
log == x5
cache == x6
invalidations == x7
pageSeen == x8
todo == x9
latest == x10
shown == x11
since == x12
request == x13
verb == x14
view == x15
lapse == x16

USE DEF disk, last, poll, generation, log, cache, invalidations, pageSeen, todo, latest,
    shown, since, request, verb, view, lapse

(* What the watcher has told the server of: a cached document is as new.   *)
Announced == IF poll # Idle /\ poll.at = "publish" THEN poll.now ELSE last

NoNewer(f, g) == \A r \in Resources : f[r] <= g[r]

WatchRight ==
    /\ disk \in [Resources -> Nat] /\ last \in [Resources -> Nat] /\ NoNewer(last, disk)
    /\ poll # Idle =>
        /\ poll.now \in [Resources -> Nat] /\ NoNewer(last, poll.now) /\ NoNewer(poll.now, disk)
        /\ DOMAIN poll = {"at", "changed", "now"}
        /\ poll.changed \subseteq Resources
        /\ \A r \in Resources \ poll.changed : poll.now[r] = last[r]

LogEntry == [gen : Nat, names : SUBSET Resources]

(* The log holds the newest generations, one after another.                *)
Logs(l, g) ==
    /\ g \in Nat /\ l \in Seq(LogEntry)
    /\ \A i \in DOMAIN l : l[i].gen = g - Len(l) + i

LogRight == Logs(log, generation)

(* What a page at generation s is told of by such a log.                   *)
ToldBy(l, s) ==
    IF l # <<>> /\ l[1].gen > s + 1 THEN Resources
    ELSE UNION {l[i].names : i \in {j \in DOMAIN l : l[j].gen > s}}

(* A cached document, and one being built with nothing invalidated since,  *)
(* is as new as what the watcher told of.                                  *)
CacheRight(d) ==
    cache[d] # None =>
        /\ cache[d] \in [Reads[d] -> Nat]
        /\ \A r \in Reads[d] : Announced[r] <= cache[d][r]

RequestRight(t) ==
    request[t] # Idle =>
        /\ request[t] \in Request /\ request[t].started <= invalidations
        /\ DOMAIN request[t].got \subseteq Reads[request[t].doc]
        /\ \A r \in DOMAIN request[t].got : request[t].got[r] \in Nat
        /\ request[t].built => DOMAIN request[t].got = Reads[request[t].doc]
        /\ ~request[t].built /\ request[t].started = invalidations =>
              \A r \in DOMAIN request[t].got : Announced[r] <= request[t].got[r]

(* What a page was told of since, and has not heard.                       *)
Unheard(b) == IF pageSeen[b] = None THEN {} ELSE ToldBy(log, pageSeen[b])

(* A picture misses nothing but what the page is still to be told of.      *)
Fresh(picture, base, unheard) ==
    \A r \in DOMAIN picture : picture[r] \in Nat /\ (base[r] <= picture[r] \/ r \in unheard)

(* The newest request of a page for a document is under way, and what it   *)
(* read so far misses nothing the page has heard of, unless the document is*)
(* to be fetched again; nor does what is drawn.                            *)
AskedRight(b, d) ==
    latest[b][d] # None =>
        /\ latest[b][d] \in Servers /\ request[latest[b][d]] # Idle
        /\ request[latest[b][d]].page = b /\ request[latest[b][d]].doc = d
        /\ ~request[latest[b][d]].after => d \notin since[b]
        /\ request[latest[b][d]].after =>
            /\ pageSeen[b] # None
            /\ d \in todo[b] \/ Fresh(request[latest[b][d]].got, last, Unheard(b))

DrawnRight(b, d) ==
    d \in since[b] =>
        /\ pageSeen[b] # None /\ DOMAIN shown[b][d] = Reads[d]
        /\ d \in todo[b] \/ latest[b][d] # None \/ Fresh(shown[b][d], last, Unheard(b))

PageRight ==
    /\ pageSeen \in [Browsers -> {None} \union Nat]
    /\ \A b \in Browsers : pageSeen[b] # None => pageSeen[b] <= generation
    /\ todo \in [Browsers -> SUBSET Docs] /\ since \in [Browsers -> SUBSET Docs]
    /\ latest \in [Browsers -> [Docs -> {None} \union Servers]]
    /\ DOMAIN shown = Browsers /\ \A b \in Browsers : DOMAIN shown[b] = Docs
    /\ \A b \in Browsers, d \in Docs : AskedRight(b, d) /\ DrawnRight(b, d)

ServerRight ==
    /\ invalidations \in Nat /\ DOMAIN cache = Docs /\ DOMAIN request = Servers
    /\ \A d \in Docs : CacheRight(d)
    /\ \A t \in Servers : RequestRight(t)

(* A verb alone renders what it saved.                                     *)
ViewRight ==
    /\ verb \in [Verbs -> {Idle} \union Rendering] /\ lapse \in BOOLEAN
    /\ ~lapse =>
        /\ \A v, w \in Page!Busy : v = w
        /\ \A v \in Page!Busy : verb[v].at = "write" => verb[v].got = disk["entries"]
        /\ Page!Busy = {} => view = disk["entries"]

PagesInv ==
    WatchRight /\ LogRight /\ ServerRight /\ PageRight /\ ViewRight

LEMMA LogFacts ==
  ASSUME NEW l, NEW g, Logs(l, g)
  PROVE  /\ g \in Nat /\ Len(l) \in Nat /\ DOMAIN l = 1..Len(l)
         /\ l = <<>> <=> Len(l) = 0
         /\ \A i \in 1..Len(l) : /\ l[i].gen \in Nat /\ l[i].names \subseteq Resources
                                 /\ l[i].gen = g - Len(l) + i
<1>1. l \in Seq(LogEntry) /\ g \in Nat /\ \A i \in DOMAIN l : l[i].gen = g - Len(l) + i
  BY DEF Logs
<1>2. Len(l) \in Nat /\ DOMAIN l = 1..Len(l) /\ \A i \in 1..Len(l) : l[i] \in LogEntry
  BY <1>1
<1>3. l = <<>> <=> Len(l) = 0
  BY <1>1, EmptySeq
<1>4. \A x \in LogEntry : x.gen \in Nat /\ x.names \subseteq Resources
  BY DEF LogEntry
<1>5. QED
  BY <1>1, <1>2, <1>3, <1>4

(* By the place of an entry, not by its number: it was forgotten, or it is *)
(* there.                                                                  *)
Missed(l, g, s, r) ==
    \/ Len(l) > 0 /\ g - Len(l) > s
    \/ \E i \in 1..Len(l) : g - Len(l) + i > s /\ r \in l[i].names

LEMMA ToldIs ==
  ASSUME NEW l, NEW g, Logs(l, g), NEW s \in Nat
  PROVE  /\ ToldBy(l, s) \subseteq Resources
         /\ \A r \in Resources : r \in ToldBy(l, s) <=> Missed(l, g, s, r)
<1>1. /\ g \in Nat /\ Len(l) \in Nat /\ DOMAIN l = 1..Len(l)
      /\ l = <<>> <=> Len(l) = 0
      /\ \A i \in 1..Len(l) : /\ l[i].gen \in Nat /\ l[i].names \subseteq Resources
                              /\ l[i].gen = g - Len(l) + i
  BY LogFacts
<1>2. Len(l) > 0 => (l[1].gen > s + 1 <=> g - Len(l) > s)
  BY <1>1
<1>3. CASE Len(l) > 0 /\ g - Len(l) > s
  BY <1>1, <1>2, <1>3 DEF ToldBy, Missed
<1>4. CASE ~(Len(l) > 0 /\ g - Len(l) > s)
  <2>1. ToldBy(l, s) = UNION {l[i].names : i \in {j \in DOMAIN l : l[j].gen > s}}
    BY <1>1, <1>2, <1>4 DEF ToldBy
  <2>2. QED
    BY <1>1, <1>4, <2>1 DEF Missed
<1>5. QED
  BY <1>3, <1>4

(* A page that has heard everything waits for nothing.                     *)
LEMMA NothingUnheard ==
  ASSUME LogRight PROVE ToldBy(log, generation) = {} /\ generation \in Nat
<1>1. Len(log) \in Nat /\ generation \in Nat
  BY LogFacts DEF LogRight
<1>2. \A r \in Resources : r \notin ToldBy(log, generation)
  BY <1>1, ToldIs DEF LogRight, Missed
<1>3. QED
  BY <1>1, <1>2, ToldIs DEF LogRight

(* Whatever a page missed, it is told of, the newest change included, as   *)
(* long as the log grows ...                                               *)
LEMMA LogGrows ==
  ASSUME NEW l, NEW g, Logs(l, g), NEW s \in Nat, s <= g,
         NEW k \in Seq(LogEntry), Len(k) = Len(l) + 1, k[Len(k)].gen = g + 1,
         \A i \in 1..Len(l) : k[i] = l[i]
  PROVE  /\ Logs(k, g + 1)
         /\ \A r : Missed(l, g, s, r) \/ r \in k[Len(k)].names => Missed(k, g + 1, s, r)
<1>1. /\ g \in Nat /\ Len(l) \in Nat /\ DOMAIN k = 1..Len(k)
      /\ \A i \in 1..Len(l) : l[i].gen = g - Len(l) + i
  BY LogFacts
<1>2. \A i \in 1..Len(k) : k[i].gen = (g + 1) - Len(k) + i
  <2>1. \A i \in 1..Len(l) : k[i].gen = g - Len(l) + i
    BY <1>1
  <2>2. ASSUME NEW i \in 1..Len(k) PROVE i = Len(k) \/ i \in 1..Len(l)
    BY <1>1
  <2>3. k[Len(k)].gen = (g + 1) - Len(k) + Len(k)
    BY <1>1
  <2>4. QED
    BY <1>1, <2>1, <2>2, <2>3
<1>3. ASSUME NEW r, NEW i \in 1..Len(l), g - Len(l) + i > s, r \in l[i].names
      PROVE  Missed(k, g + 1, s, r)
  <2>1. i \in 1..Len(k) /\ (g + 1) - Len(k) + i > s /\ r \in k[i].names
    BY <1>1, <1>3
  <2>2. QED
    BY <2>1 DEF Missed
<1>4. ASSUME NEW r, r \in k[Len(k)].names
      PROVE  Missed(k, g + 1, s, r)
  <2>1. Len(k) \in 1..Len(k) /\ (g + 1) - Len(k) + Len(k) > s
    BY <1>1
  <2>2. QED
    BY <1>4, <2>1 DEF Missed
<1>5. Len(l) > 0 /\ g - Len(l) > s => Len(k) > 0 /\ (g + 1) - Len(k) > s
  BY <1>1
<1>6. QED
  BY <1>1, <1>2, <1>3, <1>4, <1>5 DEF Logs, Missed

(* ... and when it forgets.                                                *)
LEMMA LogForgets ==
  ASSUME NEW l, NEW g, Logs(l, g), NEW s \in Nat, s <= g,
         NEW k \in Seq(LogEntry), Len(k) = Len(l), Len(l) > 0, k[Len(k)].gen = g + 1,
         \A i \in 1..(Len(l) - 1) : k[i] = l[i + 1]
  PROVE  /\ Logs(k, g + 1)
         /\ \A r : Missed(l, g, s, r) \/ r \in k[Len(k)].names => Missed(k, g + 1, s, r)
<1>1. /\ g \in Nat /\ Len(l) \in Nat /\ DOMAIN k = 1..Len(k)
      /\ \A i \in 1..Len(l) : l[i].gen = g - Len(l) + i
  BY LogFacts
<1>2. \A i \in 1..Len(k) : k[i].gen = (g + 1) - Len(k) + i
  <2>1. \A i \in 1..(Len(l) - 1) : i + 1 \in 1..Len(l) /\ k[i].gen = g - Len(l) + (i + 1)
    BY <1>1
  <2>2. QED
    BY <1>1, <2>1
<1>3. ASSUME NEW r, NEW i \in 1..Len(l), g - Len(l) + i > s, r \in l[i].names, i # 1
      PROVE  Missed(k, g + 1, s, r)
  <2>1. i - 1 \in 1..(Len(l) - 1) /\ (i - 1) + 1 = i
    BY <1>1, <1>3
  <2>2. i - 1 \in 1..Len(k) /\ (g + 1) - Len(k) + (i - 1) > s /\ r \in k[i - 1].names
    BY <1>1, <1>3, <2>1
  <2>3. QED
    BY <2>2 DEF Missed
<1>4. ASSUME NEW r, r \in k[Len(k)].names
      PROVE  Missed(k, g + 1, s, r)
  <2>1. Len(k) \in 1..Len(k) /\ (g + 1) - Len(k) + Len(k) > s
    BY <1>1
  <2>2. QED
    BY <1>4, <2>1 DEF Missed
<1>5. g - Len(l) + 1 > s => Len(k) > 0 /\ (g + 1) - Len(k) > s
  BY <1>1
<1>6. ASSUME NEW r, Missed(l, g, s, r) PROVE Missed(k, g + 1, s, r)
  <2>1. CASE g - Len(l) + 1 > s
    BY <1>5, <2>1 DEF Missed
  <2>2. CASE ~(g - Len(l) + 1 > s)
    <3>1. PICK i \in 1..Len(l) : g - Len(l) + i > s /\ r \in l[i].names
      BY <1>1, <1>6, <2>2 DEF Missed
    <3>2. QED
      BY <1>1, <1>3, <2>2, <3>1
  <2>3. QED
    BY <2>1, <2>2
<1>7. QED
  BY <1>1, <1>2, <1>4, <1>6 DEF Logs

(* So is the log after a publish, and what a page is told of then.         *)
LEMMA PublishTells ==
  ASSUME PagesHyp, LogRight, poll.changed \subseteq Resources, Page!Publish,
         NEW s \in Nat, s <= generation
  PROVE  /\ LogRight' /\ generation' = generation + 1
         /\ ToldBy(log, s) \subseteq ToldBy(log', s) /\ poll.changed \subseteq ToldBy(log', s)
<1> DEFINE e == [gen |-> generation + 1, names |-> poll.changed]
           all == Append(log, e)
<1>1. /\ generation' = generation + 1 /\ log' = IF Len(all) > LogSize THEN Tail(all) ELSE all
  BY DEF Page!Publish
<1>2. e \in LogEntry /\ e.gen = generation + 1 /\ e.names = poll.changed
  BY LogFacts DEF LogEntry, LogRight
<1>3. log \in Seq(LogEntry) /\ Len(log) \in Nat /\ generation \in Nat
  BY DEF LogRight, Logs
<1> HIDE DEF e
<1>4. /\ all \in Seq(LogEntry) /\ Len(all) = Len(log) + 1 /\ all # <<>>
      /\ all[Len(log) + 1] = e /\ \A i \in 1..Len(log) : all[i] = log[i]
  BY <1>2, <1>3, AppendProperties
<1> HIDE DEF all
<1>5. /\ Logs(log', generation + 1)
      /\ \A r : Missed(log, generation, s, r) \/ r \in poll.changed
                  => Missed(log', generation + 1, s, r)
  <2>1. CASE log' = all
    <3>1. /\ log' \in Seq(LogEntry) /\ Len(log') = Len(log) + 1 /\ log'[Len(log')] = e
          /\ \A i \in 1..Len(log) : log'[i] = log[i]
      BY <1>4, <2>1
    <3>2. QED
      BY <1>2, <3>1, LogGrows DEF LogRight
  <2>2. CASE log' = Tail(all) /\ Len(all) > LogSize
    <3>1. /\ log' \in Seq(LogEntry) /\ Len(log') = Len(log) /\ Len(log) > 0
          /\ \A i \in 1..Len(log) : log'[i] = all[i + 1]
      BY <1>3, <1>4, <2>2, HeadTailProperties DEF PagesHyp
    <3>2. log'[Len(log')] = e /\ \A i \in 1..(Len(log) - 1) : log'[i] = log[i + 1]
      BY <1>3, <1>4, <3>1
    <3>3. QED
      BY <1>2, <3>1, <3>2, LogForgets DEF LogRight
  <2>3. QED
    BY <1>1, <2>1, <2>2
<1>6. /\ ToldBy(log, s) \subseteq Resources
      /\ \A r \in Resources : r \in ToldBy(log, s) => Missed(log, generation, s, r)
      /\ \A r \in Resources : Missed(log', generation + 1, s, r) => r \in ToldBy(log', s)
  BY <1>5, ToldIs DEF LogRight
<1>7. QED
  BY <1>1, <1>5, <1>6 DEF LogRight

(* What a step leaves alone.                                               *)

LEMMA WatchKept ==
  ASSUME WatchRight, UNCHANGED <<disk, last, poll>> PROVE WatchRight' /\ Announced' = Announced
BY DEF WatchRight, Announced, NoNewer

LEMMA LogKept == ASSUME LogRight, UNCHANGED <<generation, log>> PROVE LogRight'
BY DEF LogRight

LEMMA ServerKept ==
  ASSUME ServerRight, Announced' = Announced, UNCHANGED <<cache, invalidations, request>>
  PROVE  ServerRight'
BY DEF ServerRight, CacheRight, RequestRight

LEMMA PageKept ==
  ASSUME PageRight,
         UNCHANGED <<last, generation, log, pageSeen, todo, latest, shown, since, request>>
  PROVE  PageRight'
BY DEF PageRight, AskedRight, DrawnRight, Unheard

LEMMA ViewKept ==
  ASSUME ViewRight, UNCHANGED <<verb, view, lapse>>, disk'["entries"] = disk["entries"]
  PROVE  ViewRight'
BY DEF ViewRight, Page!Busy

(* The record and the verbs.                                               *)

LEMMA EditSafe ==
  ASSUME WatchRight, NEW r \in Resources, Page!Edit(r), UNCHANGED <<last, poll>>
  PROVE  WatchRight' /\ Announced' = Announced /\ \A x \in Resources \ {r} : disk'[x] = disk[x]
<1>1. /\ disk' \in [Resources -> Nat] /\ NoNewer(disk, disk')
      /\ \A x \in Resources \ {r} : disk'[x] = disk[x]
  BY DEF WatchRight, Page!Edit, NoNewer
<1>2. Announced' = Announced
  BY DEF Announced
<1>3. QED
  BY <1>1, <1>2 DEF WatchRight, NoNewer

LEMMA TouchSafe ==
  ASSUME PagesHyp, PagesInv, NEW r \in Resources, Page!Touch(r) PROVE PagesInv'
<1>1. WatchRight' /\ Announced' = Announced /\ disk'["entries"] = disk["entries"]
  BY EditSafe DEF Page!Touch, Page!watchVars, PagesHyp, PagesInv
<1>2. QED
  BY <1>1, LogKept, ServerKept, PageKept, ViewKept
  DEF Page!Touch, Page!watchVars, Page!apiVars, Page!pageVars, Page!viewVars, PagesInv

LEMMA SaveSafe ==
  ASSUME PagesHyp, PagesInv, NEW v \in Verbs, Page!Save(v) PROVE PagesInv'
<1>1. WatchRight' /\ Announced' = Announced
  BY EditSafe DEF Page!Save, Page!watchVars, PagesHyp, PagesInv
<1>2. ViewRight'
  <2>1. [at |-> "read", got |-> 0] \in Rendering
    BY DEF Rendering
  <2>2. /\ verb' \in [Verbs -> {Idle} \union Rendering] /\ lapse' \in BOOLEAN
        /\ verb'[v] # Idle /\ verb'[v].at # "write"
        /\ \A w \in Verbs \ {v} : verb'[w] = verb[w]
    BY <2>1 DEF Page!Save, ViewRight, PagesInv, PagesHyp
  <2>3. ~lapse' => Page!Busy = {}
    BY DEF Page!Save
  <2>4. v \in Page!Busy' /\ (~lapse' => Page!Busy' = {v})
    BY <2>2, <2>3 DEF Page!Busy
  <2>5. QED
    BY <2>2, <2>4 DEF ViewRight
<1>3. QED
  BY <1>1, <1>2, LogKept, ServerKept, PageKept
  DEF Page!Save, Page!watchVars, Page!apiVars, Page!pageVars, PagesInv

(* A verb's other steps, of which only the views and the verb change.      *)
LEMMA RenderSafe ==
  ASSUME PagesInv, UNCHANGED <<disk, Page!watchVars, Page!apiVars, Page!pageVars,
      request>>, ViewRight'
  PROVE  PagesInv'
BY WatchKept, LogKept, ServerKept, PageKept
   DEF Page!watchVars, Page!apiVars, Page!pageVars, PagesInv

LEMMA ReadStoreSafe ==
  ASSUME PagesHyp, PagesInv, NEW v \in Verbs, Page!ReadStore(v) PROVE PagesInv'
<1>1. disk["entries"] \in Nat
  BY DEF PagesHyp, PagesInv, WatchRight
<1>2. [at |-> "write", got |-> disk["entries"]] \in Rendering
  BY <1>1 DEF Rendering
<1>3. /\ verb' \in [Verbs -> {Idle} \union Rendering]
      /\ verb[v] # Idle /\ verb'[v] # Idle /\ verb'[v].got = disk["entries"]
      /\ \A w \in Verbs \ {v} : verb'[w] = verb[w]
  BY <1>2 DEF Page!ReadStore, ViewRight, PagesInv, PagesHyp
<1>4. Page!Busy' = Page!Busy
  BY <1>3 DEF Page!Busy
<1>5. ViewRight'
  BY <1>3, <1>4 DEF Page!ReadStore, ViewRight, PagesInv
<1>6. QED
  BY <1>5, RenderSafe DEF Page!ReadStore

LEMMA WriteViewsSafe ==
  ASSUME PagesHyp, PagesInv, NEW v \in Verbs, Page!WriteViews(v) PROVE PagesInv'
<1>1. /\ verb' \in [Verbs -> {Idle} \union Rendering]
      /\ verb[v] # Idle /\ verb'[v] = Idle /\ v \in Page!Busy
      /\ \A w \in Verbs \ {v} : verb'[w] = verb[w]
  BY DEF Page!WriteViews, ViewRight, PagesInv, Page!Busy
<1>2. Page!Busy' = Page!Busy \ {v}
  BY <1>1 DEF Page!Busy
<1>3. ViewRight'
  BY <1>1, <1>2 DEF Page!WriteViews, ViewRight, PagesInv
<1>4. QED
  BY <1>3, RenderSafe DEF Page!WriteViews

LEMMA LeaveStaleSafe ==
  ASSUME PagesInv, NEW v \in Verbs, Page!LeaveStale(v) PROVE PagesInv'
<1>1. ViewRight'
  BY DEF Page!LeaveStale, ViewRight, PagesInv
<1>2. QED
  BY <1>1, RenderSafe DEF Page!LeaveStale

(* The watcher.                                                            *)

(* Before it publishes, a poll tells nobody anything.                      *)
LEMMA PollMoves ==
  ASSUME PagesInv, poll = Idle \/ poll.at # "publish", poll'.at # "publish",
         UNCHANGED <<disk, last, generation, log, Page!apiVars, Page!pageVars, request,
             Page!viewVars>>,
         poll' # Idle =>
             /\ poll'.now \in [Resources -> Nat] /\ NoNewer(last, poll'.now)
             /\ NoNewer(poll'.now, disk)
             /\ DOMAIN poll' = {"at", "changed", "now"} /\ poll'.changed \subseteq Resources
             /\ \A r \in Resources \ poll'.changed : poll'.now[r] = last[r]
  PROVE  PagesInv'
<1>1. Announced' = Announced
  BY DEF Announced
<1>2. WatchRight'
  BY DEF PagesInv, WatchRight, NoNewer
<1>3. QED
  BY <1>1, <1>2, LogKept, ServerKept, PageKept, ViewKept
  DEF Page!apiVars, Page!pageVars, Page!viewVars, PagesInv

LEMMA PollSafe == ASSUME PagesHyp, PagesInv, Page!Poll PROVE PagesInv'
<1> DEFINE now == [disk EXCEPT !["clock"] = last["clock"]]
<1>1. /\ now \in [Resources -> Nat] /\ NoNewer(last, now) /\ NoNewer(now, disk)
      /\ Page!Changed(last, disk) \subseteq Resources
      /\ \A r \in Resources \ Page!Changed(last, disk) : now[r] = last[r]
  BY DEF PagesHyp, PagesInv, WatchRight, NoNewer, Page!Changed
<1> HIDE DEF now
<1>2. poll = Idle /\ poll' = [at |-> "settle", changed |-> Page!Changed(last, disk), now |-> now]
  BY DEF Page!Poll, now
<1>3. /\ poll = Idle /\ poll'.at # "publish" /\ poll'.now = now
      /\ poll'.changed = Page!Changed(last, disk)
      /\ DOMAIN poll' = {"at", "changed", "now"}
  BY <1>2
<1>4. UNCHANGED <<disk, last, generation, log, Page!apiVars, Page!pageVars, request, Page!viewVars>>
  BY DEF Page!Poll
<1>5. QED
  BY <1>1, <1>3, <1>4, PollMoves

LEMMA SettleSafe == ASSUME PagesHyp, PagesInv, Page!Settle PROVE PagesInv'
<1> DEFINE now == [disk EXCEPT !["clock"] = last["clock"]]
           moving == Page!Changed(poll.now, disk)
           changed == poll.changed \union moving
<1>1. /\ now \in [Resources -> Nat] /\ NoNewer(last, now) /\ NoNewer(now, disk)
      /\ changed \subseteq Resources
      /\ \A r \in Resources \ changed : now[r] = last[r]
  BY DEF Page!Settle, PagesHyp, PagesInv, WatchRight, NoNewer, Page!Changed
<1>2. /\ poll # Idle /\ poll.at = "settle"
      /\ poll' = [at |-> IF moving = {} THEN "invalidate" ELSE "settle",
                  changed |-> changed, now |-> now]
  BY DEF Page!Settle
<1> HIDE DEF now, moving, changed
<1>3. /\ poll.at # "publish" /\ poll'.at # "publish" /\ poll'.now = now /\ poll'.changed = changed
      /\ DOMAIN poll' = {"at", "changed", "now"}
  BY <1>2
<1>4. UNCHANGED <<disk, last, generation, log, Page!apiVars, Page!pageVars, request, Page!viewVars>>
  BY DEF Page!Settle
<1>5. QED
  BY <1>1, <1>3, <1>4, PollMoves

LEMMA MinuteSafe == ASSUME PagesHyp, PagesInv, Page!Tick PROVE PagesInv'
<1> DEFINE now == [last EXCEPT !["clock"] = disk["clock"]]
<1>1. /\ now \in [Resources -> Nat] /\ NoNewer(last, now) /\ NoNewer(now, disk)
      /\ {"clock"} \subseteq Resources
      /\ \A r \in Resources \ {"clock"} : now[r] = last[r]
  BY DEF PagesHyp, PagesInv, WatchRight, NoNewer
<1> HIDE DEF now
<1>2. poll = Idle /\ poll' = [at |-> "invalidate", changed |-> {"clock"}, now |-> now]
  BY DEF Page!Tick, now
<1>3. /\ poll = Idle /\ poll'.at # "publish" /\ poll'.now = now /\ poll'.changed = {"clock"}
      /\ DOMAIN poll' = {"at", "changed", "now"}
  BY <1>2
<1>4. UNCHANGED <<disk, last, generation, log, Page!apiVars, Page!pageVars, request, Page!viewVars>>
  BY DEF Page!Tick
<1>5. QED
  BY <1>1, <1>3, <1>4, PollMoves

LEMMA InvalidateSafe == ASSUME PagesHyp, PagesInv, Page!Invalidate PROVE PagesInv'
<1>1. /\ poll # Idle /\ poll.at = "invalidate" /\ poll' = [poll EXCEPT !.at = "publish"]
      /\ poll.now \in [Resources -> Nat] /\ DOMAIN poll = {"at", "changed", "now"}
      /\ NoNewer(last, poll.now) /\ last \in [Resources -> Nat]
      /\ \A r \in Resources \ poll.changed : poll.now[r] = last[r]
  BY DEF Page!Invalidate, PagesInv, WatchRight
<1>2. poll'.now = poll.now /\ poll'.changed = poll.changed /\ DOMAIN poll' = DOMAIN poll
  BY <1>1
<1>3. WatchRight'
  BY <1>2 DEF Page!Invalidate, PagesInv, WatchRight, NoNewer
<1>4. \A r \in Resources : Announced'[r] = last[r] \/ Announced'[r] = poll.now[r]
  BY <1>2 DEF Page!Invalidate, Announced
<1>5. \A r \in Resources : Announced[r] = last[r]
  BY <1>1 DEF Announced
<1>6. ServerRight'
  <2>1. ASSUME NEW d \in Docs, cache'[d] # None, NEW r \in Reads[d]
        PROVE  cache'[d] = cache[d] /\ Announced'[r] <= cache[d][r]
    <3>1. cache'[d] = cache[d] /\ Reads[d] \intersect poll.changed = {}
      BY <2>1 DEF Page!Invalidate, PagesInv, ServerRight
    <3>2. r \in Resources /\ poll.now[r] = last[r]
      BY <1>1, <2>1, <3>1 DEF PagesHyp
    <3>3. last[r] <= cache[d][r]
      BY <1>5, <2>1, <3>1, <3>2 DEF PagesInv, ServerRight, CacheRight
    <3>4. QED
      BY <1>4, <3>1, <3>2, <3>3
  <2>2. ASSUME NEW d \in Docs PROVE CacheRight(d)'
    <3>1. cache'[d] = None \/ cache'[d] = cache[d]
      BY DEF Page!Invalidate
    <3>2. QED
      BY <2>1, <3>1 DEF CacheRight, PagesInv, ServerRight
  <2>3. ASSUME NEW t \in Servers PROVE RequestRight(t)'
    BY DEF Page!Invalidate, Request, RequestRight, PagesInv, ServerRight
  <2>4. QED
    BY <2>2, <2>3 DEF Page!Invalidate, PagesInv, ServerRight
<1>7. QED
  BY <1>3, <1>6, LogKept, PageKept, ViewKept
     DEF Page!Invalidate, Page!pageVars, Page!viewVars, PagesInv

(* Of what a page shows or fetches, the parts.                             *)
LEMMA PicturesRead ==
  ASSUME PagesHyp, PagesInv, NEW b \in Browsers, NEW d \in Docs
  PROVE  /\ Reads[d] \subseteq Resources
         /\ latest[b][d] # None => /\ latest[b][d] \in Servers
                                   /\ DOMAIN request[latest[b][d]].got \subseteq Reads[d]
         /\ d \in since[b] => DOMAIN shown[b][d] = Reads[d]
BY DEF PagesHyp, PagesInv, ServerRight, RequestRight, PageRight, AskedRight, DrawnRight

LEMMA ChangePublishSafe == ASSUME PagesHyp, PagesInv, Page!Publish PROVE PagesInv'
<1>1. /\ poll # Idle /\ poll.at = "publish" /\ poll' = Idle /\ last' = poll.now
      /\ poll.now \in [Resources -> Nat] /\ NoNewer(poll.now, disk)
      /\ disk' = disk /\ disk \in [Resources -> Nat] /\ poll.changed \subseteq Resources
      /\ \A r \in Resources \ poll.changed : poll.now[r] = last[r]
  BY DEF Page!Publish, PagesInv, WatchRight
<1>2. WatchRight' /\ Announced' = Announced
  BY <1>1 DEF WatchRight, Announced, NoNewer
<1>3. generation \in Nat /\ LogRight /\ generation <= generation
  BY NothingUnheard DEF PagesInv
<1>4. LogRight' /\ generation' = generation + 1
  BY <1>1, <1>3, PublishTells DEF PagesInv
<1>5. ASSUME NEW b \in Browsers, pageSeen[b] # None
      PROVE  Unheard(b) \subseteq Unheard(b)' /\ poll.changed \subseteq Unheard(b)'
  <2>1. pageSeen[b] \in Nat /\ pageSeen[b] <= generation /\ pageSeen' = pageSeen
    BY <1>5 DEF PagesInv, PageRight, Page!Publish, Page!pageVars
  <2>2. QED
    BY <1>1, <1>3, <1>5, <2>1, PublishTells DEF PagesInv, Unheard
<1>6. ASSUME NEW b \in Browsers, pageSeen[b] # None, NEW picture, DOMAIN picture \subseteq Resources,
             Fresh(picture, last, Unheard(b))
      PROVE  Fresh(picture, last', Unheard(b)')
  BY <1>1, <1>5, <1>6 DEF Fresh
<1>7. ASSUME NEW b \in Browsers, NEW d \in Docs
      PROVE  AskedRight(b, d)' /\ DrawnRight(b, d)'
  <2>1. AskedRight(b, d) /\ DrawnRight(b, d)
    BY DEF PagesInv, PageRight
  <2>2. UNCHANGED <<pageSeen, todo, latest, shown, since, request>>
    BY DEF Page!Publish, Page!pageVars
  <2>3. QED
    BY <1>6, <2>1, <2>2, PicturesRead DEF AskedRight, DrawnRight
<1>8. PageRight'
  BY <1>3, <1>4, <1>7 DEF Page!Publish, Page!pageVars, PagesInv, PageRight
<1>9. QED
  BY <1>2, <1>4, <1>8, ServerKept, ViewKept DEF Page!Publish, Page!apiVars, Page!viewVars, PagesInv

(* The page.                                                               *)

(* Steps of which only one page's bookkeeping changes.                     *)
LEMMA PageMoves ==
  ASSUME PagesInv, UNCHANGED <<disk, Page!watchVars, Page!apiVars, request,
      Page!viewVars>>, PageRight'
  PROVE  PagesInv'
BY WatchKept, LogKept, ServerKept, ViewKept
   DEF Page!watchVars, Page!apiVars, Page!viewVars, PagesInv

LEMMA ConnectSafe ==
  ASSUME PagesHyp, PagesInv, NEW b \in Browsers, Page!Connect(b) PROVE PagesInv'
<1>1. /\ pageSeen' = [pageSeen EXCEPT ![b] = generation] /\ since' = [since EXCEPT ![b] = {}]
      /\ todo' = IF pageSeen[b] = None THEN todo ELSE [todo EXCEPT ![b] = Docs]
      /\ UNCHANGED <<last, generation, log, latest, shown, request>>
  BY DEF Page!Connect, Page!watchVars
<1>2. PageRight /\ generation \in Nat
  BY NothingUnheard DEF PagesInv
<1>3. ASSUME NEW c \in Browsers, c # b PROVE Unheard(c)' = Unheard(c)
  BY <1>1, <1>2, <1>3 DEF Unheard, PageRight
<1>4. ASSUME NEW c \in Browsers, NEW d \in Docs
      PROVE  AskedRight(c, d)' /\ DrawnRight(c, d)'
  <2>1. AskedRight(c, d) /\ DrawnRight(c, d)
    BY <1>2 DEF PageRight
  <2>2. CASE c # b
    BY <1>1, <1>2, <1>3, <2>1, <2>2 DEF AskedRight, DrawnRight, PageRight
  <2>3. CASE c = b
    <3>1. since'[b] = {} /\ (pageSeen[b] # None => d \in todo'[b]) /\ pageSeen'[b] = generation
      BY <1>1, <1>2 DEF PageRight
    <3>2. QED
      BY <1>1, <1>2, <2>1, <2>3, <3>1 DEF AskedRight, DrawnRight, PagesHyp
  <2>4. QED
    BY <2>2, <2>3
<1>5. PageRight'
  BY <1>1, <1>2, <1>4 DEF PageRight
<1>6. QED
  BY <1>5, PageMoves DEF Page!Connect

LEMMA HearSafe ==
  ASSUME PagesHyp, PagesInv, NEW b \in Browsers, Page!Hear(b) PROVE PagesInv'
<1>1. /\ pageSeen[b] # None /\ pageSeen' = [pageSeen EXCEPT ![b] = generation]
      /\ todo' = [todo EXCEPT ![b] = @ \union Page!Stale(Unheard(b))]
      /\ UNCHANGED <<last, generation, log, latest, shown, since, request>>
  BY DEF Page!Hear, Page!watchVars, Page!Wait, Unheard, ToldBy
<1>2. PageRight /\ generation \in Nat /\ ToldBy(log, generation) = {}
  BY NothingUnheard DEF PagesInv
<1>3. ASSUME NEW c \in Browsers, c # b PROVE Unheard(c)' = Unheard(c)
  BY <1>1, <1>2, <1>3 DEF Unheard, PageRight
<1>4. Unheard(b)' = {} /\ pageSeen'[b] # None
  BY <1>1, <1>2 DEF Unheard, PageRight, PagesHyp
<1>5. ASSUME NEW d \in Docs, d \notin todo'[b], NEW picture, DOMAIN picture \subseteq Reads[d],
             Fresh(picture, last, Unheard(b))
      PROVE  Fresh(picture, last, {})
  <2>1. Reads[d] \intersect Unheard(b) = {}
    BY <1>1, <1>2, <1>5 DEF Page!Stale, PageRight
  <2>2. QED
    BY <1>5, <2>1 DEF Fresh
<1>6. ASSUME NEW c \in Browsers, NEW d \in Docs
      PROVE  AskedRight(c, d)' /\ DrawnRight(c, d)'
  <2>1. AskedRight(c, d) /\ DrawnRight(c, d)
    BY <1>2 DEF PageRight
  <2>2. CASE c # b
    BY <1>1, <1>2, <1>3, <2>1, <2>2 DEF AskedRight, DrawnRight, PageRight
  <2>3. CASE c = b
    <3>1. d \in todo[b] => d \in todo'[b]
      BY <1>1, <1>2 DEF PageRight
    <3>2. AskedRight(b, d)'
      <4>1. latest[b][d] # None /\ request[latest[b][d]].after /\ d \notin todo'[b]
              => Fresh(request[latest[b][d]].got, last, {})
        BY <1>5, <2>1, <2>3, <3>1, PicturesRead DEF AskedRight
      <4>2. QED
        BY <1>1, <1>4, <2>1, <2>3, <4>1 DEF AskedRight
    <3>3. DrawnRight(b, d)'
      <4>1. d \in since[b] /\ latest[b][d] = None /\ d \notin todo'[b]
              => Fresh(shown[b][d], last, {})
        BY <1>5, <2>1, <2>3, <3>1, PicturesRead DEF DrawnRight
      <4>2. QED
        BY <1>1, <1>4, <2>1, <2>3, <4>1 DEF DrawnRight
    <3>4. QED
      BY <2>3, <3>2, <3>3
  <2>4. QED
    BY <2>2, <2>3
<1>7. PageRight'
  <2>1. todo' \in [Browsers -> SUBSET Docs]
    BY <1>1, <1>2 DEF PageRight, Page!Stale
  <2>2. QED
    BY <1>1, <1>2, <1>6, <2>1 DEF PageRight
<1>8. QED
  BY <1>7, PageMoves DEF Page!Hear

LEMMA RefreshSafe ==
  ASSUME PagesHyp, PagesInv, NEW b \in Browsers, NEW d \in Docs, NEW t \in Servers,
         Page!Refresh(b, d, t)
  PROVE  PagesInv'
<1> DEFINE hit == cache[d] # None
           got == IF hit THEN cache[d] ELSE [r \in {} |-> 0]
           req == [page |-> b, doc |-> d, started |-> invalidations, after |-> pageSeen[b] # None,
                   got |-> got, built |-> hit]
<1>1. /\ d \in todo[b] /\ request[t] = Idle /\ request' = [request EXCEPT ![t] = req]
      /\ todo' = [todo EXCEPT ![b] = @ \ {d}] /\ latest' = [latest EXCEPT ![b][d] = t]
      /\ UNCHANGED <<disk, last, poll, generation, log, cache, invalidations, pageSeen, shown, since,
                     Page!viewVars>>
  BY DEF Page!Refresh, Page!watchVars, Page!apiVars
<1>2. PageRight /\ ServerRight /\ WatchRight
  BY DEF PagesInv
<1>3. DOMAIN got \subseteq Reads[d] /\ got \in Pictures /\ (hit => DOMAIN got = Reads[d])
      /\ \A r \in DOMAIN got : got[r] \in Nat /\ Announced[r] <= got[r] /\ last[r] <= got[r]
  <2>1. \A r \in Resources : Announced[r] \in Nat /\ last[r] \in Nat /\ last[r] <= Announced[r]
    BY <1>2 DEF WatchRight, Announced, NoNewer
  <2>2. CASE hit
    <3>1. /\ cache[d] \in [Reads[d] -> Nat] /\ Reads[d] \in SUBSET Resources
          /\ \A r \in Reads[d] : Announced[r] <= cache[d][r]
      BY <1>2, <2>2 DEF ServerRight, CacheRight, PagesHyp
    <3>2. QED
      BY <2>1, <2>2, <3>1 DEF Pictures
  <2>3. CASE ~hit
    <3>1. got = [r \in {} |-> 0] /\ DOMAIN got = {}
      BY <2>3
    <3>2. QED
      BY <2>3, <3>1 DEF Pictures
  <2>4. QED
    BY <2>2, <2>3
<1> HIDE DEF got, hit
<1>4. /\ req \in Request /\ req # Idle /\ req.page = b /\ req.doc = d /\ req.got = got
      /\ req.started = invalidations /\ req.built = hit
      /\ req.after => pageSeen[b] # None
      /\ ~req.after => pageSeen[b] = None
  <2>1. hit \in BOOLEAN /\ invalidations \in Nat
    BY <1>2 DEF hit, ServerRight
  <2>2. req \in Request
    BY <1>3, <2>1 DEF Request
  <2>3. QED
    BY <2>2 DEF PagesHyp
<1> HIDE DEF req
<1>5. request'[t] = req /\ DOMAIN request' = Servers
      /\ \A u \in Servers \ {t} : request'[u] = request[u]
  BY <1>1, <1>2 DEF ServerRight
<1>6. ServerRight'
  <2>1. RequestRight(t)'
    BY <1>1, <1>2, <1>3, <1>4, <1>5 DEF RequestRight, ServerRight, Announced
  <2>2. ASSUME NEW u \in Servers \ {t} PROVE RequestRight(u)'
    BY <1>1, <1>2, <1>5 DEF RequestRight, ServerRight, Announced
  <2>3. ASSUME NEW e \in Docs PROVE CacheRight(e)'
    BY <1>1, <1>2 DEF CacheRight, ServerRight, Announced
  <2>4. QED
    BY <1>1, <1>2, <1>5, <2>1, <2>2, <2>3 DEF ServerRight
<1>7. /\ latest' \in [Browsers -> [Docs -> {None} \union Servers]] /\ latest'[b][d] = t
      /\ \A c \in Browsers, e \in Docs : c # b \/ e # d => latest'[c][e] = latest[c][e]
      /\ todo' \in [Browsers -> SUBSET Docs] /\ todo'[b] = todo[b] \ {d}
      /\ \A c \in Browsers : c # b => todo'[c] = todo[c]
  BY <1>1, <1>2 DEF PageRight
<1>8. \A c \in Browsers : Unheard(c)' = Unheard(c)
  BY <1>1 DEF Unheard
<1>9. ASSUME NEW c \in Browsers, NEW e \in Docs
      PROVE  AskedRight(c, e)' /\ DrawnRight(c, e)'
  <2>1. AskedRight(c, e) /\ DrawnRight(c, e)
    BY <1>2 DEF PageRight
  <2>2. CASE c # b \/ e # d
    <3>1. latest[c][e] # None => latest[c][e] \in Servers \ {t}
      BY <1>1, <2>1 DEF AskedRight
    <3>2. latest'[c][e] = latest[c][e] /\ (e \in todo[c] <=> e \in todo'[c])
      BY <1>7, <2>2
    <3>3. latest[c][e] # None => request'[latest[c][e]] = request[latest[c][e]]
      BY <1>5, <3>1
    <3>4. QED
      BY <1>1, <1>8, <2>1, <3>2, <3>3 DEF AskedRight, DrawnRight
  <2>3. CASE c = b /\ e = d
    <3>1. Fresh(got, last, Unheard(b))
      BY <1>3 DEF Fresh
    <3>2. AskedRight(b, d)'
      <4>1. pageSeen[b] = None => d \notin since[b]
        BY <2>1, <2>3 DEF DrawnRight
      <4>2. QED
        BY <1>1, <1>4, <1>5, <1>7, <1>8, <3>1, <4>1 DEF AskedRight
    <3>3. DrawnRight(b, d)'
      BY <1>1, <1>7, <2>1, <2>3 DEF DrawnRight, PagesHyp
    <3>4. QED
      BY <2>3, <3>2, <3>3
  <2>4. QED
    BY <2>2, <2>3
<1>10. PageRight'
  BY <1>1, <1>2, <1>7, <1>9 DEF PageRight
<1>11. QED
  BY <1>1, <1>6, <1>10, WatchKept, LogKept, ViewKept DEF Page!viewVars, PagesInv

(* A thread works on the request it has.                                   *)
LEMMA PagesAnswered ==
  ASSUME PagesInv, UNCHANGED <<disk, Page!watchVars, invalidations, Page!pageVars, Page!viewVars>>,
         NEW t \in Servers, request[t] # Idle, request'[t] # Idle, DOMAIN request' = Servers,
         \A u \in Servers \ {t} : request'[u] = request[u],
         request'[t].page = request[t].page, request'[t].doc = request[t].doc,
         request'[t].after = request[t].after,
         DOMAIN request[t].got \subseteq DOMAIN request'[t].got,
         \A r \in DOMAIN request[t].got : request'[t].got[r] = request[t].got[r],
         \A r \in DOMAIN request'[t].got \ DOMAIN request[t].got :
             request'[t].got[r] \in Nat /\ last[r] <= request'[t].got[r],
         RequestRight(t)', \A d \in Docs : CacheRight(d)', DOMAIN cache' = Docs
  PROVE  PagesInv'
<1>1. UNCHANGED <<disk, last, poll, generation, log, invalidations, pageSeen, todo, latest,
      shown, since>>
  BY DEF Page!watchVars, Page!pageVars
<1>2. WatchRight' /\ Announced' = Announced /\ LogRight' /\ ViewRight'
  BY <1>1, WatchKept, LogKept, ViewKept DEF Page!viewVars, PagesInv
<1>3. ServerRight'
  BY <1>1, <1>2 DEF ServerRight, RequestRight, PagesInv
<1>4. ASSUME NEW b \in Browsers, NEW d \in Docs
      PROVE  AskedRight(b, d)' /\ DrawnRight(b, d)'
  <2>1. AskedRight(b, d) /\ DrawnRight(b, d) /\ Unheard(b)' = Unheard(b)
    BY <1>1 DEF PagesInv, PageRight, Unheard
  <2>2. Fresh(request[t].got, last, Unheard(b)) => Fresh(request'[t].got, last, Unheard(b))
    BY DEF Fresh
  <2>3. AskedRight(b, d)'
    BY <1>1, <2>1, <2>2 DEF AskedRight
  <2>4. DrawnRight(b, d)'
    BY <1>1, <2>1 DEF DrawnRight
  <2>5. QED
    BY <2>3, <2>4
<1>5. PageRight'
  BY <1>1, <1>4 DEF PageRight, PagesInv
<1>6. QED
  BY <1>2, <1>3, <1>5 DEF PagesInv

LEMMA ReadSafe ==
  ASSUME PagesHyp, PagesInv, NEW t \in Servers, NEW r \in Resources, Page!Read(t, r)
  PROVE  PagesInv'
<1> DEFINE req == request[t]
           got == [x \in DOMAIN req.got \union {r} |-> IF x = r THEN disk[r] ELSE req.got[x]]
<1>1. /\ req # Idle /\ ~req.built /\ r \in Reads[req.doc] \ DOMAIN req.got
      /\ request' = [request EXCEPT ![t].got = got]
      /\ UNCHANGED <<disk, Page!watchVars, Page!apiVars, Page!pageVars, Page!viewVars>>
  BY DEF Page!Read
<1>2. RequestRight(t) /\ DOMAIN request = Servers /\ WatchRight
  BY DEF PagesInv, ServerRight
<1>3. /\ disk[r] \in Nat /\ last[r] <= disk[r] /\ Announced[r] <= disk[r]
  BY <1>2 DEF WatchRight, Announced, NoNewer
<1>4. /\ req \in Request /\ req.doc \in Docs /\ Reads[req.doc] \subseteq Resources
      /\ DOMAIN req.got \subseteq Reads[req.doc] /\ \A x \in DOMAIN req.got : req.got[x] \in Nat
  BY <1>1, <1>2 DEF RequestRight, Request, PagesHyp
<1>5. DOMAIN got = DOMAIN req.got \union {r} /\ got[r] = disk[r]
      /\ \A x \in DOMAIN req.got : got[x] = req.got[x]
  BY <1>1
<1>6. got \in Pictures /\ DOMAIN got \subseteq Reads[req.doc]
  <2>1. got \in [DOMAIN got -> Nat] /\ DOMAIN got \in SUBSET Resources
    BY <1>3, <1>4, <1>5
  <2>2. QED
    BY <1>1, <1>4, <1>5, <2>1 DEF Pictures
<1> HIDE DEF got
<1>7. request'[t] = [req EXCEPT !.got = got] /\ DOMAIN request' = Servers
      /\ \A u \in Servers \ {t} : request'[u] = request[u]
  BY <1>1, <1>2
<1>8. /\ request'[t] \in Request /\ request'[t].got = got /\ request'[t].doc = req.doc
      /\ request'[t].page = req.page /\ request'[t].after = req.after
      /\ request'[t].started = req.started /\ request'[t].built = req.built
  BY <1>4, <1>6, <1>7 DEF Request
<1>9. RequestRight(t)'
  <2>1. invalidations' = invalidations /\ Announced' = Announced
    BY <1>1 DEF Page!apiVars, Page!watchVars, Announced
  <2>2. \A x \in DOMAIN got : got[x] \in Nat
    BY <1>3, <1>4, <1>5
  <2>3. ~req.built /\ req.started = invalidations => \A x \in DOMAIN got : Announced[x] <= got[x]
    BY <1>1, <1>2, <1>3, <1>5 DEF RequestRight
  <2>4. QED
    BY <1>1, <1>2, <1>6, <1>8, <2>1, <2>2, <2>3 DEF RequestRight
<1>10. \A d \in Docs : CacheRight(d)'
  BY <1>1 DEF PagesInv, ServerRight, CacheRight, Page!apiVars, Page!watchVars, Announced
<1>11. request'[t] # Idle
  BY <1>8 DEF PagesHyp
<1>12. DOMAIN cache' = Docs
  BY <1>1 DEF PagesInv, ServerRight, Page!apiVars
<1>13. QED
  BY <1>1, <1>3, <1>5, <1>7, <1>8, <1>9, <1>10, <1>11, <1>12, PagesAnswered DEF Page!apiVars

LEMMA KeepSafe ==
  ASSUME PagesHyp, PagesInv, NEW t \in Servers, Page!Keep(t)
  PROVE  PagesInv'
<1> DEFINE req == request[t]
<1>1. /\ req # Idle /\ ~req.built /\ DOMAIN req.got = Reads[req.doc]
      /\ cache' = IF invalidations = req.started THEN [cache EXCEPT ![req.doc] = req.got] ELSE cache
      /\ request' = [request EXCEPT ![t].built = TRUE]
      /\ UNCHANGED <<disk, Page!watchVars, invalidations, Page!pageVars, Page!viewVars>>
  BY DEF Page!Keep
<1>2. RequestRight(t) /\ DOMAIN request = Servers /\ ServerRight
  BY DEF PagesInv, ServerRight
<1>3. req \in Request /\ req.doc \in Docs
  BY <1>1, <1>2 DEF RequestRight, Request
<1>4. request'[t] = [req EXCEPT !.built = TRUE] /\ DOMAIN request' = Servers
      /\ \A u \in Servers \ {t} : request'[u] = request[u]
  BY <1>1, <1>2
<1>5. /\ request'[t] \in Request /\ request'[t].got = req.got /\ request'[t].doc = req.doc
      /\ request'[t].page = req.page /\ request'[t].after = req.after
      /\ request'[t].started = req.started /\ request'[t].built
  BY <1>3, <1>4 DEF Request
<1>6. Announced' = Announced /\ invalidations' = invalidations
  BY <1>1 DEF Page!watchVars, Announced
<1>7. RequestRight(t)'
  BY <1>1, <1>2, <1>5, <1>6 DEF RequestRight
<1>8. ASSUME NEW d \in Docs PROVE CacheRight(d)'
  <2>1. CASE cache'[d] = cache[d]
    BY <1>2, <1>6, <2>1 DEF CacheRight, ServerRight
  <2>2. CASE invalidations = req.started /\ d = req.doc /\ cache'[d] = req.got
    <3>1. req.got \in [Reads[d] -> Nat]
      BY <1>1, <1>3, <2>2 DEF Request, Pictures
    <3>2. QED
      BY <1>1, <1>2, <1>6, <2>2, <3>1 DEF CacheRight, RequestRight
  <2>3. QED
    BY <1>1, <1>2, <1>3, <2>1, <2>2 DEF ServerRight
<1>9. request'[t] # Idle /\ DOMAIN cache' = Docs
  BY <1>1, <1>2, <1>5 DEF PagesHyp, ServerRight
<1>10. QED
  BY <1>1, <1>4, <1>5, <1>7, <1>8, <1>9, PagesAnswered

LEMMA DrawSafe ==
  ASSUME PagesHyp, PagesInv, NEW t \in Servers, Page!Draw(t)
  PROVE  PagesInv'
<1> DEFINE req == request[t]
<1>1. /\ req # Idle /\ req.built /\ request' = [request EXCEPT ![t] = Idle]
      /\ UNCHANGED <<disk, last, poll, generation, log, cache, invalidations, pageSeen, todo,
           Page!viewVars>>
  BY DEF Page!Draw, Page!watchVars, Page!apiVars
<1>2. /\ RequestRight(t) /\ DOMAIN request = Servers /\ ServerRight /\ PageRight
  BY DEF PagesInv, ServerRight
<1>3. PICK b \in Browsers, d \in Docs :
        b = req.page /\ d = req.doc /\ DOMAIN req.got = Reads[d]
  BY <1>1, <1>2 DEF RequestRight, Request
<1>4. request'[t] = Idle /\ DOMAIN request' = Servers
      /\ \A u \in Servers \ {t} : request'[u] = request[u]
  BY <1>1, <1>2
<1>5. WatchRight' /\ Announced' = Announced /\ LogRight' /\ ViewRight'
  BY <1>1, WatchKept, LogKept, ViewKept DEF Page!viewVars, PagesInv
<1>6. ServerRight'
  BY <1>1, <1>2, <1>4, <1>5 DEF ServerRight, RequestRight, CacheRight
<1>7. \A c \in Browsers : Unheard(c)' = Unheard(c)
  BY <1>1 DEF Unheard
<1>8. CASE latest[b][d] # t
  <2>1. UNCHANGED <<shown, since, latest>>
    BY <1>3, <1>8 DEF Page!Draw
  <2>2. ASSUME NEW c \in Browsers, NEW e \in Docs
        PROVE  AskedRight(c, e)' /\ DrawnRight(c, e)'
    <3>1. AskedRight(c, e) /\ DrawnRight(c, e)
      BY <1>2 DEF PageRight
    <3>2. latest[c][e] # None => latest[c][e] \in Servers \ {t}
      BY <1>3, <1>8, <3>1 DEF AskedRight
    <3>3. latest[c][e] # None => request'[latest[c][e]] = request[latest[c][e]]
      BY <1>4, <3>2
    <3>4. QED
      BY <1>1, <1>7, <2>1, <3>1, <3>3 DEF AskedRight, DrawnRight
  <2>3. PageRight'
    BY <1>1, <1>2, <2>1, <2>2 DEF PageRight
  <2>4. QED
    BY <1>5, <1>6, <2>3 DEF PagesInv
<1>9. CASE latest[b][d] = t
  <2>1. /\ shown' = [shown EXCEPT ![b][d] = req.got]
        /\ since' = IF req.after THEN [since EXCEPT ![b] = @ \union {d}] ELSE since
        /\ latest' = [latest EXCEPT ![b][d] = None]
    BY <1>3, <1>9 DEF Page!Draw
  <2>2. /\ latest' \in [Browsers -> [Docs -> {None} \union Servers]] /\ latest'[b][d] = None
        /\ \A c \in Browsers, e \in Docs : c # b \/ e # d => latest'[c][e] = latest[c][e]
        /\ since' \in [Browsers -> SUBSET Docs]
        /\ \A c \in Browsers, e \in Docs : c # b \/ e # d => (e \in since'[c] <=> e \in since[c])
        /\ DOMAIN shown' = Browsers /\ \A c \in Browsers : DOMAIN shown'[c] = Docs
        /\ shown'[b][d] = req.got
        /\ \A c \in Browsers, e \in Docs : c # b \/ e # d => shown'[c][e] = shown[c][e]
    BY <1>2, <1>3, <2>1 DEF PageRight
  <2>3. ASSUME NEW c \in Browsers, NEW e \in Docs
        PROVE  AskedRight(c, e)' /\ DrawnRight(c, e)'
    <3>1. AskedRight(c, e) /\ DrawnRight(c, e)
      BY <1>2 DEF PageRight
    <3>2. CASE c # b \/ e # d
      <4>1. latest[c][e] # None => latest[c][e] \in Servers \ {t}
        BY <1>3, <3>1, <3>2 DEF AskedRight
      <4>2. latest[c][e] # None => request'[latest[c][e]] = request[latest[c][e]]
        BY <1>4, <4>1
      <4>3. QED
        BY <1>1, <1>7, <2>2, <3>1, <3>2, <4>2 DEF AskedRight, DrawnRight
    <3>3. CASE c = b /\ e = d
      <4>1. AskedRight(b, d)'
        BY <2>2 DEF AskedRight
      <4>2. /\ req.after \in BOOLEAN
            /\ ~req.after => d \notin since[b] /\ since' = since
            /\ req.after => /\ pageSeen[b] # None
                            /\ d \in todo[b] \/ Fresh(req.got, last, Unheard(b))
        BY <1>1, <1>2, <1>3, <1>9, <2>1, <3>1, <3>3
        DEF AskedRight, RequestRight, Request, PagesHyp
      <4>3. DrawnRight(b, d)'
        BY <1>1, <1>3, <1>7, <2>2, <4>2 DEF DrawnRight
      <4>4. QED
        BY <3>3, <4>1, <4>3
    <3>4. QED
      BY <3>2, <3>3
  <2>4. PageRight'
    BY <1>1, <1>2, <2>2, <2>3 DEF PageRight
  <2>5. QED
    BY <1>5, <1>6, <2>4 DEF PagesInv
<1>10. QED
  BY <1>8, <1>9

LEMMA PagesStart == ASSUME PagesHyp, Page!PagesInit PROVE PagesInv
<1>1. WatchRight
  BY DEF Page!PagesInit, WatchRight, NoNewer
<1>2. LogRight
  BY DEF Page!PagesInit, LogRight, Logs
<1>3. ServerRight
  BY DEF Page!PagesInit, ServerRight, CacheRight, RequestRight
<1>4. PageRight
  BY DEF Page!PagesInit, PageRight, AskedRight, DrawnRight
<1>5. ViewRight
  BY DEF Page!PagesInit, ViewRight, Page!Busy, PagesHyp
<1>6. QED
  BY <1>1, <1>2, <1>3, <1>4, <1>5 DEF PagesInv

LEMMA PagesStep ==
  ASSUME PagesHyp, PagesInv, [Page!PagesNext]_Page!pagesVars PROVE PagesInv'
<1>1. CASE Page!PagesNext
  BY <1>1, TouchSafe, SaveSafe, ReadStoreSafe, WriteViewsSafe, LeaveStaleSafe, PollSafe,
     SettleSafe, MinuteSafe, InvalidateSafe, ChangePublishSafe, ConnectSafe, HearSafe, RefreshSafe,
     ReadSafe, KeepSafe, DrawSafe DEF Page!PagesNext
<1>2. CASE UNCHANGED Page!pagesVars
  BY <1>2, WatchKept, LogKept, ServerKept, PageKept, ViewKept DEF Page!pagesVars, PagesInv
<1>3. QED
  BY <1>1, <1>2

LEMMA InvIsCurrent == ASSUME PagesHyp, PagesInv PROVE Page!ReadersCurrent
<1>1. ASSUME NEW b \in Browsers, pageSeen[b] = generation, todo[b] = {}, NEW d \in since[b],
             latest[b][d] = None, NEW r \in Reads[d]
      PROVE  shown[b][d][r] >= last[r]
  <2>1. generation \in Nat /\ ToldBy(log, generation) = {} /\ d \in Docs
    BY NothingUnheard DEF PagesInv, PageRight
  <2>2. Unheard(b) = {}
    BY <1>1, <2>1 DEF Unheard, PagesHyp
  <2>3. Fresh(shown[b][d], last, {}) /\ DOMAIN shown[b][d] = Reads[d]
    BY <1>1, <2>1, <2>2 DEF PagesInv, PageRight, DrawnRight
  <2>4. r \in Resources /\ last[r] \in Nat
    BY <1>1, <2>1 DEF PagesHyp, PagesInv, WatchRight
  <2>5. QED
    BY <2>3, <2>4 DEF Fresh
<1>2. Page!Busy = {} /\ Page!ViewProblem => lapse
  BY DEF PagesInv, ViewRight, Page!ViewProblem
<1>3. QED
  BY <1>1, <1>2 DEF Page!ReadersCurrent

LEMMA PagesRight == PagesHyp => (Page!PagesSpec => []PagesInv)
<1> SUFFICES ASSUME PagesHyp PROVE Page!PagesSpec => []PagesInv
  OBVIOUS
<1>1. Page!PagesInit => PagesInv
  BY PagesStart
<1>2. PagesInv /\ [Page!PagesNext]_Page!pagesVars => PagesInv'
  BY PagesStep
<1>3. QED
  BY <1>1, <1>2, PTL DEF Page!PagesSpec

(* A reader is not left with an old picture in silence, for any number of  *)
(* pages, documents, threads and verbs and any length of the log.          *)
THEOREM PagesCurrent == PagesHyp => (Page!PagesSpec => []Page!ReadersCurrent)
<1> SUFFICES ASSUME PagesHyp PROVE Page!PagesSpec => []Page!ReadersCurrent
  OBVIOUS
<1>1. PagesInv => Page!ReadersCurrent
  BY InvIsCurrent
<1>2. QED
  BY <1>1, PagesRight, PTL

(* A version is bounded by the sum of all of them.                         *)
LEMMA OneOfMany ==
  ASSUME NEW f, NEW S, IsFiniteSet(S), \A x \in S : f[x] \in Nat, NEW x \in S
  PROVE  f[x] <= Total(f, S)
<1>1. \A y \in S : f[y] \in Int
  OBVIOUS
<1>2. Total(f, S) = f[x] + Total(f, S \ {x})
  BY <1>1, SumTake
<1>3. IsFiniteSet(S \ {x})
  BY FS_RemoveElement
<1>4. Total(f, S \ {x}) \in Nat
  BY <1>3, SumNat
<1>5. f[x] \in Nat
  OBVIOUS
<1> DEFINE a == f[x]
           b == Total(f, S \ {x})
<1>6. a \in Nat /\ b \in Nat /\ Total(f, S) = a + b
  BY <1>2, <1>4, <1>5
<1> HIDE DEF a, b
<1>7. a <= Total(f, S)
  BY <1>6
<1>8. QED
  BY <1>7 DEF a

LEMMA EditsAreSummed ==
  Page!MapThenSumSet(LAMBDA x : disk[x], Resources) = Total(disk, Resources)
BY DEF Page!MapThenSumSet, Page!MapThenFoldSet, Total, Folding, Turn, Taken

(* Versions do not exceed the edits; what is kept, or being read, are      *)
(* versions of the record.                                                 *)
PagesTyped ==
    /\ disk \in Page!Scan /\ Len(log) <= LogSize
    /\ \A d \in Docs : cache[d] = None \/ cache[d] \in [Reads[d] -> Page!Versions]
    /\ \A t \in Servers : request[t] # Idle =>
          \A r \in DOMAIN request[t].got : request[t].got[r] \in Page!Versions

LEMMA PagesAreTyped == ASSUME PagesHyp, PagesInv, PagesTyped PROVE Page!PagesTypeOK
<1>1. ASSUME NEW f, f \in [Resources -> Nat], NoNewer(f, disk) PROVE f \in Page!Scan
  <2>1. ASSUME NEW r \in Resources PROVE f[r] \in 0..MaxWrites
    <3>1. f[r] \in Nat /\ f[r] <= disk[r] /\ disk[r] \in 0..MaxWrites
      BY <1>1 DEF PagesTyped, Page!Scan, Page!Versions, NoNewer
    <3>2. MaxWrites \in Nat
      BY DEF PagesHyp
    <3>3. QED
      BY <3>1, <3>2
  <2>2. QED
    BY <1>1, <2>1 DEF Page!Scan, Page!Versions
<1>2. last \in Page!Scan
  BY <1>1 DEF PagesInv, WatchRight
<1>3. poll # Idle => poll.now \in Page!Scan
  BY <1>1 DEF PagesInv, WatchRight
<1>4. \A i \in DOMAIN log : log[i].gen <= generation
  <2>1. Logs(log, generation)
    BY DEF PagesInv, LogRight
  <2>2. /\ generation \in Nat /\ Len(log) \in Nat /\ DOMAIN log = 1..Len(log)
        /\ \A i \in 1..Len(log) : log[i].gen = generation - Len(log) + i
    BY <2>1, LogFacts
  <2>3. QED
    BY <2>2
<1>5. ASSUME NEW b \in Browsers
      PROVE  /\ pageSeen[b] = None \/ pageSeen[b] <= generation
             /\ todo[b] \subseteq Docs /\ since[b] \subseteq Docs
  BY DEF PagesInv, PageRight
<1>6. ASSUME NEW t \in Servers PROVE request[t] = Idle \/ request[t].doc \in Docs
  BY DEF PagesInv, ServerRight, RequestRight, Request
<1>7. QED
  BY <1>2, <1>3, <1>4, <1>5, <1>6 DEF PagesTyped, Page!PagesTypeOK

LEMMA PagesTypesBegin == ASSUME PagesHyp, Page!PagesInit PROVE PagesTyped
<1>1. 0 \in Page!Versions
  BY DEF Page!Versions, PagesHyp
<1>2. QED
  BY <1>1 DEF Page!PagesInit, PagesTyped, Page!Scan, PagesHyp

LEMMA VersionTyped ==
  ASSUME PagesHyp, PagesInv, disk \in Page!Scan, NEW r \in Resources, Page!Edit(r)
  PROVE  disk' \in Page!Scan
<1>1. disk \in [Resources -> 0..MaxWrites] /\ MaxWrites \in Nat /\ IsFiniteSet(Resources)
  BY DEF PagesHyp, Page!Scan, Page!Versions
<1>2. \A x \in Resources : disk[x] \in Nat
  BY <1>1
<1>3. Total(disk, Resources) < MaxWrites
  BY EditsAreSummed DEF Page!Edit
<1>4. disk[r] <= Total(disk, Resources) /\ Total(disk, Resources) \in Nat
  BY <1>1, <1>2, OneOfMany, SumNat
<1>5. disk[r] + 1 \in 0..MaxWrites
  <2>1. disk[r] \in Nat
    BY <1>2
  <2>2. QED
    BY <1>1, <1>3, <1>4, <2>1
<1>6. disk' = [disk EXCEPT ![r] = disk[r] + 1]
  BY DEF Page!Edit
<1>7. QED
  BY <1>1, <1>5, <1>6 DEF Page!Scan, Page!Versions

LEMMA PublishTyped ==
  ASSUME PagesHyp, PagesInv, PagesTyped, Page!Publish PROVE PagesTyped'
<1>1. Logs(log, generation)
  BY DEF PagesInv, LogRight
<1>2. log \in Seq(LogEntry) /\ generation \in Nat
  BY <1>1 DEF Logs
<1> PICK e : e = [gen |-> generation + 1, names |-> poll.changed]
  OBVIOUS
<1>3. e \in LogEntry
  BY <1>2 DEF LogEntry, Page!Publish, PagesInv, WatchRight
<1> PICK all : all = Append(log, e)
  OBVIOUS
<1>4. all \in Seq(LogEntry) /\ Len(all) = Len(log) + 1
  BY <1>2, <1>3
<1>5. log' = IF Len(all) > LogSize THEN Tail(all) ELSE all
  BY DEF Page!Publish
<1>6. Len(log') <= LogSize
  <2>1. Len(log) \in Nat /\ Len(log) <= LogSize /\ LogSize \in Nat
    BY <1>2 DEF PagesTyped, PagesHyp
  <2>2. Len(Tail(all)) = Len(all) - 1
    BY <1>4, <2>1
  <2>3. QED
    BY <1>4, <1>5, <2>1, <2>2
<1>7. UNCHANGED <<disk, cache, request>>
  BY DEF Page!Publish, Page!apiVars
<1>8. QED
  BY <1>6, <1>7 DEF PagesTyped

LEMMA ReadTyped ==
  ASSUME PagesHyp, PagesInv, PagesTyped, NEW t \in Servers, NEW r \in Resources, Page!Read(t, r)
  PROVE  PagesTyped'
<1> PICK req : req = request[t]
  OBVIOUS
<1> PICK got : got = [x \in DOMAIN req.got \union {r} |-> IF x = r THEN disk[r] ELSE req.got[x]]
  OBVIOUS
<1>1. /\ req # Idle /\ request' = [request EXCEPT ![t].got = got]
      /\ UNCHANGED <<disk, log, cache>>
  BY DEF Page!Read, Page!watchVars, Page!apiVars
<1>2. req \in Request /\ DOMAIN request = Servers
  BY <1>1 DEF PagesInv, ServerRight, RequestRight
<1> PICK next : next = [req EXCEPT !.got = got]
  OBVIOUS
<1>3. request' = [request EXCEPT ![t] = next] /\ next.got = got
  BY <1>1, <1>2 DEF Request
<1>4. \A x \in DOMAIN got : got[x] \in Page!Versions
  BY <1>1 DEF PagesTyped, Page!Scan
<1>5. QED
  BY <1>1, <1>2, <1>3, <1>4 DEF PagesTyped

LEMMA RefreshTyped ==
  ASSUME PagesHyp, PagesInv, PagesTyped, NEW b \in Browsers, NEW d \in Docs, NEW t \in Servers,
         Page!Refresh(b, d, t)
  PROVE  PagesTyped'
<1> PICK got : got = IF cache[d] # None THEN cache[d] ELSE [r \in {} |-> 0]
  OBVIOUS
<1> PICK req : req = [page |-> b, doc |-> d, started |-> invalidations, after |-> pageSeen[b] # None,
                      got |-> got, built |-> cache[d] # None]
  OBVIOUS
<1>1. request' = [request EXCEPT ![t] = req] /\ req.got = got /\ UNCHANGED <<disk, log, cache>>
  BY DEF Page!Refresh, Page!watchVars, Page!apiVars
<1>2. \A x \in DOMAIN got : got[x] \in Page!Versions
  BY DEF PagesTyped
<1>3. DOMAIN request = Servers
  BY DEF PagesInv, ServerRight
<1>4. QED
  BY <1>1, <1>2, <1>3 DEF PagesTyped

LEMMA KeepTyped ==
  ASSUME PagesHyp, PagesInv, PagesTyped, NEW t \in Servers, Page!Keep(t) PROVE PagesTyped'
<1> PICK req : req = request[t]
  OBVIOUS
<1>1. /\ req # Idle /\ DOMAIN req.got = Reads[req.doc]
      /\ cache' = IF invalidations = req.started THEN [cache EXCEPT ![req.doc] = req.got] ELSE cache
      /\ request' = [request EXCEPT ![t].built = TRUE] /\ UNCHANGED <<disk, log>>
  BY DEF Page!Keep, Page!watchVars
<1>2. /\ req \in Request /\ DOMAIN request = Servers /\ DOMAIN cache = Docs
  BY <1>1 DEF PagesInv, ServerRight, RequestRight
<1> PICK next : next = [req EXCEPT !.built = TRUE]
  OBVIOUS
<1>3. request' = [request EXCEPT ![t] = next] /\ next.got = req.got
  BY <1>1, <1>2 DEF Request
<1>4. req.got \in Pictures /\ \A x \in DOMAIN req.got : req.got[x] \in Page!Versions
  BY <1>1, <1>2 DEF Request, PagesTyped
<1>5. req.got \in [Reads[req.doc] -> Page!Versions]
  BY <1>1, <1>4 DEF Pictures
<1>6. ASSUME NEW d \in Docs PROVE cache'[d] = None \/ cache'[d] \in [Reads[d] -> Page!Versions]
  BY <1>1, <1>2, <1>5 DEF PagesTyped
<1>7. \A u \in Servers : request'[u] # Idle =>
          \A r \in DOMAIN request'[u].got : request'[u].got[r] \in Page!Versions
  BY <1>1, <1>2, <1>3, <1>4 DEF PagesTyped
<1>8. QED
  BY <1>1, <1>6, <1>7 DEF PagesTyped

LEMMA PagesStepTyped ==
  ASSUME PagesHyp, PagesInv, PagesTyped, Page!PagesNext PROVE PagesTyped'
<1>1. ASSUME UNCHANGED <<log, cache, request>>, disk' \in Page!Scan PROVE PagesTyped'
  BY <1>1 DEF PagesTyped
<1>2. ASSUME NEW r \in Resources, Page!Touch(r) PROVE PagesTyped'
  BY <1>1, <1>2, VersionTyped DEF Page!Touch, PagesTyped, Page!watchVars, Page!apiVars
<1>3. ASSUME NEW v \in Verbs,
             Page!Save(v) \/ Page!ReadStore(v) \/ Page!WriteViews(v) \/ Page!LeaveStale(v)
      PROVE  PagesTyped'
  <2>1. UNCHANGED <<log, cache, request>>
    BY <1>3
       DEF Page!Save, Page!ReadStore, Page!WriteViews, Page!LeaveStale, Page!watchVars,
           Page!apiVars
  <2>2. disk' \in Page!Scan
    <3>1. CASE disk' = disk
      BY <3>1 DEF PagesTyped
    <3>2. CASE Page!Save(v)
      BY <3>2, VersionTyped DEF Page!Save, PagesTyped, PagesHyp
    <3>3. QED
      BY <1>3, <3>1, <3>2 DEF Page!ReadStore, Page!WriteViews, Page!LeaveStale
  <2>3. QED
    BY <1>1, <2>1, <2>2
<1>4. CASE Page!Poll \/ Page!Settle \/ Page!Tick
  BY <1>1, <1>4 DEF Page!Poll, Page!Settle, Page!Tick, Page!apiVars, PagesTyped
<1>5. CASE Page!Invalidate
  BY <1>5 DEF Page!Invalidate, PagesTyped
<1>6. ASSUME NEW b \in Browsers, Page!Connect(b) \/ Page!Hear(b) PROVE PagesTyped'
  BY <1>1, <1>6 DEF Page!Connect, Page!Hear, Page!watchVars, Page!apiVars, PagesTyped
<1>7. ASSUME NEW t \in Servers, Page!Draw(t) PROVE PagesTyped'
  <2>1. UNCHANGED <<disk, log, cache>> /\ request' = [request EXCEPT ![t] = Idle]
    BY <1>7 DEF Page!Draw, Page!watchVars, Page!apiVars
  <2>2. DOMAIN request = Servers
    BY DEF PagesInv, ServerRight
  <2>3. QED
    BY <2>1, <2>2 DEF PagesTyped
<1>8. QED
  BY <1>2, <1>3, <1>4, <1>5, <1>6, <1>7, PublishTyped, ReadTyped, RefreshTyped, KeepTyped
     DEF Page!PagesNext

(* However polls, builds, streams and verbs overlap, the log is no longer  *)
(* than it may be and no generation in it, or heard by a page, is one not  *)
(* published (watch.py publish, api.py get, app.js refresh).               *)
THEOREM PagesTypes == PagesHyp => (Page!PagesSpec => []Page!PagesTypeOK)
<1> SUFFICES ASSUME PagesHyp PROVE Page!PagesSpec => []Page!PagesTypeOK
  OBVIOUS
<1>1. Page!PagesInit => PagesTyped
  BY PagesTypesBegin
<1>2. PagesInv /\ PagesTyped /\ [Page!PagesNext]_Page!pagesVars => PagesTyped'
  <2>1. PagesInv /\ PagesTyped /\ Page!PagesNext => PagesTyped'
    BY PagesStepTyped
  <2>2. PagesTyped /\ UNCHANGED Page!pagesVars => PagesTyped'
    BY DEF PagesTyped, Page!pagesVars
  <2>3. QED
    BY <2>1, <2>2
<1>3. PagesInv /\ PagesTyped => Page!PagesTypeOK
  BY PagesAreTyped
<1>4. QED
  BY <1>1, <1>2, <1>3, PagesRight, PTL DEF Page!PagesSpec

-----------------------------------------------------------------------------
(* On the row MCToolkit runs: the subject is chosen once, and a behaviour  *)
(* of the group is then one of that component.                             *)

LEMMA LineageChosen ==
  RecordsSpec => \/ [](~(subject = "lineage"))
                 \/ [](subject = "lineage") /\ Lin!LineageSpec
<1>1. RecordsInit /\ subject = "lineage" => Lin!LineageInit
  BY DEF RecordsInit
<1>2. subject = "lineage" /\ [RecordsNext]_vars =>
          (subject = "lineage")' /\ [Lin!LineageNext]_Lin!lineageVars
  BY DEF RecordsNext, Rest4, vars, pool, Lin!lineageVars
<1>3. ~(subject = "lineage") /\ [RecordsNext]_vars => (~(subject = "lineage"))'
  BY DEF RecordsNext, vars, Rest4, Rest5
<1>4. QED
  BY <1>1, <1>2, <1>3, PTL DEF RecordsSpec, Lin!LineageSpec

LEMMA DefectsChosen ==
  RecordsSpec => \/ [](~(subject = "defects"))
                 \/ [](subject = "defects") /\ Def!DefectsSpec
<1>1. RecordsInit /\ subject = "defects" => Def!DefectsInit
  BY DEF RecordsInit
<1>2. subject = "defects" /\ [RecordsNext]_vars =>
          (subject = "defects")' /\ [Def!DefectsNext]_Def!defectVars
  BY DEF RecordsNext, Rest5, vars, pool, Def!defectVars
<1>3. ~(subject = "defects") /\ [RecordsNext]_vars => (~(subject = "defects"))'
  BY DEF RecordsNext, vars, Rest4, Rest5
<1>4. QED
  BY <1>1, <1>2, <1>3, PTL DEF RecordsSpec, Def!DefectsSpec

LEMMA SkillsChosen ==
  RecordsSpec => \/ [](~(subject = "skills"))
                 \/ [](subject = "skills") /\ Skil!SkillsSpec
<1>1. RecordsInit /\ subject = "skills" => Skil!SkillsInit
  BY DEF RecordsInit
<1>2. subject = "skills" /\ [RecordsNext]_vars =>
          (subject = "skills")' /\ [Skil!SkillsNext]_Skil!skillVars
  BY DEF RecordsNext, Rest4, vars, pool, Skil!skillVars
<1>3. ~(subject = "skills") /\ [RecordsNext]_vars => (~(subject = "skills"))'
  BY DEF RecordsNext, vars, Rest4, Rest5
<1>4. QED
  BY <1>1, <1>2, <1>3, PTL DEF RecordsSpec, Skil!SkillsSpec

LEMMA PagesChosen ==
  RecordsSpec => \/ [](~(subject = "pages"))
                 \/ [](subject = "pages") /\ Page!PagesSpec
<1>1. RecordsInit /\ subject = "pages" => Page!PagesInit
  BY DEF RecordsInit
<1>2. subject = "pages" /\ [RecordsNext]_vars =>
          (subject = "pages")' /\ [Page!PagesNext]_Page!pagesVars
  BY DEF RecordsNext, vars, pool, Page!pagesVars
<1>3. ~(subject = "pages") /\ [RecordsNext]_vars => (~(subject = "pages"))'
  BY DEF RecordsNext, vars, Rest4, Rest5
<1>4. QED
  BY <1>1, <1>2, <1>3, PTL DEF RecordsSpec, Page!PagesSpec

(* Filing under a lock keeps a parent at its cap (cli.py cmd_entry_new).   *)
THEOREM ToolkitSiblingCap == RecordsSpec => []SiblingCapHeld
<1>1. LineageHyp
  BY RecordsAssumption
<1>2. ~(subject = "lineage") \/ Lin!SiblingCapHeld => SiblingCapHeld
  BY DEF SiblingCapHeld
<1>3. QED
  BY <1>1, <1>2, LineageChosen, SiblingCapHolds, PTL

(* What was retired is named by what absorbed it (cli.py cmd_close).       *)
THEOREM ToolkitRetirementNamed == RecordsSpec => []RetirementNamed
<1>1. LineageHyp
  BY RecordsAssumption
<1>2. ~(subject = "lineage") \/ Lin!RetirementNamed => RetirementNamed
  BY DEF RetirementNamed
<1>3. QED
  BY <1>1, <1>2, LineageChosen, RetirementNamedHolds, PTL

(* A bundle of defects files nothing twice (defects.py ingest_bundle).     *)
THEOREM ToolkitIngestedOnce == RecordsSpec => []IngestedOnce
<1>1. DefectsHyp
  BY RecordsAssumption
<1>2. ~(subject = "defects") \/ Def!IngestedOnce => IngestedOnce
  BY DEF IngestedOnce
<1>3. QED
  BY <1>1, <1>2, DefectsChosen, IngestedOnceHolds, PTL

(* A page shows what it was told of, a view the record (ui/api.py, cli.py);*)
(* a skill that passes rests on verdicts nobody moved since (skills.py).   *)
THEOREM ToolkitReadersCurrent == RecordsSpec => []ReadersCurrent
<1>1. PagesHyp
  BY RecordsAssumption
<1>2. (~(subject = "pages") \/ Page!ReadersCurrent) /\ (~(subject = "skills") \/ Skil!MovedIsTold)
          => ReadersCurrent
  BY DEF ReadersCurrent
<1>3. QED
  BY <1>1, <1>2, PagesChosen, PagesCurrent, SkillsChosen, MovedIsToldHolds, PTL

(* Every variable of the component at hand has its type.                   *)
THEOREM ToolkitRecordTypes == RecordsSpec => []RecordsTypeOK
<1>1. LineageHyp /\ DefectsHyp /\ SkillsHyp /\ PagesHyp
  BY RecordsAssumption
<1>2. /\ ~(subject = "lineage") \/ Lin!LineageTypeOK
      /\ ~(subject = "defects") \/ Def!DefectsTypeOK
      /\ ~(subject = "skills") \/ Skil!SkillsTypeOK
      /\ ~(subject = "pages") \/ Page!PagesTypeOK
      => RecordsTypeOK
  BY DEF RecordsTypeOK
<1>3. QED
  BY <1>1, <1>2, LineageChosen, LineageTypeCorrect, DefectsChosen, DefectsTypes,
     SkillsChosen, SkillsTypes, PagesChosen, PagesTypes, PTL
=============================================================================
