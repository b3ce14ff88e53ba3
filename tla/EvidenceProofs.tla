-------------------------- MODULE EvidenceProofs --------------------------
(***************************************************************************)
(* What measured, and wrote, is not lost: the run ledger, the workspaces   *)
(* of a pool, the worktrees of sessions, relocated memos and imported      *)
(* bundles. EvidenceKept and LedgerProven, for every value of the          *)
(* constants.                                                              *)
(*                                                                         *)
(* Each component has a part of its own, on its instance in the row that   *)
(* MCToolkit runs; the row's variables go by the names of the modules, or  *)
(* near them where two components share a name.                            *)
(* Only the last part, which states the properties as MCToolkit checks     *)
(* them, speaks of a group together. A theorem whose component needs its   *)
(* constants to be numbers, or its model values to be told apart, has that *)
(* as a hypothesis, named ...Hyp (LedgerHyp for RunLedger).                *)
(***************************************************************************)
EXTENDS Evidence, FiniteSetTheorems, TLAPS

(* The row, by the names of the modules.                                   *)
evaluator == x1
copy == x2
inherited == x3
runRows == x4
measuring == x5
receipt == x6
harvest == x7
ledger == x8
audit == x9
tricks == x10
runs == x11
tree == x1
marker == x2
pending == x3
archive == x4
job == x5
slots == x6
poolSeen == x7
worked == x8
harvested == x9
sessionRecord == x2
config == x3
primary == x7
proposed == x9
edits == x10
dropped == x11
memoDisk == x1
memos == x2
memoEntry == x3
meant == x4
bundleTarget == x1
touched == x2
spoiled == x3
bundleLock == x4

USE DEF evaluator, copy, inherited, runRows, measuring, receipt, harvest, ledger,
    audit, tricks, runs, tree, marker, pending, archive, job, slots, poolSeen,
    worked, harvested, sessionRecord, config, primary, proposed, edits, dropped,
    memoDisk, memos, memoEntry, meant, bundleTarget, touched, spoiled, bundleLock

-----------------------------------------------------------------------------
(* RunLedger: rows measured in slots and harvested into the ledger.         *)

Tables ==
    /\ copy \in [Slots -> Ledg!Evaluators \union {Ledg!Edited}]
    /\ runRows \in [Slots -> SUBSET Ledg!Row]
    /\ measuring \in [Slots -> {Idle} \union Ledg!Measuring]
    /\ harvest \in [Slots -> {Idle} \union Harvesting]

(* The row a measurement carries was scored between the two looks at the   *)
(* evaluator: by the one it is stamped with, if both saw that one.         *)
MeasureRight(s) ==
    measuring[s] # Idle =>
        /\ measuring[s].sha <= evaluator
        /\ measuring[s].at # "run" =>
              /\ measuring[s].row.slot = s /\ ~measuring[s].row.forged
              /\ measuring[s].row.sha = measuring[s].sha
        /\ measuring[s].at = "score" =>
              /\ measuring[s].sha <= measuring[s].row.scored
              /\ measuring[s].row.scored <= evaluator
        /\ measuring[s].at \in {"receipt", "append"} =>
              measuring[s].row.scored = measuring[s].row.sha

ReceiptRight(i) ==
    receipt[i] # Absent =>
        receipt[i].id = i /\ ~receipt[i].forged /\ receipt[i].scored = receipt[i].sha

(* A row on its way into the ledger has its receipt, and a copy of its     *)
(* output that nobody else can be making.                                  *)
HarvestRight(s) ==
    harvest[s] # Idle /\ harvest[s].row # Idle =>
        /\ receipt[harvest[s].row.id] = harvest[s].row /\ harvest[s].row.slot = s
        /\ harvest[s].output = "open" => audit = [from |-> s, whole |-> FALSE]
        /\ harvest[s].output = "done" /\ harvest[s].row.out =>
              audit = [from |-> s, whole |-> TRUE]

EntryRight(l) ==
    /\ receipt[l.row.id] = l.row /\ l.row.slot = l.from
    /\ l.row.out => audit = [from |-> l.from, whole |-> TRUE]

LedgerInv ==
    /\ Ledg!LedgerTypeOK /\ Tables
    /\ \A s \in Slots : MeasureRight(s) /\ HarvestRight(s)
    /\ \A i \in RunIds : ReceiptRight(i)
    /\ \A l \in ledger : EntryRight(l)

KeepHarvest == UNCHANGED <<receipt, harvest, ledger, audit>>

(* Everything the harvest and the ledger rest on is as it was.             *)
LEMMA HarvestKept ==
  ASSUME LedgerInv, KeepHarvest
  PROVE  /\ \A s \in Slots : HarvestRight(s)'
         /\ \A i \in RunIds : ReceiptRight(i)'
         /\ \A l \in ledger' : EntryRight(l)'
BY DEF LedgerInv, KeepHarvest, HarvestRight, ReceiptRight, EntryRight

(* A worker meddles with its slot; no measurement of core's is touched.    *)
LEMMA SlotMeddled ==
  ASSUME LedgerInv, KeepHarvest, UNCHANGED <<evaluator, measuring, runs>>,
         tricks' \in 0..MaxTricks, inherited' \subseteq Slots,
         copy' \in [Slots -> Ledg!Evaluators \union {Ledg!Edited}],
         runRows' \in [Slots -> SUBSET Ledg!Row], \A s \in Slots : runRows[s] \subseteq runRows'[s]
  PROVE  LedgerInv'
<1>1. \A s \in Slots : MeasureRight(s)'
  BY DEF LedgerInv, MeasureRight
<1>2. Ledg!LedgerTypeOK' /\ Tables'
  BY DEF LedgerInv, Ledg!LedgerTypeOK, Tables, KeepHarvest
<1>3. /\ \A s \in Slots : HarvestRight(s)'
      /\ \A i \in RunIds : ReceiptRight(i)'
      /\ \A l \in ledger' : EntryRight(l)'
  BY HarvestKept
<1>4. QED
  BY <1>1, <1>2, <1>3 DEF LedgerInv

LEMMA WorkerSafe ==
  ASSUME LedgerHyp, LedgerInv, NEW s \in Slots,
         Ledg!EditCopy(s) \/ Ledg!RewriteInherited(s) \/ Ledg!CopyRow(s) \/ Ledg!WriteByHand(s)
  PROVE  LedgerInv'
<1> USE DEF Ledg!Trick, Ledg!KeepPrimary, KeepHarvest
<1>1. tricks \in 0..MaxTricks /\ inherited \subseteq Slots /\ runRows \in [Slots -> SUBSET Ledg!Row]
      /\ copy \in [Slots -> Ledg!Evaluators \union {Ledg!Edited}] /\ evaluator \in Ledg!Evaluators
  BY DEF LedgerInv, Ledg!LedgerTypeOK, Tables
<1>2. CASE Ledg!EditCopy(s)
  BY <1>1, <1>2, SlotMeddled DEF Ledg!EditCopy, LedgerHyp
<1>3. CASE Ledg!RewriteInherited(s)
  BY <1>1, <1>3, SlotMeddled DEF Ledg!RewriteInherited, LedgerHyp
<1>4. CASE Ledg!CopyRow(s)
  <2>9. PICK t \in Slots : \E r \in runRows[t], f \in BOOLEAN :
             runRows' = [runRows EXCEPT ![s] = @ \union {[r EXCEPT !.forged = f]}]
    BY <1>4 DEF Ledg!CopyRow
  <2>1. PICK r \in runRows[t], f \in BOOLEAN :
             runRows' = [runRows EXCEPT ![s] = @ \union {[r EXCEPT !.forged = f]}]
    BY <2>9
  <2>2. [r EXCEPT !.forged = f] \in Ledg!Row
    BY <1>1 DEF Ledg!Row
  <2>3. runRows' \in [Slots -> SUBSET Ledg!Row] /\ \A x \in Slots : runRows[x] \subseteq runRows'[x]
    BY <1>1, <2>1, <2>2
  <2>4. QED
    BY <1>1, <1>4, <2>3, SlotMeddled DEF Ledg!CopyRow, LedgerHyp
<1>5. CASE Ledg!WriteByHand(s)
  <2>1. PICK i \in RunIds : runRows' = [runRows EXCEPT ![s] = @ \union
             {[id |-> i, slot |-> s, sha |-> evaluator, scored |-> evaluator,
               forged |-> TRUE, out |-> FALSE]}]
    BY <1>5 DEF Ledg!WriteByHand
  <2>2. [id |-> i, slot |-> s, sha |-> evaluator, scored |-> evaluator,
         forged |-> TRUE, out |-> FALSE] \in Ledg!Row
    BY <1>1 DEF Ledg!Row
  <2>3. runRows' \in [Slots -> SUBSET Ledg!Row] /\ \A x \in Slots : runRows[x] \subseteq runRows'[x]
    BY <1>1, <2>1, <2>2
  <2>4. QED
    BY <1>1, <1>5, <2>3, SlotMeddled DEF Ledg!WriteByHand, LedgerHyp
<1>6. QED
  BY <1>2, <1>3, <1>4, <1>5

LEMMA EditEvaluatorSafe ==
  ASSUME LedgerHyp, LedgerInv, Ledg!EditEvaluator
  PROVE  LedgerInv'
<1>1. /\ evaluator' = evaluator + 1 /\ evaluator \in Nat /\ evaluator' \in Ledg!Evaluators
      /\ UNCHANGED <<copy, inherited, runRows, measuring, tricks, runs>> /\ KeepHarvest
  BY DEF Ledg!EditEvaluator, Ledg!KeepBounds, KeepHarvest, LedgerInv, Ledg!LedgerTypeOK,
         Ledg!Evaluators, LedgerHyp
<1>2. \A s \in Slots : MeasureRight(s)'
  BY <1>1 DEF LedgerInv, Tables, MeasureRight, Ledg!Measuring, Ledg!Row, Ledg!Evaluators, LedgerHyp
<1>3. Ledg!LedgerTypeOK' /\ Tables'
  BY <1>1 DEF LedgerInv, Ledg!LedgerTypeOK, Tables, KeepHarvest
<1>4. /\ \A s \in Slots : HarvestRight(s)'
      /\ \A i \in RunIds : ReceiptRight(i)'
      /\ \A l \in ledger' : EntryRight(l)'
  BY <1>1, HarvestKept
<1>5. QED
  BY <1>2, <1>3, <1>4 DEF LedgerInv

(* One measurement goes on to m.                                           *)
LEMMA MeasureGoes ==
  ASSUME LedgerInv, KeepHarvest, NEW s \in Slots, NEW m \in {Idle} \union Ledg!Measuring,
         measuring' = [measuring EXCEPT ![s] = m], MeasureRight(s)',
         UNCHANGED <<evaluator, copy, inherited, runRows, tricks>>, runs' \in 0..MaxRuns
  PROVE  LedgerInv'
<1>1. \A t \in Slots : MeasureRight(t)'
  BY DEF LedgerInv, MeasureRight, Tables
<1>2. Ledg!LedgerTypeOK' /\ Tables'
  BY DEF LedgerInv, Ledg!LedgerTypeOK, Tables, KeepHarvest
<1>3. QED
  BY <1>1, <1>2, HarvestKept DEF LedgerInv

LEMMA MeasuringFields ==
  ASSUME LedgerHyp, LedgerInv, NEW s \in Slots, measuring[s] # Idle
  PROVE  /\ measuring[s] \in Ledg!Measuring /\ measuring[s].sha \in Ledg!Evaluators
         /\ measuring[s].at # "run" => measuring[s].row \in Ledg!Row
         /\ MeasureRight(s) /\ evaluator \in Ledg!Evaluators /\ Ledg!Evaluators \subseteq Nat
         /\ runs \in 0..MaxRuns
BY DEF LedgerInv, Tables, Ledg!LedgerTypeOK, Ledg!Measuring, Ledg!Evaluators

LEMMA MeasuringSafe ==
  ASSUME LedgerHyp, LedgerInv, NEW s \in Slots, Ledg!Measure(s)
  PROVE  LedgerInv'
<1> DEFINE m == [at |-> "run", sha |-> evaluator]
<1>1. /\ measuring' = [measuring EXCEPT ![s] = m] /\ KeepHarvest
      /\ UNCHANGED <<evaluator, copy, inherited, runRows, tricks>> /\ runs' \in 0..MaxRuns
  BY
     DEF Ledg!Measure, Ledg!Goto, Ledg!KeepPrimary, KeepHarvest, LedgerInv, Ledg!LedgerTypeOK,
         LedgerHyp
<1>2. m \in Ledg!Measuring /\ m.at = "run" /\ m.sha = evaluator /\ evaluator \in Nat
  BY DEF LedgerInv, Ledg!LedgerTypeOK, Ledg!Evaluators, Ledg!Measuring
<1> HIDE DEF m
<1>3. MeasureRight(s)'
  BY <1>1, <1>2 DEF MeasureRight, LedgerInv, Tables
<1>4. QED
  BY <1>1, <1>2, <1>3, MeasureGoes

LEMMA ScoreSafe ==
  ASSUME LedgerHyp, LedgerInv, NEW s \in Slots, Ledg!Score(s)
  PROVE  LedgerInv'
<1>1. PICK i \in RunIds, o \in BOOLEAN : measuring' = [measuring EXCEPT ![s] =
            [at |-> "score", sha |-> measuring[s].sha,
             row |-> [id |-> i, slot |-> s, sha |-> measuring[s].sha,
                      scored |-> evaluator, forged |-> FALSE, out |-> o]]]
  BY DEF Ledg!Score, Ledg!Goto
<1>2. /\ KeepHarvest /\ measuring[s] # Idle
      /\ UNCHANGED <<evaluator, copy, inherited, runRows, tricks, runs>>
  BY DEF Ledg!Score, Ledg!KeepPrimary, Ledg!KeepBounds, KeepHarvest
<1> DEFINE r == [id |-> i, slot |-> s, sha |-> measuring[s].sha,
                 scored |-> evaluator, forged |-> FALSE, out |-> o]
<1>3. /\ r \in Ledg!Row /\ r.slot = s /\ ~r.forged /\ r.sha = measuring[s].sha
      /\ r.scored = evaluator
  BY <1>2, MeasuringFields DEF Ledg!Row
<1> DEFINE m == [at |-> "score", sha |-> measuring[s].sha, row |-> r]
<1>4. measuring' = [measuring EXCEPT ![s] = m]
  BY <1>1
<1> HIDE DEF r
<1>5. /\ m \in Ledg!Measuring /\ m.at = "score" /\ m.sha = measuring[s].sha /\ m.row = r
  BY <1>2, <1>3, MeasuringFields DEF Ledg!Measuring
<1> HIDE DEF m
<1>6. MeasureRight(s)'
  <2>1. measuring'[s] = m /\ evaluator' = evaluator /\ m.sha <= evaluator /\ evaluator \in Nat
    BY <1>2, <1>4, <1>5, MeasuringFields DEF LedgerInv, Tables, MeasureRight
  <2>2. QED
    BY <1>3, <1>5, <2>1 DEF MeasureRight
<1>7. QED
  BY <1>2, <1>4, <1>5, <1>6, MeasuringFields, MeasureGoes

(* The second look at the evaluator: what lies between two equal looks at  *)
(* a number that only grows is that number.                                *)
LEMMA StampSafe ==
  ASSUME LedgerHyp, LedgerInv, NEW s \in Slots, Ledg!Stamp(s)
  PROVE  LedgerInv'
<1>1. /\ measuring[s] # Idle /\ measuring[s].at = "score" /\ KeepHarvest
      /\ UNCHANGED <<evaluator, copy, inherited, runRows, tricks, runs>>
  BY DEF Ledg!Stamp, Ledg!KeepPrimary, Ledg!KeepBounds, KeepHarvest
<1>2. CASE Ledg!Drifted(s) \/ evaluator # measuring[s].sha
  <2>1. measuring' = [measuring EXCEPT ![s] = Idle]
    BY <1>2 DEF Ledg!Stamp, Ledg!Goto
  <2>2. MeasureRight(s)'
    BY <2>1 DEF MeasureRight, LedgerInv, Tables
  <2>3. QED
    BY <1>1, <2>1, <2>2, MeasuringFields, MeasureGoes
<1>3. CASE evaluator = measuring[s].sha /\ ~Ledg!Drifted(s)
  <2> DEFINE m == [measuring[s] EXCEPT !.at = "receipt"]
  <2>1. measuring' = [measuring EXCEPT ![s] = m]
    BY <1>3 DEF Ledg!Stamp, Ledg!Goto
  <2>2. /\ m \in Ledg!Measuring /\ m.at = "receipt" /\ m.sha = measuring[s].sha
        /\ m.row = measuring[s].row
    BY <1>1, MeasuringFields DEF Ledg!Measuring
  <2> HIDE DEF m
  <2>3. measuring[s].row.scored = measuring[s].row.sha
    BY <1>1, <1>3, MeasuringFields DEF MeasureRight, Ledg!Row
  <2>4. MeasureRight(s)'
    <3>1. measuring'[s] = m /\ evaluator' = evaluator
      BY <1>1, <2>1 DEF LedgerInv, Tables
    <3>2. QED
      BY <1>1, <2>2, <2>3, <3>1, MeasuringFields DEF MeasureRight
  <2>5. QED
    BY <1>1, <2>1, <2>2, <2>4, MeasuringFields, MeasureGoes
<1>4. QED
  BY <1>2, <1>3

(* A receipt is created under an id that has none.                         *)
LEMMA WriteReceiptSafe ==
  ASSUME LedgerHyp, LedgerInv, NEW s \in Slots, Ledg!WriteReceipt(s)
  PROVE  LedgerInv'
<1>1. /\ measuring[s] # Idle /\ measuring[s].at = "receipt"
      /\ UNCHANGED <<evaluator, copy, inherited, runRows, harvest, ledger, audit, tricks, runs>>
  BY DEF Ledg!WriteReceipt, Ledg!KeepBounds
<1> PICK r : r = measuring[s].row
  OBVIOUS
<1>2. /\ r \in Ledg!Row /\ r.id \in RunIds /\ r.slot = s /\ ~r.forged /\ r.scored = r.sha
  BY <1>1, MeasuringFields DEF MeasureRight, Ledg!Row
<1>3. CASE receipt[r.id] = Absent
  <2> DEFINE m == [measuring[s] EXCEPT !.at = "append"]
  <2>1. /\ receipt' = [receipt EXCEPT ![r.id] = r]
        /\ measuring' = [measuring EXCEPT ![s] = m]
    BY <1>3 DEF Ledg!WriteReceipt, Ledg!Goto
  <2>2. /\ m \in Ledg!Measuring /\ m.at = "append" /\ m.sha = measuring[s].sha
        /\ m.row = measuring[s].row
    BY <1>1, MeasuringFields DEF Ledg!Measuring
  <2> HIDE DEF m
  <2>3. MeasureRight(s)'
    <3>1. measuring'[s] = m /\ evaluator' = evaluator
      BY <1>1, <2>1 DEF LedgerInv, Tables
    <3>2. QED
      BY <1>1, <2>2, <3>1, MeasuringFields DEF MeasureRight
  <2>4. ASSUME NEW t \in Slots PROVE MeasureRight(t)'
    BY <1>1, <2>1, <2>3 DEF LedgerInv, Tables, MeasureRight
  <2>5. Ledg!LedgerTypeOK' /\ Tables'
    BY <1>1, <1>2, <2>1, <2>2 DEF LedgerInv, Ledg!LedgerTypeOK, Tables
  <2>6. \A i \in RunIds : receipt[i] # Absent => receipt'[i] = receipt[i]
    BY <1>3, <2>1 DEF LedgerInv, Ledg!LedgerTypeOK
  <2>7. ASSUME NEW i \in RunIds PROVE ReceiptRight(i)'
    BY <1>2, <2>1 DEF LedgerInv, Ledg!LedgerTypeOK, ReceiptRight
  <2>8. ASSUME NEW t \in Slots PROVE HarvestRight(t)'
    <3>1. SUFFICES ASSUME harvest[t] # Idle, harvest[t].row # Idle PROVE HarvestRight(t)'
      BY <1>1 DEF HarvestRight
    <3>2. harvest[t].row \in Ledg!Row /\ harvest[t].row.id \in RunIds
      BY <3>1 DEF LedgerInv, Tables, Harvesting, Ledg!Row
    <3>3. HarvestRight(t) /\ receipt[harvest[t].row.id] # Absent
      BY <3>1, <3>2 DEF LedgerInv, HarvestRight, LedgerHyp
    <3>4. QED
      BY <1>1, <2>6, <3>1, <3>2, <3>3 DEF HarvestRight
  <2>9. ASSUME NEW l \in ledger PROVE EntryRight(l)'
    <3>1. l.row \in Ledg!Row /\ l.row.id \in RunIds /\ EntryRight(l)
      BY DEF LedgerInv, Ledg!LedgerTypeOK, Ledg!Row
    <3>2. receipt[l.row.id] # Absent
      BY <3>1 DEF EntryRight, LedgerHyp
    <3>3. QED
      BY <1>1, <2>6, <3>1, <3>2 DEF EntryRight
  <2>10. QED
    BY <1>1, <2>4, <2>5, <2>7, <2>8, <2>9 DEF LedgerInv
<1>4. CASE receipt[r.id] # Absent
  <2>1. KeepHarvest /\ measuring' = [measuring EXCEPT ![s] = Idle]
    BY <1>1, <1>4 DEF Ledg!WriteReceipt, Ledg!Goto, KeepHarvest
  <2>2. MeasureRight(s)'
    BY <2>1 DEF MeasureRight, LedgerInv, Tables
  <2>3. QED
    BY <1>1, <2>1, <2>2, MeasuringFields, MeasureGoes
<1>5. QED
  BY <1>3, <1>4

LEMMA AppendRowSafe ==
  ASSUME LedgerHyp, LedgerInv, NEW s \in Slots, Ledg!AppendRow(s)
  PROVE  LedgerInv'
<1>1. /\ measuring[s] # Idle /\ measuring[s].at = "append" /\ KeepHarvest
      /\ measuring' = [measuring EXCEPT ![s] = Idle]
      /\ runRows' = [runRows EXCEPT ![s] = @ \union {measuring[s].row}]
      /\ UNCHANGED <<evaluator, copy, inherited, tricks, runs>>
  BY DEF Ledg!AppendRow, Ledg!Goto, Ledg!KeepPrimary, Ledg!KeepBounds, KeepHarvest
<1>2. measuring[s].row \in Ledg!Row
  BY <1>1, MeasuringFields
<1>3. runRows' \in [Slots -> SUBSET Ledg!Row] /\ \A t \in Slots : runRows[t] \subseteq runRows'[t]
  BY <1>1, <1>2 DEF LedgerInv, Tables
<1>4. Ledg!LedgerTypeOK' /\ Tables'
  BY <1>1, <1>3 DEF LedgerInv, Ledg!LedgerTypeOK, Tables, KeepHarvest
<1>5. ASSUME NEW t \in Slots PROVE MeasureRight(t)'
  BY <1>1 DEF LedgerInv, Tables, MeasureRight
<1>6. QED
  BY <1>1, <1>4, <1>5, HarvestKept DEF LedgerInv

LEMMA MeasureDiesSafe ==
  ASSUME LedgerHyp, LedgerInv, NEW s \in Slots, Ledg!MeasureDies(s)
  PROVE  LedgerInv'
<1>1. /\ KeepHarvest /\ measuring' = [measuring EXCEPT ![s] = Idle]
      /\ UNCHANGED <<evaluator, copy, inherited, runRows, tricks, runs>> /\ measuring[s] # Idle
  BY DEF Ledg!MeasureDies, Ledg!Goto, Ledg!KeepPrimary, Ledg!KeepBounds, KeepHarvest
<1>2. MeasureRight(s)'
  BY <1>1 DEF MeasureRight, LedgerInv, Tables
<1>3. QED
  BY <1>1, <1>2, MeasuringFields, MeasureGoes

(* One harvest goes on to h, with the audit at a; nothing is linked.       *)
LEMMA HarvestGoes ==
  ASSUME LedgerHyp, LedgerInv, NEW s \in Slots, NEW h \in {Idle} \union Harvesting,
         harvest' = [harvest EXCEPT ![s] = h], h # Idle => h.todo \subseteq runRows[s],
         HarvestRight(s)', Ledg!KeepSlots, UNCHANGED <<receipt, ledger>>,
         audit' \in {Absent} \union Audit,
         \A t \in Slots : audit = [from |-> t, whole |-> TRUE] => audit' = audit,
         \A t \in Slots : t # s /\ audit = [from |-> t, whole |-> FALSE] => audit' = audit
  PROVE  LedgerInv'
<1>1. UNCHANGED <<evaluator, copy, inherited, runRows, measuring, tricks, runs>>
  BY DEF Ledg!KeepSlots, Ledg!KeepBounds
<1>2. ASSUME NEW t \in Slots PROVE MeasureRight(t)'
  BY <1>1 DEF LedgerInv, MeasureRight
<1>3. Tables' /\ \A t \in Slots : t # s => harvest'[t] = harvest[t]
  BY <1>1 DEF LedgerInv, Tables
<1>4. Ledg!LedgerTypeOK'
  BY <1>1 DEF LedgerInv, Ledg!LedgerTypeOK, Tables, Audit
<1>5. ASSUME NEW i \in RunIds PROVE ReceiptRight(i)'
  BY DEF LedgerInv, ReceiptRight
<1>6. ASSUME NEW t \in Slots, t # s PROVE HarvestRight(t)'
  BY <1>3, <1>6 DEF LedgerInv, HarvestRight
<1>7. ASSUME NEW l \in ledger PROVE EntryRight(l)'
  <2>1. EntryRight(l) /\ l.from \in Slots
    BY DEF LedgerInv, Ledg!LedgerTypeOK
  <2>2. QED
    BY <2>1 DEF EntryRight
<1>8. QED
  BY <1>2, <1>3, <1>4, <1>5, <1>6, <1>7 DEF LedgerInv

LEMMA HarvestFields ==
  ASSUME LedgerHyp, LedgerInv, NEW s \in Slots, harvest[s] # Idle
  PROVE  /\ harvest[s] \in Harvesting /\ harvest[s].known \subseteq Ledg!Row
         /\ harvest[s].todo \subseteq runRows[s] /\ harvest[s].row \in {Idle} \union Ledg!Row
         /\ harvest[s].todo \subseteq Ledg!Row
         /\ HarvestRight(s) /\ audit \in {Absent} \union Audit
         /\ harvest \in [Slots -> {Idle} \union Harvesting]
BY DEF LedgerInv, Tables, Ledg!LedgerTypeOK, Harvesting, Audit

LEMMA BeginHarvestSafe ==
  ASSUME LedgerHyp, LedgerInv, NEW s \in Slots, Ledg!BeginHarvest(s)
  PROVE  LedgerInv'
<1> DEFINE h == [known |-> Ledg!ReadAll, todo |-> runRows[s], row |-> Idle, output |-> "done"]
<1>1. /\ harvest' = [harvest EXCEPT ![s] = h] /\ Ledg!KeepSlots
      /\ UNCHANGED <<receipt, ledger, audit>>
  BY DEF Ledg!BeginHarvest
<1>2. Ledg!ReadAll \subseteq Ledg!Row
  BY DEF Ledg!ReadAll, LedgerInv, Ledg!LedgerTypeOK
<1>3. h \in Harvesting /\ h.todo = runRows[s] /\ h.row = Idle
  BY <1>2 DEF Harvesting, LedgerInv, Tables
<1> HIDE DEF h
<1>4. HarvestRight(s)' /\ audit \in {Absent} \union Audit
  BY <1>1, <1>3 DEF HarvestRight, LedgerInv, Tables, Ledg!LedgerTypeOK, Audit
<1>5. QED
  BY <1>1, <1>3, <1>4, HarvestGoes

LEMMA PassOverSafe ==
  ASSUME LedgerHyp, LedgerInv, NEW s \in Slots, Ledg!PassOver(s)
  PROVE  LedgerInv'
<1>1. PICK r \in harvest[s].todo : harvest' = [harvest EXCEPT ![s].todo = @ \ {r}]
  BY DEF Ledg!PassOver
<1>2. harvest[s] # Idle /\ harvest[s].row = Idle /\ Ledg!KeepSlots /\
      UNCHANGED <<receipt, ledger, audit>>
  BY DEF Ledg!PassOver
<1> DEFINE h == [harvest[s] EXCEPT !.todo = @ \ {r}]
<1>3. harvest' = [harvest EXCEPT ![s] = h]
  BY <1>1
<1>4. h \in Harvesting /\ h.todo \subseteq runRows[s] /\ h.row = Idle
  BY <1>2, HarvestFields DEF Harvesting
<1> HIDE DEF h
<1>5. HarvestRight(s)'
  BY <1>2, <1>3, <1>4, HarvestFields DEF HarvestRight
<1>6. QED
  BY <1>2, <1>3, <1>4, <1>5, HarvestFields, HarvestGoes

LEMMA TakeRowSafe ==
  ASSUME LedgerHyp, LedgerInv, NEW s \in Slots, Ledg!TakeRow(s)
  PROVE  LedgerInv'
<1>1. PICK r \in harvest[s].todo :
        /\ Ledg!Receipted(s, r)
        /\ harvest' = [harvest EXCEPT ![s].todo = @ \ {r}, ![s].row = r,
                            ![s].output = IF r.out THEN "todo" ELSE "done"]
  BY DEF Ledg!TakeRow
<1>2. harvest[s] # Idle /\ harvest[s].row = Idle /\ Ledg!KeepSlots /\
      UNCHANGED <<receipt, ledger, audit>>
  BY DEF Ledg!TakeRow
<1> PICK w : w = (IF r.out THEN "todo" ELSE "done")
  OBVIOUS
<1> DEFINE h == [harvest[s] EXCEPT !.todo = @ \ {r}, !.row = r, !.output = w]
<1>3. harvest' = [harvest EXCEPT ![s] = h]
  BY <1>1
<1>4. /\ h \in Harvesting /\ h.todo \subseteq runRows[s] /\ h.row = r
      /\ h.output # "open" /\ (h.output = "done" => ~r.out)
  <2>1. r \in Ledg!Row
    BY <1>2, HarvestFields
  <2>2. w \in {"todo", "done"} /\ (w = "done" => ~r.out)
    BY <2>1 DEF Ledg!Row
  <2>3. QED
    BY <1>2, <2>1, <2>2, HarvestFields DEF Harvesting
<1> HIDE DEF h
<1>5. HarvestRight(s)'
  BY <1>1, <1>2, <1>3, <1>4, HarvestFields DEF HarvestRight, Ledg!Receipted
<1>6. QED
  BY <1>2, <1>3, <1>4, <1>5, HarvestFields, HarvestGoes

(* One step of the copy of the declared output, or none was needed.        *)
LEMMA OutputSafe ==
  ASSUME LedgerHyp, LedgerInv, NEW s \in Slots,
         Ledg!OpenOutput(s) \/ Ledg!FillOutput(s) \/ Ledg!KeepOutput(s)
  PROVE  LedgerInv'
<1>1. PICK w \in {"open", "done"} :
        /\ harvest' = [harvest EXCEPT ![s].output = w]
        /\ w = "open" => audit = Absent /\ audit' = [from |-> s, whole |-> FALSE]
        /\ w = "done" => audit' = [from |-> s, whole |-> TRUE]
        /\ \/ audit = Absent
           \/ harvest[s].output = "open"
           \/ audit' = audit
  BY DEF Ledg!OpenOutput, Ledg!FillOutput, Ledg!KeepOutput, Ledg!SameOutput, Ledg!Output
<1>2. harvest[s] # Idle /\ harvest[s].row # Idle /\ Ledg!KeepSlots /\ UNCHANGED <<receipt, ledger>>
  BY DEF Ledg!OpenOutput, Ledg!FillOutput, Ledg!KeepOutput, Ledg!Output
<1> DEFINE g == [harvest[s] EXCEPT !.output = w]
<1>3. harvest' = [harvest EXCEPT ![s] = g]
  BY <1>1
<1>4. /\ g \in Harvesting /\ g.todo \subseteq runRows[s] /\ g.row = harvest[s].row /\ g.output = w
  BY <1>2, HarvestFields DEF Harvesting
<1> HIDE DEF g
<1>5. HarvestRight(s)' /\ HarvestRight(s)
  BY <1>1, <1>2, <1>3, <1>4, HarvestFields DEF HarvestRight
<1>6. audit' \in {Absent} \union Audit
  <2>1. audit \in {Absent} \union Audit
    BY <1>2, HarvestFields
  <2>2. [from |-> s, whole |-> TRUE] \in Audit /\ [from |-> s, whole |-> FALSE] \in Audit
    BY DEF Audit
  <2>3. QED
    BY <1>1, <2>1, <2>2
<1>7. /\ \A t \in Slots : audit = [from |-> t, whole |-> TRUE] => audit' = audit
      /\ \A t \in Slots : t # s /\ audit = [from |-> t, whole |-> FALSE] => audit' = audit
  <2>1. \A t \in Slots, b \in BOOLEAN : [from |-> t, whole |-> b] # Absent
    BY DEF LedgerHyp, Audit
  <2>2. CASE audit = Absent
    BY <2>1, <2>2
  <2>3. CASE harvest[s].output = "open"
    BY <1>2, <1>5, <2>3 DEF HarvestRight
  <2>4. QED
    BY <1>1, <2>2, <2>3
<1>8. QED
  BY <1>2, <1>3, <1>4, <1>5, <1>6, <1>7, HarvestGoes

LEMMA CollideSafe ==
  ASSUME LedgerHyp, LedgerInv, NEW s \in Slots, Ledg!Collide(s)
  PROVE  LedgerInv'
<1>1. /\ harvest' = [harvest EXCEPT ![s].row = Idle] /\ Ledg!KeepSlots
      /\ UNCHANGED <<receipt, ledger, audit>> /\ harvest[s] # Idle
  BY DEF Ledg!Collide, Ledg!Output
<1> DEFINE h == [harvest[s] EXCEPT !.row = Idle]
<1>2. harvest' = [harvest EXCEPT ![s] = h]
  BY <1>1
<1>3. h \in Harvesting /\ h.todo \subseteq runRows[s] /\ h.row = Idle
  BY <1>1, HarvestFields DEF Harvesting
<1> HIDE DEF h
<1>4. HarvestRight(s)'
  BY <1>1, <1>2, <1>3, HarvestFields DEF HarvestRight
<1>5. QED
  BY <1>1, <1>2, <1>3, <1>4, HarvestFields, HarvestGoes

LEMMA EndHarvestSafe ==
  ASSUME LedgerHyp, LedgerInv, NEW s \in Slots, Ledg!EndHarvest(s)
  PROVE  LedgerInv'
<1>1. /\ harvest' = [harvest EXCEPT ![s] = Idle] /\ Ledg!KeepSlots
      /\ UNCHANGED <<receipt, ledger, audit>> /\ harvest[s] # Idle
  BY DEF Ledg!EndHarvest
<1>2. HarvestRight(s)'
  BY <1>1, HarvestFields DEF HarvestRight
<1>3. QED
  BY <1>1, <1>2, HarvestFields, HarvestGoes

LEMMA LinkRowSafe ==
  ASSUME LedgerHyp, LedgerInv, NEW s \in Slots, Ledg!LinkRow(s)
  PROVE  LedgerInv'
<1>1. /\ harvest[s] # Idle /\ harvest[s].row # Idle /\ harvest[s].output = "done"
      /\ ledger' = ledger \union {[row |-> harvest[s].row, from |-> s]}
      /\ harvest' = [harvest EXCEPT ![s].row = Idle, ![s].known = @ \union {harvest[s].row}]
      /\ UNCHANGED <<receipt, audit>> /\ Ledg!KeepSlots
  BY DEF Ledg!LinkRow, Ledg!Output
<1>2. UNCHANGED <<evaluator, copy, inherited, runRows, measuring, tricks, runs>>
  BY <1>1 DEF Ledg!KeepSlots, Ledg!KeepBounds
<1> DEFINE h == [harvest[s] EXCEPT !.row = Idle, !.known = @ \union {harvest[s].row}]
<1>3. harvest' = [harvest EXCEPT ![s] = h]
  BY <1>1
<1>4. h \in Harvesting /\ h.todo \subseteq runRows[s] /\ h.row = Idle
  BY <1>1, HarvestFields DEF Harvesting
<1> HIDE DEF h
<1> PICK l : l = [row |-> harvest[s].row, from |-> s]
  OBVIOUS
<1>5. EntryRight(l)' /\ l \in [row : Ledg!Row, from : Slots]
  BY <1>1, HarvestFields DEF EntryRight, HarvestRight
<1>6. Tables' /\ \A t \in Slots : t # s => harvest'[t] = harvest[t]
  BY <1>2, <1>3, <1>4 DEF LedgerInv, Tables
<1>7. Ledg!LedgerTypeOK'
  BY <1>1, <1>2, <1>3, <1>4, <1>5 DEF LedgerInv, Ledg!LedgerTypeOK, Tables
<1>8. ASSUME NEW t \in Slots PROVE MeasureRight(t)' /\ HarvestRight(t)'
  <2>1. MeasureRight(t)'
    BY <1>2 DEF LedgerInv, MeasureRight
  <2>2. HarvestRight(t)'
    BY <1>1, <1>3, <1>4, <1>6, HarvestFields DEF LedgerInv, HarvestRight
  <2>3. QED
    BY <2>1, <2>2
<1>9. \A i \in RunIds : ReceiptRight(i)'
  BY <1>1 DEF LedgerInv, ReceiptRight
<1>10. \A k \in ledger : EntryRight(k)'
  BY <1>1 DEF LedgerInv, EntryRight
<1>11. QED
  BY <1>1, <1>5, <1>6, <1>7, <1>8, <1>9, <1>10 DEF LedgerInv

LEMMA LedgerStarts == ASSUME LedgerHyp, Ledg!LedgerInit PROVE LedgerInv
BY DEF LedgerHyp, Ledg!LedgerInit, LedgerInv, Ledg!LedgerTypeOK, Tables, MeasureRight,
       HarvestRight, ReceiptRight, EntryRight, Ledg!Evaluators

(* The invariant holds throughout.                                         *)
THEOREM LedgerSafe == LedgerHyp => (Ledg!LedgerSpec => []LedgerInv)
<1> SUFFICES ASSUME LedgerHyp PROVE Ledg!LedgerSpec => []LedgerInv
  OBVIOUS
<1>1. Ledg!LedgerInit => LedgerInv
  BY LedgerStarts
<1>2. LedgerInv /\ [Ledg!LedgerNext]_Ledg!ledgerVars => LedgerInv'
  <2>1. LedgerInv /\ Ledg!LedgerNext => LedgerInv'
    BY EditEvaluatorSafe, WorkerSafe, MeasuringSafe, ScoreSafe, StampSafe, WriteReceiptSafe,
       AppendRowSafe, MeasureDiesSafe, BeginHarvestSafe, PassOverSafe, TakeRowSafe, OutputSafe,
       CollideSafe, LinkRowSafe, EndHarvestSafe DEF Ledg!LedgerNext
  <2>2. LedgerInv /\ UNCHANGED Ledg!ledgerVars => LedgerInv'
    <3> SUFFICES ASSUME LedgerInv, UNCHANGED Ledg!ledgerVars PROVE LedgerInv'
      OBVIOUS
    <3>1. /\ UNCHANGED <<evaluator, copy, inherited, runRows, measuring, tricks, runs>>
          /\ KeepHarvest
      BY DEF Ledg!ledgerVars, KeepHarvest
    <3>2. tricks \in 0..MaxTricks /\ inherited \subseteq Slots
          /\ runRows \in [Slots -> SUBSET Ledg!Row]
          /\ copy \in [Slots -> Ledg!Evaluators \union {Ledg!Edited}]
      BY DEF LedgerInv, Ledg!LedgerTypeOK, Tables
    <3>3. QED
      BY <3>1, <3>2, SlotMeddled
  <2>3. QED
    BY <2>1, <2>2
<1>3. QED
  BY <1>1, <1>2, PTL DEF Ledg!LedgerSpec

(* The types, for any slots and any run ids.                               *)
THEOREM LedgerTypeCorrect == LedgerHyp => (Ledg!LedgerSpec => []Ledg!LedgerTypeOK)
<1> SUFFICES ASSUME LedgerHyp PROVE Ledg!LedgerSpec => []Ledg!LedgerTypeOK
  OBVIOUS
<1>1. LedgerInv => Ledg!LedgerTypeOK
  BY DEF LedgerInv
<1>2. QED
  BY <1>1, LedgerSafe, PTL

(* Only rows core measured, in the slot they came from and with the        *)
(* evaluator they are stamped with, are evidence (cli.py cmd_measure,      *)
(* evaluator.py receipt_problem, runs.py harvest).                         *)
THEOREM LedgerProvenHolds == LedgerHyp => (Ledg!LedgerSpec => []Ledg!LedgerProven)
<1> SUFFICES ASSUME LedgerHyp PROVE Ledg!LedgerSpec => []Ledg!LedgerProven
  OBVIOUS
<1>1. ASSUME LedgerInv PROVE Ledg!LedgerProven
  <2>1. ASSUME NEW l \in ledger
        PROVE  /\ ReceiptRight(l.row.id) /\ EntryRight(l) /\ receipt[l.row.id] # Absent
               /\ l = [row |-> l.row, from |-> l.from]
    BY <1>1 DEF LedgerInv, Ledg!LedgerTypeOK, Ledg!Row, EntryRight, LedgerHyp
  <2>2. QED
    BY <2>1 DEF Ledg!LedgerProven, ReceiptRight, EntryRight
<1>2. QED
  BY <1>1, LedgerSafe, PTL

(* A row in the ledger has its whole audit beside it, the one of its slot  *)
(* (runs.py retain_output).                                                *)
THEOREM AuditKeptHolds == LedgerHyp => (Ledg!LedgerSpec => []Ledg!AuditKept)
<1> SUFFICES ASSUME LedgerHyp PROVE Ledg!LedgerSpec => []Ledg!AuditKept
  OBVIOUS
<1>1. LedgerInv => Ledg!AuditKept
  BY DEF LedgerInv, EntryRight, Ledg!AuditKept
<1>2. QED
  BY <1>1, LedgerSafe, PTL

-----------------------------------------------------------------------------
(* Workspaces: the slots of a pool, and the evidence in them.              *)

Slotted(p, n) == n \in DOMAIN slots[p]

(* Evidence nobody took is gone with the directory.                        *)
Spent(n) == tree[n] \in {None, 0} \union harvested

(* At most one process remembers a slot, and its marker stands while it    *)
(* does.  What it does not keep holds nothing that is not safe.            *)
SlotsRight ==
    /\ \A p, q \in Pools, n \in Names : Slotted(p, n) /\ Slotted(q, n) => p = q
    /\ \A p \in Pools, n \in Names : Slotted(p, n) =>
          /\ marker[n] # None
          /\ slots[p][n] \/ Spent(n)

(* Who makes or recovers a slot has it to itself.                          *)
LockRight ==
    /\ job \in {Idle} \union PoolJob
    /\ job # Idle /\ job.op = "mark" => Spent(job.name) /\ Work!Inactive(job.name)
    /\ job # Idle /\ job.op \in {"move", "unlink"} => Work!Inactive(job.name)
    /\ job # Idle /\ job.op = "unmark" =>
          \A p \in Pools : Slotted(p, job.name) => p = job.by

PoolInv == Work!WorkspacesTypeOK /\ DOMAIN slots = Pools /\ SlotsRight /\ LockRight /\
    Work!EvidenceKept

LEMMA PoolStarts == ASSUME WorkspacesHyp, Work!WorkspacesInit PROVE PoolInv
BY DEF WorkspacesHyp, Work!WorkspacesInit, PoolInv, Work!WorkspacesTypeOK, SlotsRight, LockRight,
       Work!EvidenceKept, Work!Evidence, Slotted

LEMMA JobFields ==
  ASSUME WorkspacesHyp, PoolInv, job # Idle
  PROVE  job \in PoolJob /\ job.by \in Pools /\ job.op \in Ops /\ job.name \in Names
BY DEF PoolInv, LockRight, PoolJob

(* A marker is written, and p remembers the slot.                          *)
LEMMA Remembered ==
  ASSUME WorkspacesHyp, PoolInv, NEW p \in Pools, NEW n \in Names, NEW kept \in BOOLEAN,
         slots' = [slots EXCEPT ![p] = Work!Remember(@, n, kept)],
         marker' = [marker EXCEPT ![n] = [holder |-> Holder[p], kept |-> kept]],
         kept \/ Spent(n), \A q \in Pools : Slotted(q, n) => q = p,
         UNCHANGED <<tree, pending, archive, worked, harvested>>, job' = Idle
  PROVE  PoolInv'
<1> PICK m : m = [holder |-> Holder[p], kept |-> kept]
  OBVIOUS
<1> PICK f : f = Work!Remember(slots[p], n, kept)
  OBVIOUS
<1>1. m \in Work!Mark /\ m # None /\ marker' = [marker EXCEPT ![n] = m]
  BY DEF WorkspacesHyp, Work!Mark
<1>2. /\ DOMAIN f = DOMAIN slots[p] \union {n} /\ f[n] = kept
      /\ \A x \in DOMAIN slots[p] : x # n => f[x] = slots[p][x]
      /\ slots' = [slots EXCEPT ![p] = f]
  BY DEF Work!Remember
<1>3. DOMAIN slots' = Pools /\ slots'[p] = f /\ \A q \in Pools : q # p => slots'[q] = slots[q]
  BY <1>2 DEF PoolInv
<1>4. Work!WorkspacesTypeOK'
  BY <1>1, <1>2, <1>3 DEF PoolInv, Work!WorkspacesTypeOK
<1>5. SlotsRight'
  BY <1>1, <1>2, <1>3 DEF PoolInv, Work!WorkspacesTypeOK, SlotsRight, Slotted, Spent
<1>6. LockRight' /\ Work!EvidenceKept'
  BY DEF PoolInv, LockRight, Work!EvidenceKept
<1>7. QED
  BY <1>3, <1>4, <1>5, <1>6 DEF PoolInv

(* Slots are forgotten, and only markers nobody remembers change.          *)
LEMMA Forgotten ==
  ASSUME WorkspacesHyp, PoolInv, DOMAIN slots' = Pools,
         \A q \in Pools : \A x \in DOMAIN slots'[q] : x \in DOMAIN slots[q] /\
             slots'[q][x] = slots[q][x],
         marker' \in [Names -> {None} \union Work!Mark],
         \A x \in Names : marker'[x] = marker[x] \/ \A q \in Pools : x \notin DOMAIN slots'[q],
         UNCHANGED <<tree, pending, archive, worked, harvested>>, job' \in {job, Idle}
  PROVE  PoolInv'
<1>2. \A q \in Pools, x \in Names : Slotted(q, x)' => Slotted(q, x) /\ slots'[q][x] = slots[q][x]
  BY DEF Slotted
<1>3. Work!WorkspacesTypeOK'
  BY DEF PoolInv, Work!WorkspacesTypeOK
<1>a. \A q \in Pools, x \in Names : Slotted(q, x)' => marker'[x] = marker[x]
  BY DEF Slotted
<1>4. SlotsRight'
  BY <1>2, <1>a DEF PoolInv, SlotsRight, Spent
<1>5. LockRight'
  <2>1. CASE job' = Idle
    BY <2>1 DEF LockRight
  <2>2. CASE job' = job /\ job # Idle
    BY <1>2, <2>2, JobFields DEF PoolInv, LockRight, Spent, Work!Inactive, Slotted
  <2>3. QED
    BY <2>1, <2>2
<1>6. Work!EvidenceKept'
  BY DEF PoolInv, Work!EvidenceKept
<1>7. QED
  BY <1>3, <1>4, <1>5, <1>6 DEF PoolInv

LEMMA AcquireSlotSafe ==
  ASSUME WorkspacesHyp, PoolInv, NEW p \in Pools, NEW n \in Names, Work!Acquire(p, n)
  PROVE  PoolInv'
<1> PICK j : j = [by |-> p, op |-> "mark", name |-> n]
  OBVIOUS
<1>1. j \in PoolJob /\ j # Idle /\ j.op = "mark" /\ j.name = n /\ job' = j
  BY DEF Work!Acquire, Work!Lock, PoolJob, Ops, WorkspacesHyp
<1>2. /\ tree[n] = None /\ marker[n] = None /\ tree' = [tree EXCEPT ![n] = 0]
      /\ UNCHANGED <<marker, pending, archive, slots, worked, harvested>>
  BY DEF Work!Acquire
<1>3. Work!Inactive(n)
  BY <1>2 DEF PoolInv, SlotsRight, Slotted, Work!Inactive
<1>4. Work!WorkspacesTypeOK'
  BY <1>1, <1>2 DEF PoolInv, Work!WorkspacesTypeOK, Work!Evidence, WorkspacesHyp
<1>5. SlotsRight' /\ LockRight'
  BY <1>1, <1>2, <1>3
     DEF PoolInv, Work!WorkspacesTypeOK, SlotsRight, LockRight, Slotted, Spent, Work!Inactive
<1>6. Work!EvidenceKept'
  BY <1>2 DEF PoolInv, Work!WorkspacesTypeOK, Work!EvidenceKept, WorkspacesHyp, Work!Evidence
<1>7. QED
  BY <1>2, <1>4, <1>5, <1>6 DEF PoolInv

LEMMA MarkSlotSafe ==
  ASSUME WorkspacesHyp, PoolInv, NEW p \in Pools, Work!MarkSlot(p)
  PROVE  PoolInv'
<1>1. /\ job # Idle /\ job.op = "mark" /\ job' = Idle
      /\ marker' = [marker EXCEPT ![job.name] = [holder |-> Holder[p], kept |-> FALSE]]
      /\ slots' = [slots EXCEPT ![p] = Work!Remember(@, job.name, FALSE)]
      /\ UNCHANGED <<tree, pending, archive, worked, harvested>>
  BY DEF Work!MarkSlot, Work!Step
<1>2. job.name \in Names /\ Spent(job.name) /\ Work!Inactive(job.name)
  BY <1>1, JobFields DEF PoolInv, LockRight
<1>3. QED
  BY <1>1, <1>2, Remembered DEF Work!Inactive, Slotted

LEMMA RetainSafe ==
  ASSUME WorkspacesHyp, PoolInv, NEW p \in Pools, NEW n \in Names, NEW kept \in BOOLEAN,
         Work!Retain(p, n, kept), kept \/ tree[n] = 0 \/ tree[n] \in harvested
  PROVE  PoolInv'
<1>1. /\ slots' = [slots EXCEPT ![p] = Work!Remember(@, n, kept)]
      /\ marker' = [marker EXCEPT ![n] = [holder |-> Holder[p], kept |-> kept]]
      /\ UNCHANGED <<tree, pending, archive, worked, harvested>> /\ job' = Idle
      /\ Slotted(p, n)
  BY DEF Work!Retain, Slotted
<1>2. \A q \in Pools : Slotted(q, n) => q = p
  BY <1>1 DEF PoolInv, SlotsRight
<1>3. kept \/ Spent(n)
  BY DEF Spent
<1>4. QED
  BY <1>1, <1>2, <1>3, Remembered

(* A worker makes evidence, in a slot that is kept.                        *)
LEMMA StartWorkerSafe ==
  ASSUME WorkspacesHyp, PoolInv, NEW p \in Pools, NEW n \in Names, Work!StartWorker(p, n)
  PROVE  PoolInv'
<1>1. /\ Slotted(p, n) /\ slots[p][n] /\ tree[n] = 0 /\ worked < MaxWork
      /\ worked' = worked + 1 /\ tree' = [tree EXCEPT ![n] = worked + 1]
      /\ UNCHANGED <<marker, pending, archive, slots, job, harvested>>
  BY DEF Work!StartWorker, Slotted
<1>2. Work!WorkspacesTypeOK' /\ worked \in Nat /\ tree \in [Names -> {None} \union Work!Evidence]
  BY <1>1 DEF PoolInv, Work!WorkspacesTypeOK, Work!Evidence, WorkspacesHyp
<1>3. SlotsRight'
  BY <1>1, <1>2 DEF PoolInv, SlotsRight, Slotted, Spent
<1>4. LockRight'
  <2>1. SUFFICES ASSUME job # Idle PROVE LockRight'
    BY <1>1 DEF PoolInv, LockRight
  <2>2. job.op = "mark" => job.name # n
    BY <1>1, <2>1 DEF PoolInv, LockRight, Work!Inactive, Slotted
  <2>3. QED
    BY <1>1, <1>2, <2>1, <2>2, JobFields DEF PoolInv, LockRight, Work!Inactive, Slotted, Spent
<1>5. Work!EvidenceKept'
  <2>1. ASSUME NEW w \in 1..(worked + 1)
        PROVE  w \in harvested \/ w \in archive \/ \E m \in Names : tree'[m] = w
    <3>1. CASE w = worked + 1
      BY <1>1, <1>2, <3>1
    <3>2. CASE w \in 1..worked
      <4>1. w \in harvested \/ w \in archive \/ \E m \in Names : tree[m] = w
        BY <3>2 DEF PoolInv, Work!EvidenceKept
      <4>2. ASSUME NEW m \in Names, tree[m] = w PROVE tree'[m] = w
        BY <1>1, <1>2, <3>2, <4>2
      <4>3. QED
        BY <4>1, <4>2
    <3>3. QED
      BY <1>2, <3>1, <3>2
  <2>2. QED
    BY <1>1, <2>1 DEF Work!EvidenceKept
<1>6. QED
  BY <1>1, <1>2, <1>3, <1>4, <1>5 DEF PoolInv

LEMMA HarvestSafe ==
  ASSUME WorkspacesHyp, PoolInv, NEW p \in Pools, NEW n \in Names, Work!Harvest(p, n)
  PROVE  PoolInv'
<1>1. /\ harvested' = harvested \union {tree[n]} /\ tree[n] \in 1..MaxWork
      /\ UNCHANGED <<tree, marker, pending, archive, slots, job, worked>>
  BY DEF Work!Harvest
<1>2. Work!WorkspacesTypeOK'
  <2>1. tree[n] \in Work!Evidence
    BY <1>1 DEF Work!Evidence, WorkspacesHyp
  <2>2. QED
    BY <1>1, <2>1 DEF PoolInv, Work!WorkspacesTypeOK
<1>a. SlotsRight'
  BY <1>1 DEF PoolInv, SlotsRight, Slotted, Spent
<1>3. LockRight'
  BY <1>1 DEF PoolInv, LockRight, Work!Inactive, Slotted, Spent
<1>4. Work!EvidenceKept'
  BY <1>1 DEF PoolInv, Work!EvidenceKept
<1>5. QED
  BY <1>1, <1>2, <1>a, <1>3, <1>4 DEF PoolInv

(* A directory goes, with nothing in it that is not safe, or into the      *)
(* archive.                                                                *)
LEMMA TreeGone ==
  ASSUME WorkspacesHyp, PoolInv, NEW n \in Names, tree' = [tree EXCEPT ![n] = None],
         \/ archive' = archive /\ Spent(n)
         \/ archive' = archive \union {tree[n]} /\ tree[n] # None,
         UNCHANGED <<marker, pending, slots, worked, harvested>>,
         job' \in PoolJob, LockRight'
  PROVE  PoolInv'
<1>1. tree \in [Names -> {None} \union Work!Evidence] /\ worked \in Nat
  BY DEF PoolInv, Work!WorkspacesTypeOK, Work!Evidence, WorkspacesHyp
<1>2. Work!WorkspacesTypeOK'
  BY <1>1 DEF PoolInv, Work!WorkspacesTypeOK, PoolJob
<1>3. SlotsRight'
  BY <1>1 DEF PoolInv, SlotsRight, Slotted, Spent
<1>4. Work!EvidenceKept'
  <2>1. ASSUME NEW w \in 1..worked
        PROVE  w \in harvested \/ w \in archive' \/ \E m \in Names : tree'[m] = w
    <3>1. w \in harvested \/ w \in archive \/ \E m \in Names : tree[m] = w
      BY DEF PoolInv, Work!EvidenceKept
    <3>2. ASSUME NEW m \in Names, tree[m] = w
          PROVE  w \in harvested \/ w \in archive' \/ tree'[m] = w
      BY <1>1, <3>2 DEF Spent, WorkspacesHyp
    <3>3. QED
      BY <3>1, <3>2
  <2>2. QED
    BY <2>1 DEF Work!EvidenceKept
<1>5. QED
  BY <1>2, <1>3, <1>4 DEF PoolInv

LEMMA ReleaseSafe ==
  ASSUME WorkspacesHyp, PoolInv, NEW p \in Pools, NEW n \in Names, Work!Release(p, n)
  PROVE  PoolInv'
<1> PICK j : j = [by |-> p, op |-> "unmark", name |-> n]
  OBVIOUS
<1>1. j \in PoolJob /\ j # Idle /\ j.op = "unmark" /\ j.name = n /\ j.by = p /\ job' = j
  BY DEF Work!Release, Work!Lock, PoolJob, Ops, WorkspacesHyp
<1>2. /\ Slotted(p, n) /\ ~slots[p][n] /\ tree' = [tree EXCEPT ![n] = None]
      /\ UNCHANGED <<marker, pending, archive, slots, worked, harvested>>
  BY DEF Work!Release, Slotted
<1>3. Spent(n) /\ \A q \in Pools : Slotted(q, n) => q = p
  BY <1>2 DEF PoolInv, SlotsRight
<1>4. LockRight'
  BY <1>1, <1>2, <1>3 DEF LockRight, Slotted
<1>5. QED
  BY <1>1, <1>2, <1>3, <1>4, TreeGone

LEMMA UnmarkSafe ==
  ASSUME WorkspacesHyp, PoolInv, NEW p \in Pools, Work!Unmark(p)
  PROVE  PoolInv'
<1> PICK n : n = job.name
  OBVIOUS
<1> PICK f : f = Work!Forget(slots[p], n)
  OBVIOUS
<1>1. /\ job # Idle /\ job.by = p /\ job.op = "unmark" /\ job' = Idle
      /\ marker' = [marker EXCEPT ![n] = None] /\ slots' = [slots EXCEPT ![p] = f]
      /\ UNCHANGED <<tree, pending, archive, worked, harvested>>
  BY DEF Work!Unmark, Work!Step
<1>2. n \in Names /\ \A q \in Pools : Slotted(q, n) => q = p
  BY <1>1, JobFields DEF PoolInv, LockRight
<1>3. DOMAIN f = DOMAIN slots[p] \ {n} /\ \A x \in DOMAIN f : f[x] = slots[p][x]
  BY DEF Work!Forget
<1>4. /\ marker' \in [Names -> {None} \union Work!Mark]
      /\ \A x \in Names : x # n => marker'[x] = marker[x]
  BY <1>1, <1>2 DEF PoolInv, Work!WorkspacesTypeOK
<1>5. \A q \in Pools : n \notin DOMAIN slots'[q]
  BY <1>1, <1>2, <1>3 DEF PoolInv, Slotted
<1>6. \A x \in Names : marker'[x] = marker[x] \/ \A q \in Pools : x \notin DOMAIN slots'[q]
  BY <1>4, <1>5
<1>7. /\ DOMAIN slots' = Pools
      /\ \A q \in Pools : \A x \in DOMAIN slots'[q] :
            x \in DOMAIN slots[q] /\ slots'[q][x] = slots[q][x]
  BY <1>1, <1>3 DEF PoolInv
<1>8. QED
  BY <1>1, <1>4, <1>6, <1>7, Forgotten

LEMMA InspectSafe ==
  ASSUME PoolInv, NEW n \in Names, Work!Inspect(n)
  PROVE  PoolInv'
<1>1. UNCHANGED <<tree, marker, pending, archive, slots, job, worked, harvested>>
  BY DEF Work!Inspect
<1>2. QED
  BY <1>1
     DEF PoolInv, Work!WorkspacesTypeOK, SlotsRight, LockRight, Work!EvidenceKept,
         Slotted, Spent, Work!Inactive

LEMMA RecoverSafe ==
  ASSUME WorkspacesHyp, PoolInv, NEW p \in Pools, NEW n \in Names, Work!Recover(p, n)
  PROVE  PoolInv'
<1> PICK j : j = [by |-> p, op |-> "move", name |-> n]
  OBVIOUS
<1>1. j \in PoolJob /\ j # Idle /\ j.op = "move" /\ j.name = n /\ job' = j
  BY DEF Work!Recover, Work!Lock, PoolJob, Ops, WorkspacesHyp
<1>2. /\ Work!Inactive(n) /\ pending' = pending \union {n}
      /\ UNCHANGED <<tree, marker, archive, slots, worked, harvested>>
  BY DEF Work!Recover
<1>3. Work!WorkspacesTypeOK' /\ SlotsRight' /\ Work!EvidenceKept'
  BY <1>1, <1>2 DEF PoolInv, Work!WorkspacesTypeOK, SlotsRight, Work!EvidenceKept, Slotted, Spent
<1>4. LockRight'
  BY <1>1, <1>2 DEF LockRight, Work!Inactive
<1>5. QED
  BY <1>2, <1>3, <1>4 DEF PoolInv

LEMMA MoveEvidenceSafe ==
  ASSUME WorkspacesHyp, PoolInv, NEW p \in Pools, Work!MoveEvidence(p)
  PROVE  PoolInv'
<1> PICK n : n = job.name
  OBVIOUS
<1> PICK j : j = [job EXCEPT !.op = "unlink"]
  OBVIOUS
<1>1. /\ job # Idle /\ job.op = "move" /\ job' = j
      /\ archive' = (IF tree[n] = None THEN archive ELSE archive \union {tree[n]})
      /\ tree' = [tree EXCEPT ![n] = None]
      /\ UNCHANGED <<marker, pending, slots, worked, harvested>>
  BY DEF Work!MoveEvidence, Work!Step, Work!Then
<1>2. /\ j \in PoolJob /\ j # Idle /\ j.op = "unlink" /\ j.name = n /\ n \in Names
      /\ Work!Inactive(n)
  BY <1>1, JobFields DEF PoolInv, LockRight, PoolJob, Ops, WorkspacesHyp
<1>3. LockRight'
  BY <1>1, <1>2 DEF LockRight, Work!Inactive
<1>4. \/ archive' = archive /\ Spent(n)
      \/ archive' = archive \union {tree[n]} /\ tree[n] # None
  BY <1>1 DEF Spent
<1>5. QED
  BY <1>1, <1>2, <1>3, <1>4, TreeGone

LEMMA UnlinkMarkerSafe ==
  ASSUME WorkspacesHyp, PoolInv, NEW p \in Pools, Work!UnlinkMarker(p)
  PROVE  PoolInv'
<1> PICK n : n = job.name
  OBVIOUS
<1> PICK j : j = [job EXCEPT !.op = "finish"]
  OBVIOUS
<1>1. /\ job # Idle /\ job.op = "unlink" /\ job' = j
      /\ marker' = [marker EXCEPT ![n] = None]
      /\ UNCHANGED <<tree, pending, archive, slots, worked, harvested>>
  BY DEF Work!UnlinkMarker, Work!Step, Work!Then
<1>2. /\ j \in PoolJob /\ j # Idle /\ j.op = "finish" /\ n \in Names /\ Work!Inactive(n)
  BY <1>1, JobFields DEF PoolInv, LockRight, PoolJob, Ops, WorkspacesHyp
<1>3. LockRight'
  BY <1>1, <1>2 DEF LockRight
<1>4. Work!WorkspacesTypeOK' /\ Work!EvidenceKept'
  BY <1>1, <1>2 DEF PoolInv, Work!WorkspacesTypeOK, Work!EvidenceKept, PoolJob
<1>5. SlotsRight'
  BY <1>1, <1>2 DEF PoolInv, Work!WorkspacesTypeOK, SlotsRight, Slotted, Spent, Work!Inactive
<1>6. QED
  BY <1>1, <1>3, <1>4, <1>5 DEF PoolInv

LEMMA FinishRecoverySafe ==
  ASSUME WorkspacesHyp, PoolInv, NEW p \in Pools, Work!FinishRecovery(p)
  PROVE  PoolInv'
<1>1. /\ job' = Idle /\ pending' \subseteq pending
      /\ UNCHANGED <<tree, marker, archive, slots, worked, harvested>>
  BY DEF Work!FinishRecovery
<1>2. QED
  BY <1>1
     DEF PoolInv, Work!WorkspacesTypeOK, SlotsRight, LockRight, Work!EvidenceKept,
         Slotted, Spent

LEMMA PoolDiesSafe ==
  ASSUME WorkspacesHyp, PoolInv, NEW p \in Pools, Work!PoolDies(p)
  PROVE  PoolInv'
<1> PICK f : f = [n \in {} |-> TRUE]
  OBVIOUS
<1>1. /\ slots' = [slots EXCEPT ![p] = f] /\ DOMAIN f = {} /\ job' \in {job, Idle}
      /\ UNCHANGED <<tree, marker, pending, archive, worked, harvested>>
  BY DEF Work!PoolDies
<1>2. marker' \in [Names -> {None} \union Work!Mark]
  BY <1>1 DEF PoolInv, Work!WorkspacesTypeOK
<1>3. /\ DOMAIN slots' = Pools
      /\ \A q \in Pools : \A x \in DOMAIN slots'[q] :
            x \in DOMAIN slots[q] /\ slots'[q][x] = slots[q][x]
  BY <1>1 DEF PoolInv
<1>4. QED
  BY <1>1, <1>2, <1>3, Forgotten

(* The invariant holds throughout.                                         *)
THEOREM WorkspacesSafe == WorkspacesHyp => (Work!WorkspacesSpec => []PoolInv)
<1> SUFFICES ASSUME WorkspacesHyp PROVE Work!WorkspacesSpec => []PoolInv
  OBVIOUS
<1>1. Work!WorkspacesInit => PoolInv
  BY PoolStarts
<1>2. PoolInv /\ [Work!WorkspacesNext]_Work!workspaceVars => PoolInv'
  <2>1. ASSUME PoolInv, NEW p \in Pools, NEW n \in Names,
               Work!Retain(p, n, TRUE) \/ Work!Unkeep(p, n) PROVE PoolInv'
    BY <2>1, RetainSafe DEF Work!Unkeep
  <2>2. PoolInv /\ Work!WorkspacesNext => PoolInv'
    BY <2>1, MarkSlotSafe, UnmarkSafe, MoveEvidenceSafe, UnlinkMarkerSafe, FinishRecoverySafe,
       PoolDiesSafe, AcquireSlotSafe, StartWorkerSafe, HarvestSafe, ReleaseSafe, InspectSafe,
       RecoverSafe DEF Work!WorkspacesNext
  <2>3. PoolInv /\ UNCHANGED Work!workspaceVars => PoolInv'
    BY DEF Work!workspaceVars, PoolInv, Work!WorkspacesTypeOK, SlotsRight, LockRight,
           Work!EvidenceKept, Slotted, Spent, Work!Inactive
  <2>4. QED
    BY <2>2, <2>3
<1>3. QED
  BY <1>1, <1>2, PTL DEF Work!WorkspacesSpec

(* The types of the pool, for any number of processes and slots.           *)
THEOREM WorkspacesTypeCorrect == WorkspacesHyp => (Work!WorkspacesSpec => []Work!WorkspacesTypeOK)
<1>1. PoolInv => Work!WorkspacesTypeOK
  BY DEF PoolInv
<1>2. QED
  BY <1>1, WorkspacesSafe, PTL

(* What a worker made is never destroyed before it is in the ledger        *)
(* (workspaces.py retain, _release, recover), for any number of processes  *)
(* and slots, whoever dies.                                                *)
THEOREM WorkspaceEvidenceKept == WorkspacesHyp => (Work!WorkspacesSpec => []Work!EvidenceKept)
<1>1. PoolInv => Work!EvidenceKept
  BY DEF PoolInv
<1>2. QED
  BY <1>1, WorkspacesSafe, PTL

-----------------------------------------------------------------------------
(* Sessions: the worktree of a session, and the evidence in it.            *)

Held == [rows : SUBSET (Names \X SessionRows), files : SUBSET FileNames]
CreateJob == [at : {"strip", "record"}]
DestroyJob ==
    [at : {"harvest", "unlink", "rows"}, rows : SUBSET SessionRows, files : SUBSET FileNames,
     unreceipted : SUBSET SessionRows, held : Held]
SessionJob == {Idle} \union CreateJob \union DestroyJob

SessionsTyped ==
    /\ tree \in [Names -> {Gone} \union Sess!Worktree]
    /\ primary \in [FileNames -> {Gone} \union Sess!Versions]
    /\ ledger \in [SessionRows -> Nat] /\ receipt \in [SessionRows -> {Nobody} \union Names]
    /\ job \in [Names -> SessionJob] /\ dropped \in Held /\ edits \in Nat

Making(n) == job[n] # Idle /\ job[n].at = "strip"

SessionHarvest(n) == job[n] # Idle /\ job[n].at = "harvest"

(* A destroy under way knows of every row and file that was there when it  *)
(* looked: it is safe, or still to be taken.                               *)
RowsRight(n) ==
    /\ \A r \in job[n].rows : receipt[r] = n /\ ledger[r] = 0
    /\ \A p \in job[n].held.rows :
          /\ p[1] = n /\ tree[n] # Gone /\ p[2] \in tree[n].rows
          /\ receipt[p[2]] = n => p[2] \in job[n].rows \/ ledger[p[2]] = 1

FilesRight(n) ==
    /\ \A f \in job[n].files : tree[n] # Gone /\ tree[n].file[f] # Gone
    /\ \A f \in job[n].held.files : f \in job[n].files \/ primary[f] # Gone

SessionsInv ==
    /\ SessionsTyped /\ Sess!SessionEvidenceKept
    /\ \A n \in Names : SessionHarvest(n) => RowsRight(n) /\ FilesRight(n)
    /\ \A n \in Names : Making(n) => tree[n] # Gone

LEMMA HarvestTyped ==
  ASSUME SessionsInv, NEW n \in Names, SessionHarvest(n)
  PROVE  /\ job[n] \in DestroyJob /\ job[n].rows \subseteq SessionRows
         /\ job[n].files \subseteq FileNames
         /\ job[n].held \in Held /\ job[n].held.rows \subseteq Names \X SessionRows
         /\ job[n].held.files \subseteq FileNames
<1>1. job[n] \in CreateJob \union DestroyJob
  BY DEF SessionsInv, SessionsTyped, SessionJob, SessionHarvest
<1>2. job[n] \notin CreateJob
  BY DEF CreateJob, SessionHarvest
<1>3. job[n] \in DestroyJob
  BY <1>1, <1>2
<1>4. QED
  BY <1>3 DEF DestroyJob, Held

(* Work goes on: trees come and grow, fresh rows are measured, files of    *)
(* the primary change.  No destroy begins, and none takes anything.        *)
LEMMA WorkSafe ==
  ASSUME SessionsHyp, SessionsInv, SessionsTyped', UNCHANGED <<ledger, dropped>>,
         \A n \in Names : tree[n] # Gone =>
             /\ tree'[n] # Gone /\ tree[n].rows \subseteq tree'[n].rows
             /\ \A f \in FileNames : tree[n].file[f] # Gone => tree'[n].file[f] # Gone,
         \A r \in SessionRows : receipt'[r] = receipt[r] \/ Sess!Fresh(r),
         \A f \in FileNames : primary[f] # Gone => primary'[f] # Gone,
         \A n \in Names :
            \/ job'[n] = job[n] \/ job'[n] = Idle
            \/ job'[n].at # "harvest" /\ (job'[n].at = "strip" => tree'[n] # Gone)
  PROVE  SessionsInv'
<1>1. ASSUME NEW n \in Names, SessionHarvest(n)' PROVE RowsRight(n)' /\ FilesRight(n)'
  <2>1. SessionHarvest(n) /\ job'[n] = job[n] /\ RowsRight(n) /\ FilesRight(n)
    BY <1>1 DEF SessionHarvest, SessionsInv
  <2>2. \A r \in job[n].rows : receipt'[r] = n /\ ledger'[r] = 0
    BY <2>1, HarvestTyped DEF RowsRight, Sess!Fresh, SessionsHyp
  <2>3. ASSUME NEW p \in job[n].held.rows
        PROVE  /\ p[1] = n /\ tree'[n] # Gone /\ p[2] \in tree'[n].rows
               /\ receipt'[p[2]] = n => p[2] \in job[n].rows \/ ledger'[p[2]] = 1
    <3>1. /\ p[1] = n /\ tree[n] # Gone /\ p[2] \in tree[n].rows /\ p[2] \in SessionRows
          /\ receipt[p[2]] = n => p[2] \in job[n].rows \/ ledger[p[2]] = 1
      BY <2>1, HarvestTyped DEF RowsRight
    <3>2. ~Sess!Fresh(p[2])
      BY <3>1 DEF Sess!Fresh, Sess!Standing
    <3>3. QED
      BY <3>1, <3>2
  <2>4. RowsRight(n)'
    BY <2>1, <2>2, <2>3 DEF RowsRight
  <2>5. FilesRight(n)'
    BY <2>1, HarvestTyped DEF FilesRight
  <2>6. QED
    BY <2>4, <2>5
<1>2. ASSUME NEW p \in dropped.rows, receipt'[p[2]] = p[1] PROVE ledger'[p[2]] = 1
  <2>1. p \in Names \X SessionRows
    BY DEF SessionsInv, SessionsTyped, Held
  <2>2. p = <<p[1], p[2]>> /\ p[1] \in Names /\ p[2] \in SessionRows
    BY <2>1
  <2>3. ~Sess!Fresh(p[2])
    BY <2>2 DEF Sess!Fresh
  <2>4. QED
    BY <1>2, <2>2, <2>3 DEF SessionsInv, Sess!SessionEvidenceKept
<1>3. \A f \in dropped.files : primary'[f] # Gone
  BY DEF SessionsInv, SessionsTyped, Held, Sess!SessionEvidenceKept
<1>4. \A r \in SessionRows : ledger'[r] > 0 => receipt'[r] # Nobody /\ ledger'[r] = 1
  BY DEF SessionsInv, Sess!SessionEvidenceKept, Sess!Fresh
<1>5. Sess!SessionEvidenceKept'
  BY <1>2, <1>3, <1>4 DEF Sess!SessionEvidenceKept
<1>6. ASSUME NEW n \in Names, Making(n)' PROVE tree'[n] # Gone
  BY <1>6 DEF Making, SessionsInv
<1>7. QED
  BY <1>1, <1>5, <1>6 DEF SessionsInv

(* One worktree changes, as work in it changes it.                         *)
LEMMA TreeChanges ==
  ASSUME SessionsHyp, SessionsInv, NEW n \in Names, NEW t \in Sess!Worktree,
         tree' = [tree EXCEPT ![n] = t], receipt' \in [SessionRows -> {Nobody} \union Names],
         tree[n] # Gone => /\ tree[n].rows \subseteq t.rows
                           /\ \A f \in FileNames : tree[n].file[f] # Gone => t.file[f] # Gone,
         \A r \in SessionRows : receipt'[r] = receipt[r] \/ Sess!Fresh(r),
         UNCHANGED <<primary, ledger, dropped>>, edits' \in Nat,
         job' \in [Names -> SessionJob],
         \A m \in Names : job'[m] = job[m] \/ (m = n /\ job'[m].at # "harvest")
  PROVE  SessionsInv'
<1>1. t # Gone
  BY DEF SessionsHyp
<1>2. /\ tree' \in [Names -> {Gone} \union Sess!Worktree] /\ tree'[n] = t
      /\ \A m \in Names : m # n => tree'[m] = tree[m]
  BY DEF SessionsInv, SessionsTyped
<1>3. SessionsTyped'
  BY <1>2 DEF SessionsInv, SessionsTyped
<1>4. \A m \in Names : tree[m] # Gone =>
             /\ tree'[m] # Gone /\ tree[m].rows \subseteq tree'[m].rows
             /\ \A f \in FileNames : tree[m].file[f] # Gone => tree'[m].file[f] # Gone
  BY <1>1, <1>2
<1>5. \A m \in Names :
         \/ job'[m] = job[m] \/ job'[m] = Idle
         \/ job'[m].at # "harvest" /\ (job'[m].at = "strip" => tree'[m] # Gone)
  BY <1>1, <1>2
<1>6. QED
  BY <1>3, <1>4, <1>5, WorkSafe

(* Only the job of one session moves, and not into a harvest.              *)
LEMMA JobMoves ==
  ASSUME SessionsHyp, SessionsInv, NEW n \in Names, NEW j \in SessionJob,
         job' = [job EXCEPT ![n] = j], j = Idle \/ j.at \notin {"harvest", "strip"},
         UNCHANGED <<tree, primary, ledger, receipt, dropped, edits>>
  PROVE  SessionsInv'
<1>1. job' \in [Names -> SessionJob] /\ \A m \in Names : m # n => job'[m] = job[m]
  BY DEF SessionsInv, SessionsTyped
<1>2. job'[n] = j
  BY DEF SessionsInv, SessionsTyped
<1>3. SessionsTyped'
  BY <1>1 DEF SessionsInv, SessionsTyped
<1>4. QED
  BY <1>1, <1>2, <1>3, WorkSafe

LEMMA CreateSafe ==
  ASSUME SessionsHyp, SessionsInv, NEW n \in Names, Sess!Create(n)
  PROVE  SessionsInv'
<1> PICK t : t = [rows |-> {}, file |-> primary, garbled |-> FALSE, holdout |-> TRUE]
  OBVIOUS
<1> PICK j : j = [at |-> "strip"]
  OBVIOUS
<1>1. t \in Sess!Worktree /\ j \in SessionJob /\ j.at = "strip"
  BY DEF SessionsInv, SessionsTyped, Sess!Worktree, SessionJob, CreateJob
<1>2. /\ tree[n] = Gone /\ tree' = [tree EXCEPT ![n] = t] /\ job' = [job EXCEPT ![n] = j]
      /\ UNCHANGED <<receipt, primary, ledger, dropped, edits>>
  BY DEF Sess!Create, Sess!KeepWork, Sess!KeepEvidence
<1>3. /\ job' \in [Names -> SessionJob]
      /\ \A m \in Names : job'[m] = job[m] \/ (m = n /\ job'[m].at # "harvest")
  <2>1. job' \in [Names -> SessionJob] /\ job'[n] = j
    BY <1>1, <1>2 DEF SessionsInv, SessionsTyped
  <2>2. \A m \in Names : m # n => job'[m] = job[m]
    BY <1>1, <1>2 DEF SessionsInv, SessionsTyped
  <2>3. QED
    BY <1>1, <2>1, <2>2
<1>4. receipt' \in [SessionRows -> {Nobody} \union Names] /\ edits' \in Nat
  BY <1>2 DEF SessionsInv, SessionsTyped
<1>5. QED
  BY <1>1, <1>2, <1>3, <1>4, TreeChanges

LEMMA JobOf ==
  ASSUME SessionsInv, NEW n \in Names, NEW from, job[n] # Idle, job[n].at = from
  PROVE  /\ from \in {"strip", "record"} => job[n] \in CreateJob
         /\ from \in {"harvest", "unlink", "rows"} => job[n] \in DestroyJob
<1>1. job[n] \in CreateJob \union DestroyJob
  BY DEF SessionsInv, SessionsTyped, SessionJob
<1>2. job[n] \in CreateJob => from \in {"strip", "record"}
  BY DEF CreateJob
<1>3. job[n] \in DestroyJob => from \in {"harvest", "unlink", "rows"}
  BY DEF DestroyJob
<1>4. QED
  BY <1>1, <1>2, <1>3

LEMMA StripSafe ==
  ASSUME SessionsHyp, SessionsInv, NEW n \in Names, Sess!Strip(n)
  PROVE  SessionsInv'
<1> PICK j : j = [job[n] EXCEPT !.at = "record"]
  OBVIOUS
<1> PICK t : t = [tree[n] EXCEPT !.holdout = FALSE]
  OBVIOUS
<1>1. job[n] # Idle /\ job[n].at = "strip" /\ job[n] \in CreateJob
  BY JobOf DEF Sess!Strip, Sess!At
<1>2. j \in SessionJob /\ j.at = "record"
  BY <1>1 DEF CreateJob, SessionJob
<1>3. tree[n] \in Sess!Worktree
  BY <1>1 DEF SessionsInv, SessionsTyped, Making
<1>4. t \in Sess!Worktree /\ t.rows = tree[n].rows /\ t.file = tree[n].file
  BY <1>3 DEF Sess!Worktree
<1>5. /\ tree' = [tree EXCEPT ![n] = t] /\ job' = [job EXCEPT ![n] = j]
      /\ UNCHANGED <<receipt, primary, ledger, dropped, edits>>
  BY <1>3 DEF Sess!Strip, Sess!Goto, Sess!KeepWork, Sess!KeepEvidence, Sess!Worktree
<1>6. /\ job' \in [Names -> SessionJob]
      /\ \A m \in Names : job'[m] = job[m] \/ (m = n /\ job'[m].at # "harvest")
  <2>1. job' \in [Names -> SessionJob] /\ job'[n] = j
    BY <1>2, <1>5 DEF SessionsInv, SessionsTyped
  <2>2. \A m \in Names : m # n => job'[m] = job[m]
    BY <1>2, <1>5 DEF SessionsInv, SessionsTyped
  <2>3. QED
    BY <1>2, <2>1, <2>2
<1>7. receipt' \in [SessionRows -> {Nobody} \union Names] /\ edits' \in Nat
  BY <1>5 DEF SessionsInv, SessionsTyped
<1>8. QED
  BY <1>4, <1>5, <1>6, <1>7, TreeChanges

LEMMA JobEndsSafe ==
  ASSUME SessionsHyp, SessionsInv, NEW n \in Names,
         Sess!WriteRecord(n) \/ Sess!UnlinkRecord(n) \/ Sess!ArchiveRows(n) \/ Sess!Dies(n)
  PROVE  SessionsInv'
<1>1. UNCHANGED <<tree, primary, ledger, receipt, dropped, edits>>
  BY DEF Sess!WriteRecord, Sess!UnlinkRecord, Sess!ArchiveRows, Sess!Dies, Sess!KeepWork,
         Sess!KeepEvidence
<1>2. CASE job' = [job EXCEPT ![n] = Idle]
  BY <1>1, <1>2, JobMoves DEF SessionJob
<1>3. CASE Sess!UnlinkRecord(n)
  <2> PICK j : j = [job[n] EXCEPT !.at = "rows"]
    OBVIOUS
  <2>1. job[n] \in DestroyJob /\ job' = [job EXCEPT ![n] = j]
    BY <1>3, JobOf DEF Sess!UnlinkRecord, Sess!At, Sess!Goto
  <2>2. j \in SessionJob /\ j.at = "rows"
    BY <2>1 DEF DestroyJob, SessionJob
  <2>3. QED
    BY <1>1, <2>1, <2>2, JobMoves
<1>4. QED
  BY <1>2, <1>3 DEF Sess!WriteRecord, Sess!ArchiveRows, Sess!Dies

(* Work in a worktree, from the row or file it adds.                       *)
LEMMA WorkInTree ==
  ASSUME SessionsHyp, SessionsInv, NEW n \in Names, NEW t \in Sess!Worktree, tree[n] # Gone,
         tree' = [tree EXCEPT ![n] = t], tree[n].rows \subseteq t.rows,
         \A f \in FileNames : tree[n].file[f] # Gone => t.file[f] # Gone,
         receipt' \in [SessionRows -> {Nobody} \union Names],
         \A r \in SessionRows : receipt'[r] = receipt[r] \/ Sess!Fresh(r), edits' \in Nat,
         UNCHANGED <<primary, ledger, dropped, job>>
  PROVE  SessionsInv'
<1>1. /\ job' \in [Names -> SessionJob]
      /\ \A m \in Names : job'[m] = job[m] \/ (m = n /\ job'[m].at # "harvest")
  BY DEF SessionsInv, SessionsTyped
<1>2. UNCHANGED <<primary, ledger, dropped>>
  OBVIOUS
<1>3. QED
  BY <1>1, <1>2, TreeChanges

LEMMA RowsSafe ==
  ASSUME SessionsHyp, SessionsInv, NEW n \in Names, NEW r \in SessionRows, Sess!MeasureIn(n, r) \/
      Sess!WriteRow(n, r)
  PROVE  SessionsInv'
<1> PICK t : t = [tree[n] EXCEPT !.rows = tree[n].rows \union {r}]
  OBVIOUS
<1>1. tree[n] # Gone /\ tree[n] \in Sess!Worktree
  BY DEF Sess!MeasureIn, Sess!WriteRow, Sess!Standing, SessionsInv, SessionsTyped
<1>2. t \in Sess!Worktree /\ tree[n].rows \subseteq t.rows /\ t.file = tree[n].file
  BY <1>1 DEF Sess!Worktree
<1>3. tree' = [tree EXCEPT ![n] = t] /\ UNCHANGED <<primary, ledger, dropped, job, edits>>
  BY <1>1 DEF Sess!MeasureIn, Sess!WriteRow, Sess!KeepSession, Sess!Worktree
<1>4. receipt \in [SessionRows -> {Nobody} \union Names] /\ edits' \in Nat
  BY <1>3 DEF SessionsInv, SessionsTyped
<1>5. receipt' = receipt \/ (Sess!Fresh(r) /\ receipt' = [receipt EXCEPT ![r] = n])
  <2>1. CASE Sess!MeasureIn(n, r)
    BY <2>1 DEF Sess!MeasureIn
  <2>2. CASE Sess!WriteRow(n, r)
    BY <2>2 DEF Sess!WriteRow
  <2>3. QED
    BY <2>1, <2>2
<1>6. /\ receipt' \in [SessionRows -> {Nobody} \union Names]
      /\ \A x \in SessionRows : receipt'[x] = receipt[x] \/ Sess!Fresh(x)
  BY <1>4, <1>5
<1>7. QED
  BY <1>1, <1>2, <1>3, <1>4, <1>6, WorkInTree

LEMMA EditFileSafe ==
  ASSUME SessionsHyp, SessionsInv, NEW n \in Names, NEW f \in FileNames, Sess!EditFile(n, f)
  PROVE  SessionsInv'
<1> PICK g : g = [tree[n].file EXCEPT ![f] = edits + 1]
  OBVIOUS
<1> PICK t : t = [tree[n] EXCEPT !.file = g]
  OBVIOUS
<1>1. tree[n] # Gone /\ tree[n] \in Sess!Worktree /\ edits \in Nat /\ edits < MaxEdits /\
      edits' = edits + 1
  BY DEF Sess!EditFile, Sess!Edit, SessionsInv, SessionsTyped
<1>2. edits + 1 \in Sess!Versions /\ edits + 1 \in Nat /\ edits + 1 # Gone
  BY <1>1 DEF Sess!Versions, SessionsHyp
<1>3. /\ g \in [FileNames -> {Gone} \union Sess!Versions]
      /\ \A x \in FileNames : tree[n].file[x] # Gone => g[x] # Gone
  BY <1>1, <1>2 DEF Sess!Worktree
<1>4. t \in Sess!Worktree /\ t.rows = tree[n].rows /\ t.file = g
  BY <1>1, <1>3 DEF Sess!Worktree
<1>5. tree' = [tree EXCEPT ![n] = t] /\ UNCHANGED <<primary, ledger, receipt, dropped, job>>
  BY <1>1 DEF Sess!EditFile, Sess!KeepSession, Sess!Worktree
<1>6. receipt' \in [SessionRows -> {Nobody} \union Names]
  BY <1>5 DEF SessionsInv, SessionsTyped
<1>7. /\ tree[n].rows \subseteq t.rows /\ edits' \in Nat
      /\ \A x \in FileNames : tree[n].file[x] # Gone => t.file[x] # Gone
      /\ \A r \in SessionRows : receipt'[r] = receipt[r] \/ Sess!Fresh(r)
      /\ UNCHANGED <<primary, ledger, dropped, job>>
  BY <1>1, <1>2, <1>3, <1>4, <1>5
<1>8. QED
  BY <1>1, <1>4, <1>5, <1>6, <1>7, WorkInTree

LEMMA GarbleSafe ==
  ASSUME SessionsHyp, SessionsInv, NEW n \in Names, Sess!Garble(n)
  PROVE  SessionsInv'
<1> PICK t : t = [tree[n] EXCEPT !.garbled = TRUE]
  OBVIOUS
<1>1. tree[n] # Gone /\ tree[n] \in Sess!Worktree /\ edits' \in Nat
  BY DEF Sess!Garble, Sess!Edit, SessionsInv, SessionsTyped
<1>2. t \in Sess!Worktree /\ t.rows = tree[n].rows /\ t.file = tree[n].file
  BY <1>1 DEF Sess!Worktree
<1>3. tree' = [tree EXCEPT ![n] = t] /\ UNCHANGED <<primary, ledger, receipt, dropped, job>>
  BY <1>1 DEF Sess!Garble, Sess!KeepSession, Sess!Worktree
<1>4. receipt' \in [SessionRows -> {Nobody} \union Names]
  BY <1>3 DEF SessionsInv, SessionsTyped
<1>5. QED
  BY <1>1, <1>2, <1>3, <1>4, WorkInTree

LEMMA PrimarySafe ==
  ASSUME SessionsHyp, SessionsInv, Sess!EditConfig \/ Sess!Prune \/
      \E f \in FileNames : Sess!EditPrimary(f)
  PROVE  SessionsInv'
<1>1. UNCHANGED <<tree, ledger, receipt, dropped, job>> /\ edits' \in Nat
  BY DEF Sess!EditConfig, Sess!Prune, Sess!EditPrimary, Sess!KeepSession, Sess!KeepWork,
         Sess!KeepEvidence, Sess!Edit, SessionsInv, SessionsTyped
<1>2. /\ primary' \in [FileNames -> {Gone} \union Sess!Versions]
      /\ \A f \in FileNames : primary[f] # Gone => primary'[f] # Gone
  <2>1. CASE primary' = primary
    BY <2>1 DEF SessionsInv, SessionsTyped
  <2>2. ASSUME NEW f \in FileNames, Sess!EditPrimary(f) PROVE <1>2
    <3>1. PICK v \in ({edits'} \union {tree[n].file[f] : n \in Sess!Standing}) \ {Gone} :
                 primary' = [primary EXCEPT ![f] = v]
      BY <2>2 DEF Sess!EditPrimary
    <3>2. edits' \in Sess!Versions
      BY <2>2
         DEF Sess!EditPrimary, Sess!Edit, SessionsInv, SessionsTyped, Sess!Versions,
             SessionsHyp
    <3>3. ASSUME NEW n \in Sess!Standing PROVE tree[n].file[f] \in {Gone} \union Sess!Versions
      BY DEF Sess!Standing, SessionsInv, SessionsTyped, Sess!Worktree
    <3>4. v \in Sess!Versions /\ v # Gone
      BY <3>1, <3>2, <3>3
    <3>5. QED
      BY <3>1, <3>4 DEF SessionsInv, SessionsTyped
  <2>3. QED
    BY <2>1, <2>2 DEF Sess!EditConfig, Sess!Prune, Sess!KeepEvidence
<1>3. SessionsTyped'
  BY <1>1, <1>2 DEF SessionsInv, SessionsTyped
<1>4. QED
  BY <1>1, <1>2, <1>3, WorkSafe

(* What a destroy that is not refused finds is in the primary, or listed   *)
(* to be taken there.                                                      *)
LEMMA DestroySafe ==
  ASSUME SessionsHyp, SessionsInv, NEW n \in Names, NEW h \in BOOLEAN, NEW d \in BOOLEAN,
         Sess!Destroy(n, h, d)
  PROVE  SessionsInv'
<1> PICK held : held = IF tree[n] = Gone THEN [rows |-> {}, files |-> {}]
                       ELSE [rows |-> {n} \X tree[n].rows,
                             files |-> {f \in FileNames : tree[n].file[f] # Gone}]
  OBVIOUS
<1> PICK j : j =
        [at |-> "harvest", rows |-> Sess!Unseen(n) \ Sess!Unreceipted(n),
         files |-> Sess!Missing(n), unreceipted |-> Sess!Unreceipted(n), held |-> held]
  OBVIOUS
<1>1. /\ sessionRecord[n] = config /\ Sess!Differing(n) = {} /\ job' = [job EXCEPT ![n] = j]
      /\ UNCHANGED <<tree, primary, ledger, receipt, dropped, edits>>
  BY DEF Sess!Destroy, Sess!Refused, Sess!Drifted, Sess!KeepWork, Sess!KeepEvidence
<1>2. tree[n] # Gone => tree[n] \in Sess!Worktree /\ tree[n].rows \subseteq SessionRows
  BY DEF SessionsInv, SessionsTyped, Sess!Worktree
<1>3. /\ held \in Held
      /\ \A p \in held.rows : p[1] = n /\ tree[n] # Gone /\ p[2] \in tree[n].rows
      /\ \A f \in held.files : tree[n] # Gone /\ f \in FileNames /\ tree[n].file[f] # Gone
  BY <1>2 DEF Held
<1>4. /\ j \in DestroyJob /\ j.at = "harvest" /\ j.held = held /\ j.files = Sess!Missing(n)
      /\ j.rows = Sess!Unseen(n) \ Sess!Unreceipted(n)
  BY <1>2, <1>3 DEF DestroyJob, Sess!Unseen, Sess!Unreceipted, Sess!Missing
<1>5. /\ job' \in [Names -> SessionJob] /\ job'[n] = j
      /\ \A m \in Names : m # n => job'[m] = job[m]
  BY <1>1, <1>4 DEF SessionsInv, SessionsTyped, SessionJob
<1>6. \A r \in j.rows : receipt[r] = n /\ ledger[r] = 0
  BY <1>4 DEF Sess!Unseen, Sess!Unreceipted
<1>7. ASSUME NEW p \in held.rows, receipt[p[2]] = n PROVE p[2] \in j.rows \/ ledger[p[2]] = 1
  <2>1. p[2] \in tree[n].rows /\ tree[n] # Gone /\ p[2] \in SessionRows
    BY <1>2, <1>3
  <2>2. ledger[p[2]] = 0 \/ ledger[p[2]] > 0
    BY <2>1 DEF SessionsInv, SessionsTyped
  <2>3. ledger[p[2]] > 0 => ledger[p[2]] = 1
    BY <2>1 DEF SessionsInv, Sess!SessionEvidenceKept
  <2>4. QED
    BY <1>1, <1>4, <1>7, <2>1, <2>2, <2>3 DEF Sess!Unseen, Sess!Unreceipted
<1>8. \A f \in j.files : tree[n] # Gone /\ tree[n].file[f] # Gone
  BY <1>4 DEF Sess!Missing
<1>9. \A f \in held.files : f \in j.files \/ primary[f] # Gone
  BY <1>1, <1>3, <1>4 DEF Sess!Missing, Sess!Differing
<1>10. RowsRight(n)' /\ FilesRight(n)'
  BY <1>1, <1>3, <1>4, <1>5, <1>6, <1>7, <1>8, <1>9 DEF RowsRight, FilesRight
<1>11. ASSUME NEW m \in Names, m # n, SessionHarvest(m)' PROVE RowsRight(m)' /\ FilesRight(m)'
  BY <1>1, <1>5, <1>11 DEF RowsRight, FilesRight, SessionHarvest, SessionsInv
<1>12. SessionsTyped' /\ Sess!SessionEvidenceKept'
  BY <1>1, <1>5 DEF SessionsInv, SessionsTyped, Sess!SessionEvidenceKept
<1>13. \A m \in Names : Making(m)' => tree'[m] # Gone
  BY <1>1, <1>4, <1>5 DEF Making, SessionsInv
<1>14. QED
  BY <1>10, <1>11, <1>12, <1>13 DEF SessionsInv

(* A row goes to the ledger: its receipt names this session, so no other   *)
(* destroy has it in hand.                                                 *)
LEMMA AppendSessionRowSafe ==
  ASSUME SessionsHyp, SessionsInv, NEW n \in Names, Sess!AppendRow(n)
  PROVE  SessionsInv'
<1>1. PICK r \in job[n].rows : /\ ledger' = [ledger EXCEPT ![r] = @ + 1]
                               /\ job' = [job EXCEPT ![n].rows = @ \ {r}]
  BY DEF Sess!AppendRow
<1> PICK j : j = [job[n] EXCEPT !.rows = job[n].rows \ {r}]
  OBVIOUS
<1>2. SessionHarvest(n) /\ UNCHANGED <<tree, primary, receipt, dropped, edits>>
  BY DEF Sess!AppendRow, Sess!At, SessionHarvest, Sess!KeepWork
<1>3. /\ job[n] \in DestroyJob /\ r \in SessionRows /\ receipt[r] = n /\ ledger[r] = 0
      /\ RowsRight(n) /\ FilesRight(n)
  BY <1>2, HarvestTyped DEF SessionsInv, RowsRight
<1>4. /\ j \in DestroyJob /\ j.at = "harvest" /\ j.rows = job[n].rows \ {r}
      /\ j.files = job[n].files /\ j.held = job[n].held
  BY <1>2, <1>3 DEF DestroyJob, SessionHarvest
<1>5. /\ job' \in [Names -> SessionJob] /\ job'[n] = j
      /\ \A m \in Names : m # n => job'[m] = job[m]
  BY <1>1, <1>3, <1>4 DEF SessionsInv, SessionsTyped, SessionJob, DestroyJob
<1>6. /\ ledger' \in [SessionRows -> Nat] /\ ledger'[r] = 1
      /\ \A x \in SessionRows : x # r => ledger'[x] = ledger[x]
  BY <1>1, <1>3 DEF SessionsInv, SessionsTyped
<1>7. RowsRight(n)'
  <2>1. \A x \in j.rows : receipt[x] = n /\ ledger'[x] = 0
    BY <1>2, <1>3, <1>4, <1>6, HarvestTyped DEF RowsRight
  <2>2. ASSUME NEW p \in j.held.rows
        PROVE  /\ p[1] = n /\ tree[n] # Gone /\ p[2] \in tree[n].rows
               /\ receipt[p[2]] = n => p[2] \in j.rows \/ ledger'[p[2]] = 1
    <3>1. p[2] \in SessionRows
      BY <1>2, <1>4, HarvestTyped
    <3>2. QED
      BY <1>3, <1>4, <1>6, <3>1 DEF RowsRight
  <2>3. QED
    BY <1>2, <1>5, <2>1, <2>2 DEF RowsRight
<1>8. FilesRight(n)'
  BY <1>2, <1>3, <1>4, <1>5 DEF FilesRight
<1>9. ASSUME NEW m \in Names, m # n, SessionHarvest(m)' PROVE RowsRight(m)' /\ FilesRight(m)'
  <2>1. job'[m] = job[m] /\ SessionHarvest(m) /\ RowsRight(m) /\ FilesRight(m)
    BY <1>5, <1>9 DEF SessionHarvest, SessionsInv
  <2>2. FilesRight(m)'
    BY <1>2, <2>1 DEF FilesRight
  <2>3. \A x \in job[m].rows : receipt[x] = m /\ ledger'[x] = 0
    BY <1>3, <1>6, <1>9, <2>1, HarvestTyped DEF RowsRight
  <2>4. ASSUME NEW p \in job[m].held.rows
        PROVE  /\ p[1] = m /\ tree[m] # Gone /\ p[2] \in tree[m].rows
               /\ receipt[p[2]] = m => p[2] \in job[m].rows \/ ledger'[p[2]] = 1
    <3>1. p[2] \in SessionRows
      BY <2>1, HarvestTyped
    <3>2. QED
      BY <1>3, <1>6, <1>9, <2>1, <3>1 DEF RowsRight
  <2>5. QED
    BY <1>2, <2>1, <2>2, <2>3, <2>4 DEF RowsRight
<1>10. SessionsTyped'
  BY <1>2, <1>5, <1>6 DEF SessionsInv, SessionsTyped
<1>11. Sess!SessionEvidenceKept'
  <2>1. ASSUME NEW p \in dropped.rows, receipt[p[2]] = p[1] PROVE ledger'[p[2]] = 1
    <3>1. p[2] \in SessionRows
      BY DEF SessionsInv, SessionsTyped, Held
    <3>2. QED
      BY <1>6, <2>1, <3>1 DEF SessionsInv, Sess!SessionEvidenceKept
  <2>2. \A x \in SessionRows : ledger'[x] > 0 => receipt[x] # Nobody /\ ledger'[x] = 1
    BY <1>3, <1>6 DEF SessionsInv, Sess!SessionEvidenceKept, SessionsHyp
  <2>3. QED
    BY <1>2, <2>1, <2>2 DEF SessionsInv, Sess!SessionEvidenceKept
<1>12. \A m \in Names : Making(m)' => tree'[m] # Gone
  BY <1>2, <1>4, <1>5 DEF Making, SessionsInv
<1>13. QED
  BY <1>7, <1>8, <1>9, <1>10, <1>11, <1>12 DEF SessionsInv

LEMMA CopyEntrySafe ==
  ASSUME SessionsHyp, SessionsInv, NEW n \in Names, Sess!CopyEntry(n)
  PROVE  SessionsInv'
<1>1. PICK f \in job[n].files : /\ primary' = [primary EXCEPT ![f] = tree[n].file[f]]
                                /\ job' = [job EXCEPT ![n].files = @ \ {f}]
  BY DEF Sess!CopyEntry
<1> PICK j : j = [job[n] EXCEPT !.files = job[n].files \ {f}]
  OBVIOUS
<1>2. SessionHarvest(n) /\ tree[n] # Gone /\ UNCHANGED <<tree, ledger, receipt, dropped, edits>>
  BY DEF Sess!CopyEntry, Sess!At, SessionHarvest, Sess!KeepWork
<1>3. /\ job[n] \in DestroyJob /\ f \in FileNames /\ tree[n].file[f] # Gone
      /\ RowsRight(n) /\ FilesRight(n) /\ tree[n] \in Sess!Worktree
  BY <1>2, HarvestTyped DEF SessionsInv, FilesRight, SessionsTyped
<1>4. /\ j \in DestroyJob /\ j.at = "harvest" /\ j.rows = job[n].rows
      /\ j.files = job[n].files \ {f} /\ j.held = job[n].held
  BY <1>2, <1>3 DEF DestroyJob, SessionHarvest
<1>5. /\ job' \in [Names -> SessionJob] /\ job'[n] = j
      /\ \A m \in Names : m # n => job'[m] = job[m]
  BY <1>1, <1>3, <1>4 DEF SessionsInv, SessionsTyped, SessionJob, DestroyJob
<1>6. /\ primary' \in [FileNames -> {Gone} \union Sess!Versions] /\ primary'[f] # Gone
      /\ \A x \in FileNames : primary[x] # Gone => primary'[x] # Gone
  BY <1>1, <1>3 DEF SessionsInv, SessionsTyped, Sess!Worktree
<1>7. ASSUME NEW m \in Names, SessionHarvest(m)' PROVE RowsRight(m)' /\ FilesRight(m)'
  <2>1. SessionHarvest(m) /\ RowsRight(m) /\ FilesRight(m)
    BY <1>2, <1>5, <1>7 DEF SessionHarvest, SessionsInv
  <2>2. /\ job'[m].rows = job[m].rows /\ job'[m].held = job[m].held
        /\ job'[m].files = job[m].files \/ (m = n /\ job'[m].files = job[m].files \ {f})
    <3>1. CASE m = n
      BY <1>4, <1>5, <3>1
    <3>2. CASE m # n
      BY <1>5, <3>2
    <3>3. QED
      BY <3>1, <3>2
  <2>3. RowsRight(m)'
    BY <1>2, <2>1, <2>2 DEF RowsRight
  <2>4. FilesRight(m)'
    BY <1>2, <1>6, <2>1, <2>2, HarvestTyped DEF FilesRight
  <2>5. QED
    BY <2>3, <2>4
<1>8. SessionsTyped'
  BY <1>2, <1>5, <1>6 DEF SessionsInv, SessionsTyped
<1>9. Sess!SessionEvidenceKept'
  <2>1. \A x \in dropped.files : primary'[x] # Gone
    BY <1>6 DEF SessionsInv, Sess!SessionEvidenceKept, SessionsTyped, Held
  <2>2. QED
    BY <1>2, <2>1 DEF SessionsInv, Sess!SessionEvidenceKept
<1>10. \A m \in Names : Making(m)' => tree'[m] # Gone
  BY <1>2, <1>4, <1>5 DEF Making, SessionsInv
<1>11. QED
  BY <1>7, <1>8, <1>9, <1>10 DEF SessionsInv

(* The worktree goes when nothing of it is left to take.                   *)
LEMMA RemoveTreeSafe ==
  ASSUME SessionsHyp, SessionsInv, NEW n \in Names, Sess!RemoveTree(n)
  PROVE  SessionsInv'
<1> PICK j : j = [job[n] EXCEPT !.at = "unlink"]
  OBVIOUS
<1> PICK gone : gone = [rows |-> dropped.rows \union job[n].held.rows,
                        files |-> dropped.files \union job[n].held.files]
  OBVIOUS
<1>1. /\ SessionHarvest(n) /\ job[n].rows = {} /\ job[n].files = {} /\ dropped' = gone
      /\ tree' = [tree EXCEPT ![n] = Gone] /\ job' = [job EXCEPT ![n] = j]
      /\ UNCHANGED <<primary, ledger, receipt, edits>>
  BY DEF Sess!RemoveTree, Sess!At, SessionHarvest, Sess!Goto, Sess!KeepWork
<1>2. job[n] \in DestroyJob /\ RowsRight(n) /\ FilesRight(n) /\ job[n].held \in Held
  BY <1>1, HarvestTyped DEF SessionsInv
<1>3. j \in DestroyJob /\ j.at = "unlink"
  BY <1>2 DEF DestroyJob
<1>4. gone \in Held
  BY <1>2 DEF Held, SessionsInv, SessionsTyped
<1>5. /\ job' \in [Names -> SessionJob] /\ job'[n] = j
      /\ \A m \in Names : m # n => job'[m] = job[m] /\ tree'[m] = tree[m]
      /\ tree' \in [Names -> {Gone} \union Sess!Worktree]
  BY <1>1, <1>3 DEF SessionsInv, SessionsTyped, SessionJob
<1>6. SessionsTyped'
  BY <1>1, <1>4, <1>5 DEF SessionsInv, SessionsTyped
<1>7. ASSUME NEW m \in Names, SessionHarvest(m)' PROVE RowsRight(m)' /\ FilesRight(m)'
  <2>1. m # n
    BY <1>3, <1>5, <1>7 DEF SessionHarvest
  <2>2. job'[m] = job[m] /\ tree'[m] = tree[m] /\ RowsRight(m) /\ FilesRight(m)
    BY <1>5, <1>7, <2>1 DEF SessionHarvest, SessionsInv
  <2>3. QED
    BY <1>1, <2>2 DEF RowsRight, FilesRight
<1>8. Sess!SessionEvidenceKept'
  <2>1. ASSUME NEW p \in gone.rows, receipt[p[2]] = p[1] PROVE ledger[p[2]] = 1
    <3>1. CASE p \in dropped.rows
      BY <2>1, <3>1 DEF SessionsInv, Sess!SessionEvidenceKept
    <3>2. CASE p \in job[n].held.rows
      BY <1>1, <1>2, <2>1, <3>2 DEF RowsRight
    <3>3. QED
      BY <3>1, <3>2
  <2>2. \A f \in gone.files : primary[f] # Gone
    BY <1>1, <1>2 DEF FilesRight, SessionsInv, Sess!SessionEvidenceKept
  <2>3. QED
    BY <1>1, <2>1, <2>2 DEF SessionsInv, Sess!SessionEvidenceKept
<1>9. \A m \in Names : Making(m)' => tree'[m] # Gone
  BY <1>3, <1>5 DEF Making, SessionsInv
<1>10. QED
  BY <1>6, <1>7, <1>8, <1>9 DEF SessionsInv

LEMMA SessionsRight == SessionsHyp => (Sess!SessionsSpec => []SessionsInv)
<1> SUFFICES ASSUME SessionsHyp PROVE Sess!SessionsSpec => []SessionsInv
  OBVIOUS
<1>1. Sess!SessionsInit => SessionsInv
  BY DEF Sess!SessionsInit, SessionsInv, SessionsTyped, Sess!SessionEvidenceKept,
         SessionHarvest, Making, Held, SessionJob
<1>2. SessionsInv /\ [Sess!SessionsNext]_Sess!sessionVars => SessionsInv'
  <2>1. ASSUME SessionsInv, NEW n \in Names, Sess!DestroyProposed(n) PROVE SessionsInv'
    BY <2>1, DestroySafe DEF Sess!DestroyProposed
  <2>2. SessionsInv /\ Sess!SessionsNext => SessionsInv'
    BY <2>1, PrimarySafe, CreateSafe, StripSafe, JobEndsSafe, RowsSafe, EditFileSafe, GarbleSafe,
       DestroySafe, AppendSessionRowSafe, CopyEntrySafe, RemoveTreeSafe DEF Sess!SessionsNext
  <2>3. SessionsInv /\ UNCHANGED Sess!sessionVars => SessionsInv'
    BY DEF Sess!sessionVars, SessionsInv, SessionsTyped, Sess!SessionEvidenceKept,
           SessionHarvest, Making, RowsRight, FilesRight
  <2>4. QED
    BY <2>2, <2>3
<1>3. QED
  BY <1>1, <1>2, PTL DEF Sess!SessionsSpec

(* A vanished worktree takes no evidence with it (session.py destroy,      *)
(* _scan, prune), for any number of sessions, rows and files, wherever the *)
(* destroys before it died.                                                *)
THEOREM SessionEvidenceKeptHolds == SessionsHyp => (Sess!SessionsSpec => []Sess!SessionEvidenceKept)
<1>1. SessionsInv => Sess!SessionEvidenceKept
  BY DEF SessionsInv
<1>2. QED
  BY <1>1, SessionsRight, PTL

(* What a session keeps beside its worktree: every version was an edit.    *)
DeskTyped ==
    /\ edits \in 0..MaxEdits /\ config \in 0..edits
    /\ sessionRecord \in [Names -> {Gone} \union Sess!Versions]
    /\ archive \subseteq SessionRows /\ proposed \subseteq Names

LEMMA DeskMoves ==
  ASSUME SessionsHyp, SessionsInv, DeskTyped, [Sess!SessionsNext]_Sess!sessionVars
  PROVE  DeskTyped'
<1>1. config \in Sess!Versions /\ edits \in Nat
  BY DEF DeskTyped, Sess!Versions, SessionsHyp
<1>2. ASSUME Sess!Edit, sessionRecord' = sessionRecord, archive' = archive, proposed' = proposed,
             config' = config \/ config' = config + 1
      PROVE  DeskTyped'
  <2>1. edits' \in 0..MaxEdits /\ config' \in 0..edits'
    BY <1>2 DEF Sess!Edit, DeskTyped, SessionsHyp
  <2>2. QED
    BY <1>2, <2>1 DEF DeskTyped
<1>3. ASSUME UNCHANGED <<edits, config>>, archive' \subseteq SessionRows, proposed' \subseteq Names,
             sessionRecord' \in [Names -> {Gone} \union Sess!Versions]
      PROVE  DeskTyped'
  BY <1>3 DEF DeskTyped
<1>4. ASSUME NEW n \in Names,
             Sess!Create(n) \/ Sess!Strip(n) \/ Sess!Dies(n) \/ Sess!AppendRow(n)
                 \/ Sess!CopyEntry(n) \/ Sess!RemoveTree(n)
      PROVE  DeskTyped'
  BY <1>3, <1>4 DEF Sess!Create, Sess!Strip, Sess!Dies, Sess!AppendRow, Sess!CopyEntry,
     Sess!RemoveTree, Sess!KeepWork, Sess!KeepEvidence, DeskTyped
<1>5. ASSUME NEW n \in Names, Sess!WriteRecord(n) \/ Sess!UnlinkRecord(n)
      PROVE  DeskTyped'
  <2>1. PICK v \in {config, Gone} : sessionRecord' = [sessionRecord EXCEPT ![n] = v]
    BY <1>5 DEF Sess!WriteRecord, Sess!UnlinkRecord
  <2>2. sessionRecord' \in [Names -> {Gone} \union Sess!Versions]
    BY <1>1, <2>1 DEF DeskTyped
  <2>3. UNCHANGED <<edits, config, archive, proposed>>
    BY <1>5 DEF Sess!WriteRecord, Sess!UnlinkRecord, Sess!KeepWork, Sess!KeepEvidence
  <2>4. QED
    BY <1>3, <2>2, <2>3 DEF DeskTyped
<1>6. ASSUME NEW n \in Names, Sess!ArchiveRows(n) PROVE DeskTyped'
  <2>1. job[n] \in DestroyJob
    BY <1>6, JobOf DEF Sess!ArchiveRows, Sess!At
  <2>2. archive' \subseteq SessionRows /\ UNCHANGED <<edits, config, sessionRecord, proposed>>
    BY <1>6, <2>1 DEF Sess!ArchiveRows, Sess!KeepWork, DestroyJob, DeskTyped
  <2>3. QED
    BY <1>3, <2>2 DEF DeskTyped
<1>7. ASSUME NEW n \in Names, NEW h \in BOOLEAN, NEW d \in BOOLEAN, Sess!Destroy(n, h, d),
             proposed' \subseteq proposed
      PROVE  DeskTyped'
  BY <1>3, <1>7 DEF Sess!Destroy, Sess!KeepWork, Sess!KeepEvidence, DeskTyped
<1>8. ASSUME NEW n \in Names, Sess!DestroyProposed(n) PROVE DeskTyped'
  BY <1>7, <1>8 DEF Sess!DestroyProposed
<1>9. ASSUME NEW n \in Names, NEW r \in SessionRows, Sess!MeasureIn(n, r) \/ Sess!WriteRow(n, r)
      PROVE  DeskTyped'
  BY <1>3, <1>9 DEF Sess!MeasureIn, Sess!WriteRow, Sess!KeepSession, DeskTyped
<1>10. ASSUME NEW n \in Names, Sess!Garble(n) \/ \E f \in FileNames : Sess!EditFile(n, f)
       PROVE  DeskTyped'
  BY <1>2, <1>10 DEF Sess!Garble, Sess!EditFile, Sess!KeepSession
<1>11. ASSUME Sess!EditConfig \/ \E f \in FileNames : Sess!EditPrimary(f) PROVE DeskTyped'
  BY <1>2, <1>11 DEF Sess!EditConfig, Sess!EditPrimary, Sess!KeepSession
<1>12. ASSUME Sess!Prune PROVE DeskTyped'
  BY <1>3, <1>12 DEF Sess!Prune, Sess!KeepWork, Sess!KeepEvidence, DeskTyped
<1>13. ASSUME UNCHANGED Sess!sessionVars PROVE DeskTyped'
  BY <1>3, <1>13 DEF Sess!sessionVars, DeskTyped
<1>14. ASSUME NEW n \in Names, NEW h \in BOOLEAN, NEW d \in BOOLEAN, Sess!Destroy(n, h, d),
              UNCHANGED proposed
       PROVE  DeskTyped'
  BY <1>7, <1>14
<1>15. QED
  BY <1>4, <1>5, <1>6, <1>8, <1>9, <1>10, <1>11, <1>12, <1>13, <1>14 DEF Sess!SessionsNext

(* A row is in the ledger once at most, and then it was measured in a      *)
(* session, so there is one.                                               *)
LEMMA RowsCounted ==
  ASSUME SessionsHyp, SessionsInv
  PROVE  ledger \in [SessionRows -> 0..Sess!Cardinality(Names)]
<1>1. Sess!Cardinality(Names) = Cardinality(Names)
  BY DEF Sess!Cardinality, Cardinality
<1>2. Cardinality(Names) \in Nat /\ (Cardinality(Names) = 0 => Names = {})
  BY FS_CardinalityType, FS_EmptySet DEF SessionsHyp
<1>3. ASSUME NEW r \in SessionRows PROVE ledger[r] \in 0..Cardinality(Names)
  <2>1. ledger[r] \in Nat /\ receipt[r] \in {Nobody} \union Names
    BY DEF SessionsInv, SessionsTyped
  <2>2. ledger[r] > 0 => receipt[r] \in Names /\ ledger[r] = 1
    BY <2>1 DEF SessionsInv, Sess!SessionEvidenceKept
  <2>3. ledger[r] > 0 => Cardinality(Names) > 0
    BY <1>2, <2>2
  <2>4. QED
    BY <1>2, <2>1, <2>2, <2>3
<1>4. ledger \in [SessionRows -> Nat]
  BY DEF SessionsInv, SessionsTyped
<1>5. QED
  BY <1>1, <1>3, <1>4

(* The types of worktrees, records, rows and destroys.                     *)
THEOREM SessionsTypes ==
  SessionsHyp => (Sess!SessionsSpec => []Sess!SessionsTypeOK)
<1> SUFFICES ASSUME SessionsHyp
             PROVE  Sess!SessionsSpec => []Sess!SessionsTypeOK
  OBVIOUS
<1>1. Sess!SessionsInit => DeskTyped
  BY DEF Sess!SessionsInit, DeskTyped, SessionsHyp
<1>2. SessionsInv /\ DeskTyped /\ [Sess!SessionsNext]_Sess!sessionVars => DeskTyped'
  BY DeskMoves
<1>3. SessionsInv /\ DeskTyped => Sess!SessionsTypeOK
  <2> SUFFICES ASSUME SessionsInv, DeskTyped PROVE Sess!SessionsTypeOK
    OBVIOUS
  <2>1. SessionsTyped
    BY DEF SessionsInv
  <2>2. config \in Sess!Versions
    BY DEF DeskTyped, Sess!Versions, SessionsHyp
  <2>3. ASSUME NEW n \in Names
        PROVE  job[n] = Idle \/ job[n].at \in {"strip", "record", "harvest", "rows", "unlink"}
    BY <2>1 DEF SessionsTyped, SessionJob, CreateJob, DestroyJob
  <2>4. dropped \in [rows : SUBSET (Names \X SessionRows), files : SUBSET FileNames]
    BY <2>1 DEF SessionsTyped, Held
  <2>5. QED
    BY <2>1, <2>2, <2>3, <2>4, RowsCounted DEF Sess!SessionsTypeOK, DeskTyped, SessionsTyped
<1>4. QED
  BY <1>1, <1>2, <1>3, SessionsRight, PTL DEF Sess!SessionsSpec

-----------------------------------------------------------------------------
(* Relocation: memos moved, and the pointers to them.                      *)

RelocTyped ==
    /\ memoDisk \in [Relo!Paths -> Relo!Memos] /\ memos \in 0..MaxMemos
    /\ memoEntry \in [Entries -> Relo!Records] /\ meant \in [Entries -> Relo!Memos]
    /\ job \in [Movers -> {Idle} \union Relo!Jobs]

(* One relocation at a time, to a place that stays free until it moves.    *)
MoverRight(m) ==
    job[m] # Idle =>
        /\ job[m].dest = Relo!Default(job[m].src)
        /\ job[m].at \in {"free", "move"} => memoDisk[job[m].dest] = None
        /\ \A o \in Movers : job[o] # Idle => o = m

RelocInv == RelocTyped /\ Relo!EvidenceMoved /\ \A m \in Movers : MoverRight(m)

LEMMA PlacesApart ==
  ASSUME RelocBounds, NEW p \in Relo!Inbox
  PROVE  /\ p \in Relo!Paths /\ Relo!Default(p) \in Relo!Findings /\ Relo!Default(p) \in Relo!Paths
         /\ \A q \in Relo!Inbox : q # Relo!Default(p)
BY DEF RelocBounds, Relo!Inbox, Relo!Findings, Relo!Paths, Relo!Default

LEMMA JobTyped ==
  ASSUME RelocTyped, NEW m \in Movers, job[m] # Idle
  PROVE  /\ job[m] \in Relo!Jobs /\ job[m].src \in Relo!Inbox /\ job[m].dest \in Relo!Findings
         /\ job[m].todo \subseteq Entries /\ job[m].seen \in [Entries -> {None} \union Relo!Records]
BY DEF RelocTyped, Relo!Jobs

(* The entries move, and no verdict is given on what is not on disk.       *)
LEMMA EntriesMove ==
  ASSUME RelocInv, memoEntry' \in [Entries -> Relo!Records], meant' \in [Entries -> Relo!Memos],
         \A e \in Entries : meant'[e] \in {meant[e], None} \/
             \E p \in Relo!Paths : memoDisk[p] = meant'[e],
         UNCHANGED <<memoDisk, memos, job>>
  PROVE  RelocInv'
<1>1. RelocTyped' /\ \A m \in Movers : MoverRight(m)'
  BY DEF RelocInv, RelocTyped, MoverRight
<1>2. Relo!EvidenceMoved'
  BY DEF RelocInv, Relo!EvidenceMoved
<1>3. QED
  BY <1>1, <1>2 DEF RelocInv

LEMMA HandInSafe ==
  ASSUME RelocHyp, RelocInv, NEW p \in Relo!Paths, Relo!HandIn(p)
  PROVE  RelocInv'
<1>1. /\ p \in Relo!Inbox /\ memoDisk[p] = None /\ memos' = memos + 1
      /\ memoDisk' = [memoDisk EXCEPT ![p] = memos + 1]
      /\ memos < MaxMemos /\ UNCHANGED <<memoEntry, meant, job>>
  BY DEF Relo!HandIn
<1>2. memos + 1 \in 1..MaxMemos /\ memos + 1 \in Relo!Memos
  BY <1>1 DEF RelocInv, RelocTyped, RelocHyp, RelocBounds, Relo!Memos
<1>3. /\ memoDisk' \in [Relo!Paths -> Relo!Memos]
      /\ \A q \in Relo!Paths : q # p => memoDisk'[q] = memoDisk[q]
  BY <1>1, <1>2 DEF RelocInv, RelocTyped
<1>4. RelocTyped'
  BY <1>1, <1>2, <1>3 DEF RelocInv, RelocTyped
<1>5. Relo!EvidenceMoved'
  BY <1>1, <1>3 DEF RelocInv, Relo!EvidenceMoved
<1>6. ASSUME NEW m \in Movers PROVE MoverRight(m)'
  <2>1. CASE job[m] = Idle
    BY <1>1, <2>1 DEF MoverRight
  <2>2. CASE job[m] # Idle
    <3>1. MoverRight(m) /\ job[m].dest \in Relo!Paths /\ job[m].dest # p
      BY <1>1, <2>2, JobTyped, PlacesApart DEF RelocInv, MoverRight, RelocHyp
    <3>2. memoDisk'[job[m].dest] = memoDisk[job[m].dest]
      BY <1>3, <3>1
    <3>3. QED
      BY <1>1, <2>2, <3>1, <3>2 DEF MoverRight
  <2>3. QED
    BY <2>1, <2>2
<1>7. QED
  BY <1>4, <1>5, <1>6 DEF RelocInv

LEMMA EditTyped ==
  ASSUME RelocBounds, RelocTyped, NEW e \in Entries, NEW memo \in {None} \union Relo!Paths,
         NEW source \in {None} \union Relo!Paths, Relo!Edit(e, memo, source)
  PROVE  memoEntry' \in [Entries -> Relo!Records]
<1> PICK r : r = [memo |-> memo, source |-> source, rev |-> memoEntry[e].rev + 1]
  OBVIOUS
<1>1. memoEntry' = [memoEntry EXCEPT ![e] = r] /\ memoEntry[e].rev < MaxRev
  BY DEF Relo!Edit
<1>2. memoEntry[e].rev \in 0..MaxRev /\ memoEntry \in [Entries -> Relo!Records]
  BY DEF RelocTyped, Relo!Records
<1>3. r \in Relo!Records
  BY <1>1, <1>2 DEF Relo!Records, RelocBounds
<1>4. QED
  BY <1>1, <1>2, <1>3

LEMMA RecordSafe ==
  ASSUME RelocHyp, RelocInv, NEW e \in Entries,
         Relo!Reopen(e) \/ \E p \in Relo!Paths : Relo!Close(e, p) \/ Relo!Cite(e, p)
  PROVE  RelocInv'
<1>1. /\ memoEntry[e].memo \in {None} \union Relo!Paths
      /\ memoEntry[e].source \in {None} \union Relo!Paths
  BY DEF RelocInv, RelocTyped, Relo!Records
<1>2. meant \in [Entries -> Relo!Memos] /\ None \in Relo!Memos /\
      memoDisk \in [Relo!Paths -> Relo!Memos]
  BY DEF RelocInv, RelocTyped, Relo!Memos
<1>3. ASSUME Relo!Reopen(e) PROVE RelocInv'
  <2>1. memoEntry' \in [Entries -> Relo!Records]
    BY <1>1, <1>3, EditTyped DEF Relo!Reopen, RelocInv, RelocHyp
  <2>2. QED
    BY <1>2, <1>3, <2>1, EntriesMove DEF Relo!Reopen
<1>4. ASSUME NEW p \in Relo!Paths, Relo!Close(e, p) PROVE RelocInv'
  <2>1. memoEntry' \in [Entries -> Relo!Records]
    BY <1>1, <1>4, EditTyped DEF Relo!Close, RelocInv, RelocHyp
  <2>2. QED
    BY <1>2, <1>4, <2>1, EntriesMove DEF Relo!Close
<1>5. ASSUME NEW p \in Relo!Paths, Relo!Cite(e, p) PROVE RelocInv'
  <2>1. memoEntry' \in [Entries -> Relo!Records]
    BY <1>1, <1>5, EditTyped DEF Relo!Cite, RelocInv, RelocHyp
  <2>2. QED
    BY <1>2, <1>5, <2>1, EntriesMove DEF Relo!Cite
<1>6. QED
  BY <1>3, <1>4, <1>5

(* One relocation moves on, and leaves the disk alone.                     *)
LEMMA MoverMoves ==
  ASSUME RelocInv, NEW m \in Movers, NEW j \in {Idle} \union Relo!Jobs,
         job' = [job EXCEPT ![m] = j], memoEntry' \in [Entries -> Relo!Records],
         UNCHANGED <<memoDisk, memos, meant>>,
         j # Idle => /\ j.dest = Relo!Default(j.src) /\ \A o \in Movers \ {m} : job[o] = Idle
                     /\ j.at \in {"free", "move"} => memoDisk[j.dest] = None
  PROVE  RelocInv'
<1>1. /\ job' \in [Movers -> {Idle} \union Relo!Jobs] /\ job'[m] = j
      /\ \A o \in Movers \ {m} : job'[o] = job[o]
  BY DEF RelocInv, RelocTyped
<1>2. ASSUME NEW o \in Movers PROVE MoverRight(o)'
  BY <1>1 DEF RelocInv, MoverRight
<1>3. RelocTyped' /\ Relo!EvidenceMoved'
  BY <1>1 DEF RelocInv, RelocTyped, Relo!EvidenceMoved
<1>4. QED
  BY <1>2, <1>3 DEF RelocInv

LEMMA StartSafe ==
  ASSUME RelocHyp, RelocInv, NEW m \in Movers, NEW p \in Relo!Inbox, Relo!Start(m, p)
  PROVE  RelocInv'
<1> PICK j : j =
        [at |-> "free", src |-> p, dest |-> Relo!Default(p), seen |-> Relo!Unread, todo |-> {}]
  OBVIOUS
<1>1. Relo!Unread \in [Entries -> {None} \union Relo!Records]
  BY DEF Relo!Unread
<1>2. j \in Relo!Jobs /\ j.dest = Relo!Default(j.src) /\ memoDisk[j.dest] = None
  BY <1>1, PlacesApart DEF Relo!Jobs, Relo!Start, RelocHyp
<1>3. job' = [job EXCEPT ![m] = j] /\ UNCHANGED <<memoDisk, memos, memoEntry, meant>>
  BY DEF Relo!Start
<1>4. \A o \in Movers : job[o] = Idle
  BY DEF Relo!Start, RelocHyp, RelocBounds
<1>5. QED
  BY <1>2, <1>3, <1>4, MoverMoves DEF RelocInv, RelocTyped

LEMMA ReadEntriesSafe ==
  ASSUME RelocInv, NEW m \in Movers, Relo!ReadEntries(m)
  PROVE  RelocInv'
<1> PICK todo : todo = Relo!Touched(job[m].src)
  OBVIOUS
<1> PICK read : read = [e \in Entries |-> IF e \in todo THEN memoEntry[e] ELSE None]
  OBVIOUS
<1> PICK j : j = [job[m] EXCEPT !.at = "move", !.todo = todo, !.seen = read]
  OBVIOUS
<1>1. job[m] # Idle /\ job[m].at = "free" /\ job[m] \in Relo!Jobs
  BY JobTyped DEF Relo!ReadEntries, RelocInv
<1>2. todo \subseteq Entries /\ read \in [Entries -> {None} \union Relo!Records]
  BY DEF Relo!Touched, RelocInv, RelocTyped
<1>3. /\ j \in Relo!Jobs /\ j.dest = job[m].dest /\ j.src = job[m].src
  BY <1>1, <1>2 DEF Relo!Jobs
<1>4. job' = [job EXCEPT ![m] = j] /\ UNCHANGED <<memoDisk, memos, memoEntry, meant>>
  BY DEF Relo!ReadEntries
<1>5. MoverRight(m)
  BY DEF RelocInv
<1>6. QED
  BY <1>1, <1>3, <1>4, <1>5, MoverMoves DEF RelocInv, RelocTyped, MoverRight

(* The move puts the memo where nothing was.                               *)
LEMMA MoveFileSafe ==
  ASSUME RelocHyp, RelocInv, NEW m \in Movers, Relo!MoveFile(m)
  PROVE  RelocInv'
<1> PICK src : src = job[m].src
  OBVIOUS
<1> PICK dest : dest = job[m].dest
  OBVIOUS
<1> PICK j : j = [job[m] EXCEPT !.at = "rewrite"]
  OBVIOUS
<1>1. job[m] # Idle /\ job[m].at = "move" /\ job[m] \in Relo!Jobs /\ MoverRight(m)
  BY JobTyped DEF Relo!MoveFile, RelocInv
<1>2. /\ src \in Relo!Paths /\ dest \in Relo!Paths /\ src # dest /\ memoDisk[dest] = None
  BY <1>1, JobTyped, PlacesApart DEF MoverRight, RelocInv, RelocHyp
<1>3. /\ memoDisk' = [memoDisk EXCEPT ![src] = None, ![dest] = memoDisk[src]]
      /\ job' = [job EXCEPT ![m] = j] /\ UNCHANGED <<memos, memoEntry, meant>>
  BY DEF Relo!MoveFile, Relo!Goto
<1>4. /\ memoDisk' \in [Relo!Paths -> Relo!Memos] /\ memoDisk'[dest] = memoDisk[src]
      /\ \A q \in Relo!Paths : q # src /\ q # dest => memoDisk'[q] = memoDisk[q]
  BY <1>2, <1>3 DEF RelocInv, RelocTyped, Relo!Memos
<1>5. j \in Relo!Jobs /\ j.dest = dest /\ j.src = src /\ j.at = "rewrite"
  BY <1>1 DEF Relo!Jobs
<1>6. /\ job' \in [Movers -> {Idle} \union Relo!Jobs] /\ job'[m] = j
      /\ \A o \in Movers \ {m} : job'[o] = job[o] /\ job[o] = Idle
  BY <1>1, <1>3, <1>5 DEF RelocInv, RelocTyped, MoverRight
<1>7. ASSUME NEW o \in Movers PROVE MoverRight(o)'
  BY <1>1, <1>5, <1>6, ZenonT(60) DEF MoverRight
<1>8. RelocTyped'
  BY <1>3, <1>4, <1>6 DEF RelocInv, RelocTyped
<1>9. Relo!EvidenceMoved'
  <2>1. ASSUME NEW e \in Entries, meant[e] # None PROVE \E p \in Relo!Paths : memoDisk'[p] = meant[e]
    <3>1. PICK p \in Relo!Paths : memoDisk[p] = meant[e]
      BY <2>1 DEF RelocInv, Relo!EvidenceMoved
    <3>2. CASE p = src
      BY <1>2, <1>4, <3>1, <3>2
    <3>3. CASE p # src
      BY <1>2, <1>4, <2>1, <3>1, <3>3
    <3>4. QED
      BY <3>2, <3>3
  <2>2. QED
    BY <1>3, <2>1 DEF Relo!EvidenceMoved
<1>10. QED
  BY <1>7, <1>8, <1>9 DEF RelocInv

LEMMA EntryRewriteSafe ==
  ASSUME RelocHyp, RelocInv, NEW m \in Movers, NEW e \in Entries, Relo!Rewrite(m, e)
  PROVE  RelocInv'
<1> PICK read : read = [job[m].seen EXCEPT ![e] = None]
  OBVIOUS
<1> PICK j : j = [job[m] EXCEPT !.todo = job[m].todo \ {e}, !.seen = read]
  OBVIOUS
<1>1. /\ job[m] # Idle /\ job[m].at = "rewrite" /\ job[m] \in Relo!Jobs /\ MoverRight(m)
      /\ job[m].seen \in [Entries -> {None} \union Relo!Records]
  BY JobTyped DEF Relo!Rewrite, RelocInv
<1>2. j \in Relo!Jobs /\ j.dest = job[m].dest /\ j.src = job[m].src /\ j.at = "rewrite"
  BY <1>1 DEF Relo!Jobs
<1>3. job' = [job EXCEPT ![m] = j] /\ UNCHANGED <<memoDisk, memos, meant>>
  BY <1>1 DEF Relo!Rewrite, Relo!Jobs
<1>4. /\ memoEntry[e].memo \in {None} \union Relo!Paths
      /\ memoEntry[e].source \in {None} \union Relo!Paths
      /\ job[m].dest \in Relo!Paths
  BY <1>1, JobTyped, PlacesApart DEF RelocInv, RelocTyped, Relo!Records, MoverRight, RelocHyp
<1>5. /\ Relo!Follow(memoEntry[e].memo, m) \in {None} \union Relo!Paths
      /\ Relo!Follow(memoEntry[e].source, m) \in {None} \union Relo!Paths
  BY <1>4 DEF Relo!Follow
<1>6. memoEntry' \in [Entries -> Relo!Records]
  BY <1>5, EditTyped DEF Relo!Rewrite, RelocInv, RelocHyp
<1>7. QED
  BY <1>1, <1>2, <1>3, <1>6, MoverMoves DEF MoverRight

LEMMA StopSafe == ASSUME RelocInv, NEW m \in Movers, Relo!Stop(m) PROVE RelocInv'
BY MoverMoves DEF Relo!Stop, RelocInv, RelocTyped

(* The invariant holds throughout.                                         *)
THEOREM RelocSafe == RelocHyp => (Relo!RelocSpec => []RelocInv)
<1> SUFFICES ASSUME RelocHyp PROVE Relo!RelocSpec => []RelocInv
  OBVIOUS
<1>1. Relo!RelocInit => RelocInv
  <2>1. ASSUME NEW e \in Entries PROVE [memo |-> None, source |-> None, rev |-> 0] \in Relo!Records
    BY DEF Relo!Records, RelocHyp, RelocBounds
  <2>2. QED
    BY <2>1
       DEF Relo!RelocInit, RelocInv, RelocTyped, Relo!EvidenceMoved, MoverRight,
           Relo!Memos, RelocHyp, RelocBounds
<1>2. RelocInv /\ [Relo!RelocNext]_Relo!relocVars => RelocInv'
  <2>1. RelocInv /\ Relo!RelocNext => RelocInv'
    BY HandInSafe, RecordSafe, StartSafe, ReadEntriesSafe, MoveFileSafe, StopSafe, EntryRewriteSafe
       DEF Relo!RelocNext
  <2>2. RelocInv /\ UNCHANGED Relo!relocVars => RelocInv'
    BY DEF Relo!relocVars, RelocInv, RelocTyped, Relo!EvidenceMoved, MoverRight
  <2>3. QED
    BY <2>1, <2>2
<1>3. QED
  BY <1>1, <1>2, PTL DEF Relo!RelocSpec

(* No evidence is destroyed while relocations do not overlap (relocate.py):*)
(* the memo each standing verdict was closed on is on disk, for any number *)
(* of files and entries.                                                   *)
THEOREM EvidenceMovedHolds == RelocHyp => (Relo!RelocSpec => []Relo!EvidenceMoved)
<1>1. RelocInv => Relo!EvidenceMoved
  BY DEF RelocInv
<1>2. QED
  BY <1>1, RelocSafe, PTL

(* The types need no two relocations kept apart: every step keeps them.    *)
LEMMA HandInTyped ==
  ASSUME RelocBounds, RelocTyped, NEW p \in Relo!Paths, Relo!HandIn(p)
  PROVE  RelocTyped'
<1>1. /\ memos' = memos + 1 /\ memoDisk' = [memoDisk EXCEPT ![p] = memos + 1]
      /\ memos < MaxMemos /\ UNCHANGED <<memoEntry, meant, job>>
  BY DEF Relo!HandIn
<1>2. memos + 1 \in 1..MaxMemos
  BY <1>1 DEF RelocTyped, RelocBounds
<1>3. memos + 1 \in Relo!Memos
  BY <1>2 DEF Relo!Memos
<1>4. memoDisk' \in [Relo!Paths -> Relo!Memos]
  BY <1>1, <1>3 DEF RelocTyped
<1>5. QED
  BY <1>1, <1>2, <1>4 DEF RelocTyped

LEMMA RecordTyped ==
  ASSUME RelocBounds, RelocTyped, NEW e \in Entries,
         Relo!Reopen(e) \/ \E p \in Relo!Paths : Relo!Close(e, p) \/ Relo!Cite(e, p)
  PROVE  RelocTyped'
<1>1. /\ memoEntry[e].memo \in {None} \union Relo!Paths
      /\ memoEntry[e].source \in {None} \union Relo!Paths
  BY DEF RelocTyped, Relo!Records
<1>2. None \in Relo!Memos /\ \A p \in Relo!Paths : memoDisk[p] \in Relo!Memos
  BY DEF RelocTyped, Relo!Memos
<1>3. ASSUME Relo!Reopen(e) PROVE RelocTyped'
  <2>1. memoEntry' \in [Entries -> Relo!Records]
    BY <1>1, <1>3, EditTyped DEF Relo!Reopen
  <2>2. QED
    BY <1>2, <1>3, <2>1 DEF Relo!Reopen, RelocTyped
<1>4. ASSUME NEW p \in Relo!Paths, Relo!Close(e, p) PROVE RelocTyped'
  <2>1. memoEntry' \in [Entries -> Relo!Records]
    BY <1>1, <1>4, EditTyped DEF Relo!Close
  <2>2. QED
    BY <1>2, <1>4, <2>1 DEF Relo!Close, RelocTyped
<1>5. ASSUME NEW p \in Relo!Paths, Relo!Cite(e, p) PROVE RelocTyped'
  <2>1. memoEntry' \in [Entries -> Relo!Records]
    BY <1>1, <1>5, EditTyped DEF Relo!Cite
  <2>2. QED
    BY <1>5, <2>1 DEF Relo!Cite, RelocTyped
<1>6. QED
  BY <1>3, <1>4, <1>5

LEMMA MoverStarts ==
  ASSUME RelocBounds, RelocTyped, NEW m \in Movers, NEW p \in Relo!Inbox, Relo!Start(m, p)
  PROVE  RelocTyped'
<1> PICK j : j =
        [at |-> "free", src |-> p, dest |-> Relo!Default(p), seen |-> Relo!Unread, todo |-> {}]
  OBVIOUS
<1>1. Relo!Unread \in [Entries -> {None} \union Relo!Records]
  BY DEF Relo!Unread
<1>2. j \in Relo!Jobs
  BY <1>1, PlacesApart DEF Relo!Jobs
<1>3. job' = [job EXCEPT ![m] = j] /\ UNCHANGED <<memoDisk, memos, memoEntry, meant>>
  BY DEF Relo!Start
<1>4. QED
  BY <1>2, <1>3 DEF RelocTyped

LEMMA EntriesRead ==
  ASSUME RelocTyped, NEW m \in Movers, Relo!ReadEntries(m)
  PROVE  RelocTyped'
<1> PICK todo : todo = Relo!Touched(job[m].src)
  OBVIOUS
<1> PICK read : read = [e \in Entries |-> IF e \in todo THEN memoEntry[e] ELSE None]
  OBVIOUS
<1> PICK j : j = [job[m] EXCEPT !.at = "move", !.todo = todo, !.seen = read]
  OBVIOUS
<1>1. job[m] \in Relo!Jobs
  BY JobTyped DEF Relo!ReadEntries
<1>2. todo \subseteq Entries /\ read \in [Entries -> {None} \union Relo!Records]
  BY DEF Relo!Touched, RelocTyped
<1>3. j \in Relo!Jobs
  BY <1>1, <1>2 DEF Relo!Jobs
<1>4. job' = [job EXCEPT ![m] = j] /\ UNCHANGED <<memoDisk, memos, memoEntry, meant>>
  BY DEF Relo!ReadEntries
<1>5. QED
  BY <1>3, <1>4 DEF RelocTyped

LEMMA FileMoved ==
  ASSUME RelocBounds, RelocTyped, NEW m \in Movers, Relo!MoveFile(m)
  PROVE  RelocTyped'
<1> PICK src : src = job[m].src
  OBVIOUS
<1> PICK dest : dest = job[m].dest
  OBVIOUS
<1> PICK j : j = [job[m] EXCEPT !.at = "rewrite"]
  OBVIOUS
<1>1. job[m] \in Relo!Jobs /\ src \in Relo!Inbox /\ dest \in Relo!Findings
  BY JobTyped DEF Relo!MoveFile
<1>2. src \in Relo!Paths /\ dest \in Relo!Paths
  BY <1>1 DEF Relo!Paths
<1>3. /\ memoDisk' = [memoDisk EXCEPT ![src] = None, ![dest] = memoDisk[src]]
      /\ job' = [job EXCEPT ![m] = j] /\ UNCHANGED <<memos, memoEntry, meant>>
  BY DEF Relo!MoveFile, Relo!Goto
<1>4. memoDisk' \in [Relo!Paths -> Relo!Memos]
  BY <1>2, <1>3 DEF RelocTyped, Relo!Memos
<1>5. j \in Relo!Jobs
  BY <1>1 DEF Relo!Jobs
<1>6. QED
  BY <1>3, <1>4, <1>5 DEF RelocTyped

LEMMA EntryRewritten ==
  ASSUME RelocBounds, RelocTyped, NEW m \in Movers, NEW e \in Entries, Relo!Rewrite(m, e)
  PROVE  RelocTyped'
<1> PICK read : read = [job[m].seen EXCEPT ![e] = None]
  OBVIOUS
<1> PICK j : j = [job[m] EXCEPT !.todo = job[m].todo \ {e}, !.seen = read]
  OBVIOUS
<1>1. /\ job[m] \in Relo!Jobs /\ job[m].dest \in Relo!Findings
      /\ job[m].seen \in [Entries -> {None} \union Relo!Records]
  BY JobTyped DEF Relo!Rewrite
<1>2. j \in Relo!Jobs
  BY <1>1 DEF Relo!Jobs
<1>3. job' = [job EXCEPT ![m] = j] /\ UNCHANGED <<memoDisk, memos, meant>>
  BY <1>1 DEF Relo!Rewrite, Relo!Jobs
<1>4. /\ memoEntry[e].memo \in {None} \union Relo!Paths
      /\ memoEntry[e].source \in {None} \union Relo!Paths
      /\ job[m].dest \in Relo!Paths
  BY <1>1 DEF RelocTyped, Relo!Records, Relo!Paths
<1>5. /\ Relo!Follow(memoEntry[e].memo, m) \in {None} \union Relo!Paths
      /\ Relo!Follow(memoEntry[e].source, m) \in {None} \union Relo!Paths
  BY <1>4 DEF Relo!Follow
<1>6. memoEntry' \in [Entries -> Relo!Records]
  BY <1>5, EditTyped DEF Relo!Rewrite
<1>7. QED
  BY <1>2, <1>3, <1>6 DEF RelocTyped

(* The types of memos, pointers and moves, for any number of them and      *)
(* however many relocations run at once.                                   *)
THEOREM RelocTypeCorrect == RelocBounds => (Relo!RelocSpec => []Relo!RelocTypeOK)
<1> SUFFICES ASSUME RelocBounds PROVE Relo!RelocSpec => []Relo!RelocTypeOK
  OBVIOUS
<1>1. Relo!RelocInit => RelocTyped
  <2>1. ASSUME NEW e \in Entries PROVE [memo |-> None, source |-> None, rev |-> 0] \in Relo!Records
    BY DEF Relo!Records, RelocBounds
  <2>2. QED
    BY <2>1 DEF Relo!RelocInit, RelocTyped, Relo!Memos, RelocBounds
<1>2. RelocTyped /\ [Relo!RelocNext]_Relo!relocVars => RelocTyped'
  <2>1. ASSUME RelocTyped, NEW m \in Movers, Relo!Stop(m) PROVE RelocTyped'
    BY <2>1 DEF Relo!Stop, RelocTyped
  <2>2. RelocTyped /\ Relo!RelocNext => RelocTyped'
    BY <2>1, HandInTyped, RecordTyped, MoverStarts, EntriesRead, FileMoved, EntryRewritten
       DEF Relo!RelocNext
  <2>3. RelocTyped /\ UNCHANGED Relo!relocVars => RelocTyped'
    BY DEF Relo!relocVars, RelocTyped
  <2>4. QED
    BY <2>2, <2>3
<1>3. RelocTyped => Relo!RelocTypeOK
  BY DEF RelocTyped, Relo!RelocTypeOK
<1>4. QED
  BY <1>1, <1>2, <1>3, PTL DEF Relo!RelocSpec

-----------------------------------------------------------------------------
(* Bundles: an evidence bundle imported to an address.                     *)

ImportJob == [at : Bund!Phases, copied : SUBSET FileNames]

(* What an import publishes is the whole bundle, and what it will call a   *)
(* success it has seen whole.                                              *)
ImportsRight(n) ==
    /\ Bund!At(n, "publish") => job[n].copied = FileNames
    /\ Bund!At(n, "release") \/ Bund!At(n, "done") => (touched = 0 => bundleTarget = FileNames)

BundlesInv ==
    /\ touched \in Nat /\ job \in [Importers -> {Idle} \union ImportJob]
    /\ touched = 0 => ~spoiled
    /\ ~spoiled => bundleTarget \in {{}, FileNames}
    /\ \A n \in Importers : ImportsRight(n)

(* One import moves on, and leaves alone what is at the address.           *)
LEMMA ImportMoves ==
  ASSUME BundlesInv, NEW n \in Importers, NEW j \in {Idle} \union ImportJob,
         job' = [job EXCEPT ![n] = j], UNCHANGED <<bundleTarget, touched, spoiled>>,
         j # Idle /\ j.at = "publish" => j.copied = FileNames,
         j # Idle /\ j.at \in {"release", "done"} => (touched = 0 => bundleTarget = FileNames)
  PROVE  BundlesInv'
<1>1. /\ job' \in [Importers -> {Idle} \union ImportJob] /\ job'[n] = j
      /\ \A m \in Importers : m # n => job'[m] = job[m]
  BY DEF BundlesInv
<1>2. ASSUME NEW m \in Importers PROVE ImportsRight(m)'
  BY <1>1 DEF BundlesInv, ImportsRight, Bund!At
<1>3. QED
  BY <1>1, <1>2 DEF BundlesInv

(* The same, when all that moves is where it is.                           *)
LEMMA ImportBecomes ==
  ASSUME BundlesInv, NEW n \in Importers, NEW phase \in Bund!Phases, job[n] # Idle,
         Bund!Become(n, phase), UNCHANGED <<bundleTarget, touched, spoiled>>,
         phase = "publish" => job[n].copied = FileNames,
         phase \in {"release", "done"} => (touched = 0 => bundleTarget = FileNames)
  PROVE  BundlesInv'
<1> PICK j : j = [job[n] EXCEPT !.at = phase]
  OBVIOUS
<1>1. job[n] \in ImportJob
  BY DEF BundlesInv
<1>2. j \in ImportJob /\ j.at = phase /\ j.copied = job[n].copied
  BY <1>1 DEF ImportJob
<1>3. job' = [job EXCEPT ![n] = j]
  BY DEF Bund!Become
<1>4. QED
  BY <1>2, <1>3, ImportMoves

LEMMA StageSafe == ASSUME BundlesInv, NEW n \in Importers, Bund!Stage(n) PROVE BundlesInv'
<1>1. PICK j \in {Bund!Staged, [Bund!Staged EXCEPT !.at = "refused"]} : job' = [job EXCEPT ![n] = j]
  BY DEF Bund!Stage
<1>2. j \in ImportJob /\ j.at \in {"wait", "refused"}
  BY DEF Bund!Staged, ImportJob, Bund!Phases
<1>3. UNCHANGED <<bundleTarget, touched, spoiled>>
  BY DEF Bund!Stage
<1>4. QED
  BY <1>1, <1>2, <1>3, ImportMoves

LEMMA PhasesPassedSafe ==
  ASSUME BundlesInv, NEW n \in Importers,
         Bund!Acquire(n) \/ Bund!GiveUp(n) \/ Bund!Copied(n) \/ Bund!Clean(n) \/
             Bund!Release(n) \/ Bund!Look(n)
  PROVE  BundlesInv'
<1>1. ASSUME Bund!Acquire(n) PROVE BundlesInv'
  BY <1>1, ImportBecomes DEF Bund!Acquire, Bund!At, Bund!Phases
<1>2. ASSUME Bund!GiveUp(n) PROVE BundlesInv'
  BY <1>2, ImportBecomes DEF Bund!GiveUp, Bund!At, Bund!Phases
<1>3. ASSUME Bund!Copied(n) PROVE BundlesInv'
  BY <1>3, ImportBecomes DEF Bund!Copied, Bund!At, Bund!Phases
<1>4. ASSUME Bund!Clean(n) PROVE BundlesInv'
  BY <1>4, ImportBecomes DEF Bund!Clean, Bund!At, Bund!Phases
<1>5. ASSUME Bund!Release(n) PROVE BundlesInv'
  <2>1. touched = 0 => bundleTarget = FileNames
    BY <1>5 DEF Bund!Release, BundlesInv, ImportsRight
  <2>2. QED
    BY <1>5, <2>1, ImportBecomes DEF Bund!Release, Bund!At, Bund!Phases
<1>6. ASSUME Bund!Look(n) PROVE BundlesInv'
  BY <1>6, ImportBecomes DEF Bund!Look, Bund!At, Bund!Phases, Bund!Same
<1>7. QED
  BY <1>1, <1>2, <1>3, <1>4, <1>5, <1>6

LEMMA CopySafe ==
  ASSUME BundlesInv, NEW n \in Importers, NEW f \in FileNames, Bund!Copy(n, f)
  PROVE  BundlesInv'
<1> PICK j : j = [job[n] EXCEPT !.copied = job[n].copied \union {f}]
  OBVIOUS
<1>a. job[n] \in ImportJob /\ job[n].at = "copy"
  BY DEF BundlesInv, Bund!Copy, Bund!At
<1>1. job' = [job EXCEPT ![n] = j]
  BY <1>a DEF Bund!Copy, ImportJob
<1>2. j \in ImportJob /\ j.at = "copy"
  BY <1>a DEF ImportJob
<1>3. UNCHANGED <<bundleTarget, touched, spoiled>>
  BY DEF Bund!Copy
<1>4. QED
  BY <1>1, <1>2, <1>3, ImportMoves

(* The rename puts the whole copy where nothing was.                       *)
LEMMA ImportPublishSafe ==
  ASSUME BundlesInv, NEW n \in Importers, Bund!Publish(n)
  PROVE  BundlesInv'
<1>1. job[n] # Idle /\ job[n].copied = FileNames
  BY DEF Bund!Publish, BundlesInv, ImportsRight, Bund!At
<1>2. CASE bundleTarget = {}
  <2> PICK j : j = [job[n] EXCEPT !.at = "release"]
    OBVIOUS
  <2>1. job[n] \in ImportJob
    BY <1>1 DEF BundlesInv
  <2>2. j \in ImportJob /\ j.at = "release" /\ job' = [job EXCEPT ![n] = j]
    BY <1>2, <2>1 DEF Bund!Publish, Bund!Become, ImportJob, Bund!Phases
  <2>3. bundleTarget' = FileNames /\ spoiled' = FALSE /\ touched' = touched
    BY <1>1, <1>2 DEF Bund!Publish
  <2>4. /\ job' \in [Importers -> {Idle} \union ImportJob] /\ job'[n] = j
        /\ \A m \in Importers : m # n => job'[m] = job[m]
    BY <2>2 DEF BundlesInv
  <2>5. ASSUME NEW m \in Importers PROVE ImportsRight(m)'
    BY <2>2, <2>3, <2>4 DEF BundlesInv, ImportsRight, Bund!At
  <2>6. QED
    BY <2>3, <2>4, <2>5 DEF BundlesInv
<1>3. CASE bundleTarget # {}
  BY <1>1, <1>3, ImportBecomes DEF Bund!Publish, Bund!Phases
<1>4. QED
  BY <1>2, <1>3

LEMMA LeaveImportSafe == ASSUME BundlesInv, NEW n \in Importers, Bund!Leave(n) PROVE BundlesInv'
BY ImportMoves DEF Bund!Leave

LEMMA PeopleSafe == ASSUME BundlesInv, Bund!RemoveLock \/ Bund!Touch PROVE BundlesInv'
<1>1. ASSUME Bund!RemoveLock PROVE BundlesInv'
  BY <1>1 DEF Bund!RemoveLock, BundlesInv, ImportsRight, Bund!At
<1>2. ASSUME Bund!Touch PROVE BundlesInv'
  <2>1. touched' \in Nat /\ touched' # 0 /\ job' = job
    BY <1>2 DEF Bund!Touch, BundlesInv
  <2>2. ~spoiled' => bundleTarget' \in {{}, FileNames}
    BY <1>2 DEF Bund!Touch
  <2>3. \A n \in Importers : ImportsRight(n)'
    BY <2>1 DEF BundlesInv, ImportsRight, Bund!At
  <2>4. QED
    BY <2>1, <2>2, <2>3 DEF BundlesInv
<1>3. QED
  BY <1>1, <1>2

(* Whoever dies, and whoever removes a lock that was in use: the whole     *)
(* bundle is at the address, or nothing (bundles.py import_bundle), for    *)
(* any number of files and of imports.                                     *)
THEOREM ImportedWholeHolds == Bund!BundlesSpec => []Bund!ImportedWhole
<1>1. Bund!BundlesInit => BundlesInv
  BY DEF Bund!BundlesInit, BundlesInv, ImportsRight, Bund!At
<1>2. BundlesInv /\ [Bund!BundlesNext]_Bund!bundleVars => BundlesInv'
  <2>1. BundlesInv /\ Bund!BundlesNext => BundlesInv'
    BY StageSafe, PhasesPassedSafe, CopySafe, ImportPublishSafe, LeaveImportSafe, PeopleSafe
       DEF Bund!BundlesNext
  <2>2. BundlesInv /\ UNCHANGED Bund!bundleVars => BundlesInv'
    BY DEF Bund!bundleVars, BundlesInv, ImportsRight, Bund!At
  <2>3. QED
    BY <2>1, <2>2
<1>3. BundlesInv => Bund!ImportedWhole
  BY DEF BundlesInv, Bund!ImportedWhole, ImportsRight
<1>4. QED
  BY <1>1, <1>2, <1>3, PTL DEF Bund!BundlesSpec

ImportsTyped ==
    /\ bundleTarget \subseteq FileNames /\ touched \in 0..MaxTouched /\ spoiled \in BOOLEAN
    /\ bundleLock \in Importers \union {Unheld}
    /\ job \in [Importers -> {Idle} \union ImportJob]

LEMMA ImportTyped ==
  ASSUME ImportsTyped, NEW n \in Importers, NEW phase \in Bund!Phases, job[n] # Idle,
         Bund!Become(n, phase)
  PROVE  job' \in [Importers -> {Idle} \union ImportJob]
<1> PICK j : j = [job[n] EXCEPT !.at = phase]
  OBVIOUS
<1>1. j \in ImportJob
  BY DEF ImportsTyped, ImportJob
<1>2. job' = [job EXCEPT ![n] = j]
  BY DEF Bund!Become
<1>3. QED
  BY <1>1, <1>2 DEF ImportsTyped

LEMMA ImportStepTyped ==
  ASSUME ImportsTyped, NEW n \in Importers,
         \/ Bund!Acquire(n) \/ Bund!GiveUp(n) \/ Bund!Look(n) \/ Bund!Copied(n) \/ Bund!Publish(n)
         \/ Bund!Clean(n) \/ Bund!Release(n)
  PROVE  ImportsTyped'
<1>1. ASSUME NEW phase \in Bund!Phases, job[n] # Idle, Bund!Become(n, phase)
      PROVE job' \in [Importers -> {Idle} \union ImportJob]
  BY <1>1, ImportTyped
<1>2. job' \in [Importers -> {Idle} \union ImportJob]
  BY <1>1 DEF Bund!Acquire, Bund!GiveUp, Bund!Look, Bund!Copied, Bund!Publish, Bund!Clean,
              Bund!Release, Bund!At, Bund!Phases
<1>3. bundleLock' \in Importers \union {Unheld}
  BY DEF Bund!Acquire, Bund!GiveUp, Bund!Look, Bund!Copied, Bund!Publish, Bund!Clean,
         Bund!Release, ImportsTyped
<1>4. job[n].copied \subseteq FileNames \/ ~Bund!Publish(n)
  BY DEF Bund!Publish, Bund!At, ImportsTyped, ImportJob
<1>5. bundleTarget' \subseteq FileNames /\ spoiled' \in BOOLEAN /\ touched' = touched
  BY <1>4 DEF Bund!Acquire, Bund!GiveUp, Bund!Look, Bund!Copied, Bund!Publish, Bund!Clean,
              Bund!Release, ImportsTyped
<1>6. QED
  BY <1>2, <1>3, <1>5 DEF ImportsTyped

(* The types of what is at the address, of the lock and of the imports.    *)
THEOREM BundlesTypes == BundlesHyp => (Bund!BundlesSpec => []Bund!BundlesTypeOK)
<1> SUFFICES ASSUME BundlesHyp PROVE Bund!BundlesSpec => []Bund!BundlesTypeOK
  OBVIOUS
<1>1. Bund!BundlesInit => ImportsTyped
  <2>1. 0 \in 0..MaxTouched
    BY DEF BundlesHyp
  <2>2. QED
    BY <2>1, Zenon DEF Bund!BundlesInit, ImportsTyped
<1>2. ImportsTyped /\ [Bund!BundlesNext]_Bund!bundleVars => ImportsTyped'
  <2>1. ASSUME ImportsTyped, NEW n \in Importers, Bund!Stage(n) PROVE ImportsTyped'
    <3>1. PICK j \in {Bund!Staged, [Bund!Staged EXCEPT !.at = "refused"]} : job' = [job EXCEPT ![n] = j]
      BY <2>1 DEF Bund!Stage
    <3>2. j \in ImportJob
      BY DEF Bund!Staged, ImportJob, Bund!Phases
    <3>3. QED
      BY <2>1, <3>1, <3>2 DEF Bund!Stage, ImportsTyped
  <2>2. ASSUME ImportsTyped, NEW n \in Importers, NEW f \in FileNames, Bund!Copy(n, f)
        PROVE ImportsTyped'
    <3> PICK j : j = [job[n] EXCEPT !.copied = job[n].copied \union {f}]
      OBVIOUS
    <3>1. job[n] \in ImportJob
      BY <2>2 DEF ImportsTyped, Bund!Copy, Bund!At
    <3>2. j \in ImportJob /\ job' = [job EXCEPT ![n] = j]
      BY <2>2, <3>1 DEF ImportJob, Bund!Copy
    <3>3. QED
      BY <2>2, <3>2 DEF Bund!Copy, ImportsTyped
  <2>3. ASSUME ImportsTyped, NEW n \in Importers, Bund!Leave(n) PROVE ImportsTyped'
    BY <2>3 DEF Bund!Leave, ImportsTyped
  <2>4. ASSUME ImportsTyped, Bund!RemoveLock \/ Bund!Touch PROVE ImportsTyped'
    <3>1. touched' \in 0..MaxTouched
      BY <2>4 DEF Bund!RemoveLock, Bund!Touch, ImportsTyped, BundlesHyp
    <3>2. bundleTarget' \subseteq FileNames /\ spoiled' \in BOOLEAN
      BY <2>4, Zenon DEF Bund!RemoveLock, Bund!Touch, ImportsTyped
    <3>3. bundleLock' \in Importers \union {Unheld} /\ job' = job
      BY <2>4, Zenon DEF Bund!RemoveLock, Bund!Touch, ImportsTyped
    <3>4. QED
      BY <2>4, <3>1, <3>2, <3>3 DEF ImportsTyped
  <2>5. ImportsTyped /\ Bund!BundlesNext => ImportsTyped'
    BY <2>1, <2>2, <2>3, <2>4, ImportStepTyped DEF Bund!BundlesNext
  <2>6. ImportsTyped /\ UNCHANGED Bund!bundleVars => ImportsTyped'
    BY DEF Bund!bundleVars, ImportsTyped
  <2>7. QED
    BY <2>5, <2>6
<1>3. ImportsTyped => Bund!BundlesTypeOK
  BY DEF ImportsTyped, Bund!BundlesTypeOK, ImportJob
<1>4. QED
  BY <1>1, <1>2, <1>3, PTL DEF Bund!BundlesSpec

-----------------------------------------------------------------------------
(* On the row MCToolkit runs: the subject is chosen once, and a behaviour  *)
(* of the group is then one of that component.                             *)

LEMMA LedgerChosen ==
  EvidenceSpec => \/ [](~(subject = "ledger"))
                  \/ [](subject = "ledger") /\ Ledg!LedgerSpec
<1>1. EvidenceInit /\ subject = "ledger" => Ledg!LedgerInit
  BY DEF EvidenceInit
<1>2. subject = "ledger" /\ [EvidenceNext]_vars =>
          (subject = "ledger")' /\ [Ledg!LedgerNext]_Ledg!ledgerVars
  BY DEF EvidenceNext, Rest11, vars, pool, Ledg!ledgerVars
<1>3. ~(subject = "ledger") /\ [EvidenceNext]_vars => (~(subject = "ledger"))'
  BY DEF EvidenceNext, vars, Rest5, Rest9, Rest11
<1>4. QED
  BY <1>1, <1>2, <1>3, PTL DEF EvidenceSpec, Ledg!LedgerSpec

LEMMA WorkspacesChosen ==
  EvidenceSpec => \/ [](~(subject = "workspaces"))
                  \/ [](subject = "workspaces") /\ Work!WorkspacesSpec
<1>1. EvidenceInit /\ subject = "workspaces" => Work!WorkspacesInit
  BY DEF EvidenceInit
<1>2. subject = "workspaces" /\ [EvidenceNext]_vars =>
          (subject = "workspaces")' /\ [Work!WorkspacesNext]_Work!workspaceVars
  BY DEF EvidenceNext, Rest9, vars, pool, Work!workspaceVars
<1>3. ~(subject = "workspaces") /\ [EvidenceNext]_vars => (~(subject = "workspaces"))'
  BY DEF EvidenceNext, vars, Rest5, Rest9, Rest11
<1>4. QED
  BY <1>1, <1>2, <1>3, PTL DEF EvidenceSpec, Work!WorkspacesSpec

LEMMA SessionsChosen ==
  EvidenceSpec => \/ [](~(subject = "sessions"))
                  \/ [](subject = "sessions") /\ Sess!SessionsSpec
<1>1. EvidenceInit /\ subject = "sessions" => Sess!SessionsInit
  BY DEF EvidenceInit
<1>2. subject = "sessions" /\ [EvidenceNext]_vars =>
          (subject = "sessions")' /\ [Sess!SessionsNext]_Sess!sessionVars
  BY DEF EvidenceNext, Rest11, vars, pool, Sess!sessionVars
<1>3. ~(subject = "sessions") /\ [EvidenceNext]_vars => (~(subject = "sessions"))'
  BY DEF EvidenceNext, vars, Rest5, Rest9, Rest11
<1>4. QED
  BY <1>1, <1>2, <1>3, PTL DEF EvidenceSpec, Sess!SessionsSpec

LEMMA RelocChosen ==
  EvidenceSpec => \/ [](~(subject = "relocation"))
                  \/ [](subject = "relocation") /\ Relo!RelocSpec
<1>1. EvidenceInit /\ subject = "relocation" => Relo!RelocInit
  BY DEF EvidenceInit
<1>2. subject = "relocation" /\ [EvidenceNext]_vars =>
          (subject = "relocation")' /\ [Relo!RelocNext]_Relo!relocVars
  BY DEF EvidenceNext, Rest5, vars, pool, Relo!relocVars
<1>3. ~(subject = "relocation") /\ [EvidenceNext]_vars => (~(subject = "relocation"))'
  BY DEF EvidenceNext, vars, Rest5, Rest9, Rest11
<1>4. QED
  BY <1>1, <1>2, <1>3, PTL DEF EvidenceSpec, Relo!RelocSpec

LEMMA BundlesChosen ==
  EvidenceSpec => \/ [](~(subject = "bundles"))
                  \/ [](subject = "bundles") /\ Bund!BundlesSpec
<1>1. EvidenceInit /\ subject = "bundles" => Bund!BundlesInit
  BY DEF EvidenceInit
<1>2. subject = "bundles" /\ [EvidenceNext]_vars =>
          (subject = "bundles")' /\ [Bund!BundlesNext]_Bund!bundleVars
  BY DEF EvidenceNext, Rest5, vars, pool, Bund!bundleVars
<1>3. ~(subject = "bundles") /\ [EvidenceNext]_vars => (~(subject = "bundles"))'
  BY DEF EvidenceNext, vars, Rest5, Rest9, Rest11
<1>4. QED
  BY <1>1, <1>2, <1>3, PTL DEF EvidenceSpec, Bund!BundlesSpec

(* No evidence is destroyed, in any of the five places that EvidenceKept   *)
(* speaks of (runs.py retain_output, workspaces.py, session.py destroy,    *)
(* relocate.py, bundles.py), as long as memos are relocated one at a time. *)
THEOREM ToolkitEvidenceKept == ~MayOverlap => (EvidenceSpec => []EvidenceKept)
<1> SUFFICES ASSUME ~MayOverlap PROVE EvidenceSpec => []EvidenceKept
  OBVIOUS
<1>1. LedgerHyp /\ WorkspacesHyp /\ SessionsHyp /\ RelocHyp
  BY EvidenceAssumption DEF RelocHyp
<1>2. /\ ~(subject = "ledger") \/ Ledg!AuditKept
      /\ ~(subject = "workspaces") \/ Work!EvidenceKept
      /\ ~(subject = "sessions") \/ Sess!SessionEvidenceKept
      /\ ~(subject = "relocation") \/ Relo!EvidenceMoved
      /\ ~(subject = "bundles") \/ Bund!ImportedWhole
      => EvidenceKept
  BY DEF EvidenceKept
<1>3. QED
  BY <1>1, <1>2, LedgerChosen, AuditKeptHolds, WorkspacesChosen, WorkspaceEvidenceKept,
     SessionsChosen, SessionEvidenceKeptHolds, RelocChosen, EvidenceMovedHolds,
     BundlesChosen, ImportedWholeHolds, PTL

(* Only rows core measured and stamped are evidence (runs.py harvest).     *)
THEOREM ToolkitLedgerProven == EvidenceSpec => []LedgerProven
<1>1. LedgerHyp
  BY EvidenceAssumption
<1>2. ~(subject = "ledger") \/ Ledg!LedgerProven => LedgerProven
  BY DEF LedgerProven
<1>3. QED
  BY <1>1, <1>2, LedgerChosen, LedgerProvenHolds, PTL

(* Every variable of the component at hand has its type.                   *)
THEOREM ToolkitEvidenceTypes == EvidenceSpec => []EvidenceTypeOK
<1>1. LedgerHyp /\ WorkspacesHyp /\ SessionsHyp /\ RelocBounds /\ BundlesHyp
  BY EvidenceAssumption
<1>2. /\ ~(subject = "ledger") \/ Ledg!LedgerTypeOK
      /\ ~(subject = "workspaces") \/ Work!WorkspacesTypeOK
      /\ ~(subject = "sessions") \/ Sess!SessionsTypeOK
      /\ ~(subject = "relocation") \/ Relo!RelocTypeOK
      /\ ~(subject = "bundles") \/ Bund!BundlesTypeOK
      => EvidenceTypeOK
  BY DEF EvidenceTypeOK
<1>3. QED
  BY <1>1, <1>2, LedgerChosen, LedgerTypeCorrect, WorkspacesChosen, WorkspacesTypeCorrect,
     SessionsChosen, SessionsTypes, RelocChosen, RelocTypeCorrect,
     BundlesChosen, BundlesTypes, PTL
=============================================================================
