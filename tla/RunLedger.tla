----------------------------- MODULE RunLedger -----------------------------
(***************************************************************************)
(* How a measurement becomes evidence: `ar measure --candidate` from the   *)
(* primary checkout (cli.py), the receipt it leaves outside the slot       *)
(* (evaluator.py) and the harvest that admits rows by that receipt         *)
(* (runs.py).                                                              *)
(*                                                                         *)
(* A worker owns its slot: while `measure` runs, and before and after, it  *)
(* can edit its copy of the evaluator, rewrite the rows it inherited, copy *)
(* a neighbour's row or write one by hand.  A person can change the        *)
(* evaluator in the primary while a run is being scored.  Measure and      *)
(* harvest touch the disk several times each and may die in between; a     *)
(* harvest is then run again.  Digests are the values they digest.         *)
(***************************************************************************)
EXTENDS Naturals, FiniteSets

CONSTANTS
    Slots,      \* workspaces handed out
    Debt,       \* the slots of harness debt: they may change the evaluator
    RunIds,     \* what a measure script may call its run
    MaxEdits,   \* bound: evaluators the primary holds, one after another
    MaxTricks,  \* bound: what workers do to their slots besides measuring
    MaxRuns,    \* bound: measurements begun
    Absent, Idle

VARIABLES
    evaluator,  \* the evaluator of the primary, numbered by edit
    copy,       \* the evaluator each slot holds a copy of, or Edited
    inherited,  \* slots whose inherited rows are as they were handed out
    rows,       \* what each slot appended to its runs file
    measuring,  \* the measurement under way in each slot
    receipt,    \* by run id: the row core recorded, or Absent
    harvest,    \* the harvest under way in each slot
    ledger,     \* rows in the primary's runs directory: [row, from]
    tricks, runs,   \* what the bounds count
    audit       \* the one output path all slots declare: [from, whole], or Absent

ledgerVars == <<evaluator, copy, inherited, rows, measuring, receipt, harvest, ledger, audit,
                tricks, runs>>

Evaluators == 0..MaxEdits

(* A copy the primary never held.                                          *)
Edited == MaxEdits + 1

(* `sha` is what core stamped, `scored` what the command ran with (nobody  *)
(* can read it off a row), `out` whether the row declares the output path. *)
Row == [id : RunIds, slot : Slots, sha : Evaluators, scored : Evaluators,
        forged : BOOLEAN, out : BOOLEAN]

Measuring ==
    [at : {"run"}, sha : Evaluators]
    \union [at : {"score", "receipt", "append"}, sha : Evaluators, row : Row]

LedgerTypeOK ==
    /\ evaluator \in Evaluators /\ tricks \in 0..MaxTricks /\ runs \in 0..MaxRuns
    /\ copy \in [Slots -> Evaluators \union {Edited}] /\ inherited \subseteq Slots
    /\ \A s \in Slots : rows[s] \subseteq Row /\ measuring[s] \in {Idle} \union Measuring
    /\ receipt \in [RunIds -> {Absent} \union Row]
    /\ \A s \in Slots : harvest[s] = Idle \/ harvest[s].todo \subseteq rows[s]
    /\ ledger \subseteq [row : Row, from : Slots]
    /\ audit \in {Absent} \union [from : Slots, whole : BOOLEAN]

LedgerInit ==
    /\ evaluator = 0 /\ copy = [s \in Slots |-> 0] /\ inherited = Slots
    /\ rows = [s \in Slots |-> {}] /\ measuring = [s \in Slots |-> Idle]
    /\ receipt = [i \in RunIds |-> Absent] /\ harvest = [s \in Slots |-> Idle]
    /\ ledger = {} /\ audit = Absent /\ tricks = 0 /\ runs = 0

KeepPrimary == UNCHANGED <<evaluator, receipt, harvest, ledger, audit>>

KeepBounds == UNCHANGED <<tricks, runs>>

Trick == tricks < MaxTricks /\ tricks' = tricks + 1 /\ UNCHANGED runs

KeepSlots == UNCHANGED <<evaluator, copy, inherited, rows, measuring>> /\ KeepBounds

-----------------------------------------------------------------------------
(* What a worker can do with the directory it was handed, and a person with*)
(* the primary.                                                            *)
EditCopy(s) ==
    /\ Trick
    /\ \E v \in {evaluator, Edited} : copy' = [copy EXCEPT ![s] = v]
    /\ UNCHANGED <<inherited, rows, measuring>> /\ KeepPrimary

RewriteInherited(s) ==
    /\ Trick
    /\ inherited' = inherited \ {s} /\ UNCHANGED <<copy, rows, measuring>> /\ KeepPrimary

(* A row that was measured in any slot, appended here as it is or retouched*)
CopyRow(s) ==
    /\ Trick
    /\ \E t \in Slots : \E r \in rows[t] :
        \E f \in BOOLEAN : rows' = [rows EXCEPT ![s] = @ \union {[r EXCEPT !.forged = f]}]
    /\ UNCHANGED <<copy, inherited, measuring>> /\ KeepPrimary

(* A row nobody measured, under whatever id.                               *)
WriteByHand(s) ==
    /\ Trick
    /\ \E i \in RunIds : rows' = [rows EXCEPT ![s] = @ \union
            {[id |-> i, slot |-> s, sha |-> evaluator, scored |-> evaluator,
              forged |-> TRUE, out |-> FALSE]}]
    /\ UNCHANGED <<copy, inherited, measuring>> /\ KeepPrimary

EditEvaluator ==
    /\ evaluator < MaxEdits /\ evaluator' = evaluator + 1 /\ KeepBounds
    /\ UNCHANGED <<copy, inherited, rows, measuring, receipt, harvest, ledger, audit>>

-----------------------------------------------------------------------------
(* drift(): the slot's copy differs from the primary's.                    *)
Differs(s) == copy[s] # evaluator

(* _refuse_evaluator_drift(): may_edit() excuses harness debt.             *)
Drifted(s) == Differs(s) /\ s \notin Debt

Goto(s, m) == measuring' = [measuring EXCEPT ![s] = m]

(* cmd_measure: drift before, then the evaluator's identity, then the run. *)
Measure(s) ==
    /\ measuring[s] = Idle /\ ~Drifted(s)
    /\ runs < MaxRuns /\ runs' = runs + 1 /\ UNCHANGED tricks
    /\ Goto(s, [at |-> "run", sha |-> evaluator])
    /\ UNCHANGED <<copy, inherited, rows>> /\ KeepPrimary

(* The primary's command, in the slot, with what the primary holds by then.*)
Score(s) ==
    /\ measuring[s] # Idle /\ KeepBounds /\ measuring[s].at = "run"
    /\ \E i \in RunIds, o \in BOOLEAN :
        Goto(s, [at |-> "score", sha |-> measuring[s].sha,
                 row |-> [id |-> i, slot |-> s, sha |-> measuring[s].sha,
                          scored |-> evaluator, forged |-> FALSE, out |-> o]])
    /\ UNCHANGED <<copy, inherited, rows>> /\ KeepPrimary

(* Fault: the evaluator is not looked at again after the run.              *)
StampOnce(s) ==
    /\ measuring[s] # Idle /\ KeepBounds /\ measuring[s].at = "score"
    /\ Goto(s, [measuring[s] EXCEPT !.at = "receipt"])
    /\ UNCHANGED <<copy, inherited, rows>> /\ KeepPrimary

(* Drift and identity again: a row scored by something else is dropped.    *)
Stamp(s) ==
    /\ measuring[s] # Idle /\ KeepBounds /\ measuring[s].at = "score"
    /\ Goto(s, IF Drifted(s) \/ evaluator # measuring[s].sha THEN Idle
               ELSE [measuring[s] EXCEPT !.at = "receipt"])
    /\ UNCHANGED <<copy, inherited, rows>> /\ KeepPrimary

(* write_receipt(): created exclusively, so a run id is receipted once; a  *)
(* script that reuses one is refused before its row is written.            *)
WriteReceipt(s) ==
    /\ measuring[s] # Idle /\ KeepBounds /\ measuring[s].at = "receipt"
    /\ LET r == measuring[s].row IN
        IF receipt[r.id] = Absent
        THEN /\ receipt' = [receipt EXCEPT ![r.id] = r]
             /\ Goto(s, [measuring[s] EXCEPT !.at = "append"])
        ELSE Goto(s, Idle) /\ UNCHANGED receipt
    /\ UNCHANGED <<evaluator, copy, inherited, rows, harvest, ledger, audit>>

(* append(): to the slot's runs file.                                      *)
AppendRow(s) ==
    /\ measuring[s] # Idle /\ KeepBounds /\ measuring[s].at = "append"
    /\ rows' = [rows EXCEPT ![s] = @ \union {measuring[s].row}] /\ Goto(s, Idle)
    /\ UNCHANGED <<copy, inherited>> /\ KeepPrimary

MeasureDies(s) ==
    /\ measuring[s] # Idle /\ KeepBounds /\ Goto(s, Idle)
    /\ UNCHANGED <<copy, inherited, rows>> /\ KeepPrimary

-----------------------------------------------------------------------------
(* read_all(): the rows of every file of the primary's runs directory.     *)
ReadAll == {l.row : l \in ledger}

(* snapshot(): every file still begins with the bytes it was handed out    *)
(* with, by size and digest.                                               *)
InheritedKept(s) == s \in inherited

(* harvest(): nothing from a slot that edited the evaluator or rewrote what*)
(* it inherited.  The rows the ledger holds are read once, at the start.   *)
BeginHarvest(s) ==
    /\ harvest[s] = Idle /\ ~Drifted(s) /\ InheritedKept(s)
    /\ harvest' = [harvest EXCEPT ![s] =
           [known |-> ReadAll, todo |-> rows[s], row |-> Idle, output |-> "done"]]
    /\ KeepSlots /\ UNCHANGED <<receipt, ledger, audit>>

(* receipt_problem(): a receipt under that id, of these bytes, for this    *)
(* slot.                                                                   *)
Receipted(s, r) == receipt[r.id] = r /\ r.slot = s

Known(s, r) == \E k \in harvest[s].known : k.id = r.id

(* A row without its receipt, or whose id another row took, is a problem   *)
(* and stays behind; one the ledger already has is passed over.            *)
PassOver(s) ==
    /\ harvest[s] # Idle /\ harvest[s].row = Idle
    /\ \E r \in harvest[s].todo :
        /\ Known(s, r) \/ ~Receipted(s, r)
        /\ harvest' = [harvest EXCEPT ![s].todo = @ \ {r}]
    /\ KeepSlots /\ UNCHANGED <<receipt, ledger, audit>>

TakeRow(s) ==
    /\ harvest[s] # Idle /\ harvest[s].row = Idle
    /\ \E r \in harvest[s].todo :
        /\ ~Known(s, r) /\ Receipted(s, r)
        /\ harvest' = [harvest EXCEPT ![s].todo = @ \ {r}, ![s].row = r,
                            ![s].output = IF r.out THEN "todo" ELSE "done"]
    /\ KeepSlots /\ UNCHANGED <<receipt, ledger, audit>>

Output(s, where) == harvest[s] # Idle /\ harvest[s].row # Idle /\ harvest[s].output = where

(* retain_output(): the declared output is created exclusively ...         *)
OpenOutput(s) ==
    /\ Output(s, "todo") /\ audit = Absent
    /\ audit' = [from |-> s, whole |-> FALSE]
    /\ harvest' = [harvest EXCEPT ![s].output = "open"]
    /\ KeepSlots /\ UNCHANGED <<receipt, ledger>>

(* ... filled ...                                                          *)
FillOutput(s) ==
    /\ Output(s, "open")
    /\ audit' = [from |-> s, whole |-> TRUE]
    /\ harvest' = [harvest EXCEPT ![s].output = "done"]
    /\ KeepSlots /\ UNCHANGED <<receipt, ledger>>

(* Fault: a file of that name is taken for the output.                     *)
SameOutputByName(s) == audit # Absent

(* ... or already there with the same bytes.                               *)
SameOutput(s) == audit = [from |-> s, whole |-> TRUE]

KeepOutput(s) ==
    /\ Output(s, "todo") /\ SameOutput(s)
    /\ harvest' = [harvest EXCEPT ![s].output = "done"]
    /\ KeepSlots /\ UNCHANGED <<receipt, ledger, audit>>

(* Another worker's bytes, or the torn copy of a harvest that died: the row*)
(* is a problem and stays behind.                                          *)
Collide(s) ==
    /\ Output(s, "todo") /\ audit # Absent /\ ~SameOutput(s)
    /\ harvest' = [harvest EXCEPT ![s].row = Idle]
    /\ KeepSlots /\ UNCHANGED <<receipt, ledger, audit>>

(* One file per row, linked into place whole.                              *)
LinkRow(s) ==
    /\ Output(s, "done")
    /\ ledger' = ledger \union {[row |-> harvest[s].row, from |-> s]}
    /\ harvest' = [harvest EXCEPT ![s].row = Idle, ![s].known = @ \union {harvest[s].row}]
    /\ KeepSlots /\ UNCHANGED <<receipt, audit>>

(* The end of a harvest, or the death of its process at any step.          *)
EndHarvest(s) ==
    /\ harvest[s] # Idle /\ harvest' = [harvest EXCEPT ![s] = Idle]
    /\ KeepSlots /\ UNCHANGED <<receipt, ledger, audit>>

LedgerNext ==
    \/ EditEvaluator
    \/ \E s \in Slots :
        \/ EditCopy(s) \/ RewriteInherited(s) \/ CopyRow(s) \/ WriteByHand(s)
        \/ Measure(s) \/ Score(s) \/ Stamp(s) \/ WriteReceipt(s) \/ AppendRow(s)
        \/ MeasureDies(s)
        \/ BeginHarvest(s) \/ PassOver(s) \/ TakeRow(s) \/ OpenOutput(s) \/ FillOutput(s)
        \/ KeepOutput(s) \/ Collide(s) \/ LinkRow(s) \/ EndHarvest(s)

LedgerSpec == LedgerInit /\ [][LedgerNext]_ledgerVars

-----------------------------------------------------------------------------
(* Only toolkit-recorded rows are evidence: what the ledger holds was      *)
(* measured in the slot it came from, is byte for byte what core recorded, *)
(* was scored by the evaluator it is stamped with, and no two rows share an*)
(* id; whoever edited what while it was measured or harvested (cli.py      *)
(* cmd_measure, evaluator.py receipt_problem, runs.py harvest).            *)
LedgerProven ==
    /\ \A l \in ledger : ~l.row.forged /\ l.row.slot = l.from /\ l.row.scored = l.row.sha
    /\ \A l, m \in ledger : l.row.id = m.row.id => l = m

(* A row in the ledger has its whole audit beside it, the one of its own   *)
(* slot, although a harvest can die in the middle of the copy and another  *)
(* worker can name the same path (runs.py retain_output).                  *)
AuditKept ==
    \A l \in ledger : l.row.out => audit = [from |-> l.from, whole |-> TRUE]
=============================================================================
