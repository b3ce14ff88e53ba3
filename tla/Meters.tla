-------------------------------- MODULE Meters --------------------------------
(***************************************************************************)
(* What a campaign has consumed, rebuilt from disk (budget.py, usage.py,   *)
(* the tombstones of attempts.py, the charging half of the coordinator).   *)
(*                                                                         *)
(* One run can be on disk four times over: charged on the attempt that     *)
(* reserved it, retained as a row of the run ledger, counted in the        *)
(* iteration's record, or stated on a tombstone.  The readers reconcile    *)
(* these, and must do so between any two writes, since the coordinator may *)
(* die there and its open iteration is in memory only.  Money is on disk in*)
(* the iteration records and in a ledger that several sessions append to.  *)
(***************************************************************************)
EXTENDS Integers, Sequences, FiniteSets, FiniteSetsExt, Functions

CONSTANTS
    Attempts,
    Runs,           \* the measurements that may be made
    Owner,          \* the attempt each one belongs to, or Hand
    Procs,          \* sessions that append to the usage ledger
    RunCeiling,     \* budgets.domain_max_runs
    ClaimCeiling,   \* max_runs of the claim
    MoneyCeiling,   \* policy.spend_ceiling
    MaxRecords,     \* bound: iterations begun
    MaxUsage,       \* bound: rows of the usage ledger
    MaxPaid,        \* bound: model calls
    Absent, Hand, Idle, Unpriced

VARIABLES
    attempt,    \* the record of each attempt
    tombs,      \* the consumption a tombstone states, for archived records
    ledger,     \* the retained measurements
    open,       \* the coordinator's open iteration, in memory
    records,    \* the iteration records
    usage,      \* usage.jsonl
    appending,  \* a row each session has numbered and not written yet
    spent,      \* history: what each attempt was seen to consume
    paid        \* model calls, for the bound

metersVars == <<attempt, tombs, ledger, open, records, usage, appending, spent, paid>>

Nothing == [a \in {} |-> 0]

Fresh == [cost |-> 0, runs |-> 0, ids |-> {}, attempts |-> {}, byEntry |-> Nothing]

Rows(a) == {r \in ledger : Owner[r] = a}

Present == {a \in Attempts : attempt[a] # Absent}

(* What the records of these attempts charge.                              *)
Charges(S) == SumFunction([a \in S |-> attempt[a].charged])

Legacy == {a \in Present : attempt[a].state = "legacy"}

MetersTypeOK ==
    /\ \A a \in Present : /\ attempt[a].state \in {"active", "settled", "legacy"}
                          /\ attempt[a].charged \in 0..Cardinality(Runs) + 1
                          /\ attempt[a].links \subseteq Runs
    /\ ledger \subseteq Runs
    /\ open = Idle \/ open.ids \subseteq Runs
    /\ Len(records) <= MaxRecords /\ Len(usage) <= MaxUsage
    /\ paid \in 0..MaxPaid

(* An attempt record an older version wrote may be there from the start.   *)
MetersInit ==
    /\ attempt \in [Attempts -> {Absent, [state |-> "legacy", charged |-> 0, links |-> {}]}]
    /\ Cardinality(Legacy) <= 1
    /\ tombs = Nothing /\ ledger = {} /\ open = Idle /\ records = <<>>
    /\ usage = <<>> /\ appending = [p \in Procs |-> Idle]
    /\ spent = [a \in Attempts |-> 0] /\ paid = 0

-----------------------------------------------------------------------------
(* recorded_run_overlap(): rows an iteration already counted, each once, a *)
(* record's share bounded by what the record says it consumed.             *)
Overlap(unlinked) ==
    LET seen(n) == UNION {records[m].ids : m \in 1..(n - 1)}
        share(n) == Cardinality((unlinked \cap records[n].ids) \ seen(n))
    IN  SumFunction([n \in DOMAIN records |->
                        IF share(n) <= records[n].runs THEN share(n) ELSE records[n].runs])

(* A record that names its attempts is discounted by what they charge, up  *)
(* to its own figure; an attempt is discounted once.                       *)
Discount ==
    LET seen(n) == UNION {records[m].attempts : m \in 1..(n - 1)}
        charge(n) == Charges((records[n].attempts \cap Present) \ seen(n))
    IN  SumFunction([n \in DOMAIN records |->
                        IF charge(n) <= records[n].runs THEN charge(n) ELSE records[n].runs])

(* tombstones(): what they state is counted as stated.                     *)
Stated == SumFunction(tombs)

Linked == UNION {attempt[a].links : a \in Present}

(* Every figure on disk, before anything counted twice is taken off.       *)
Gross ==
    Charges(Present) + Cardinality(ledger \ Linked) + Stated
    + SumFunction([n \in DOMAIN records |-> records[n].runs])

(* Fault: rows an attempt links are discounted from the reports as well.   *)
TotalRunsAnyRow == Gross - Overlap(ledger) - Discount

(* total_runs().                                                           *)
TotalRuns == Gross - Overlap(ledger \ Linked) - Discount

(* recorded_runs_by_entry(), for the one claim all attempts are under.     *)
Reported ==
    SumFunction([n \in DOMAIN records |-> SumFunction(records[n].byEntry)])

(* claim_runs(): what its attempts charge, and the larger of the reports   *)
(* no attempt charges and the rows no attempt links.                       *)
ClaimRuns ==
    LET named    == SumFunction([n \in DOMAIN records |->
                                    Charges(records[n].attempts \cap Present)])
        observed == Cardinality({r \in ledger \ Linked : Owner[r] # Hand})
    IN  Charges(Present) + Max({Reported - named, observed})

(* effective(): a correction replaces its target's cost.                   *)
Price(n) ==
    LET fixes == {m \in DOMAIN usage : usage[m].target = n}
    IN  IF fixes = {} THEN usage[n].cost
        ELSE usage[CHOOSE m \in fixes : \A k \in fixes : k <= m].cost

Originals == {n \in DOMAIN usage : usage[n].target = 0}

(* rows(): a line that does not carry its own number refuses the ledger.   *)
UsageReadable == \A n \in DOMAIN usage : usage[n].line = n

(* recorded_usage()["money"]: known only when every row has a price.       *)
MoneyKnown == \A n \in Originals : Price(n) # Unpriced

Money ==
    SumFunction([n \in DOMAIN records |-> records[n].cost])
    + SumFunction([n \in Originals |-> Price(n)])

(* What a metered verb needs before it starts: records it can read.        *)
Readable == Legacy = {} /\ UsageReadable

-----------------------------------------------------------------------------
KeepUsage == UNCHANGED <<usage, appending>>

BeginIteration ==
    /\ open = Idle /\ Len(records) < MaxRecords
    /\ open' = Fresh
    /\ UNCHANGED <<attempt, tombs, ledger, records, spent, paid>> /\ KeepUsage

(* reserve(): the ceilings are read back from disk, money included.        *)
Reserve(a) ==
    /\ open # Idle /\ attempt[a] = Absent /\ a \notin DOMAIN tombs
    /\ Readable /\ MoneyKnown /\ Money < MoneyCeiling
    /\ ClaimRuns + 1 <= ClaimCeiling /\ TotalRuns + 1 <= RunCeiling
    /\ attempt' = [attempt EXCEPT ![a] = [state |-> "active", charged |-> 1, links |-> {}]]
    /\ open' = [open EXCEPT !.attempts = @ \union {a}]
    /\ spent' = [spent EXCEPT ![a] = 1]
    /\ UNCHANGED <<tombs, ledger, records, paid>> /\ KeepUsage

(* _ask() and _charge(): refused without money; what a reply cost is on the*)
(* iteration in memory.                                                    *)
Charge ==
    /\ open # Idle /\ paid < MaxPaid
    /\ MoneyKnown /\ Money + open.cost < MoneyCeiling
    /\ open' = [open EXCEPT !.cost = @ + 1] /\ paid' = paid + 1
    /\ UNCHANGED <<attempt, tombs, ledger, records, spent>> /\ KeepUsage

(* An attempt of the open iteration whose worker is not accounted for yet. *)
Working(a) == open # Idle /\ a \in open.attempts /\ a \notin DOMAIN open.byEntry

(* harvest() keeps a row; a row measured by hand has no attempt.           *)
Retain(r) ==
    /\ r \notin ledger /\ (Owner[r] = Hand \/ Working(Owner[r]))
    /\ ledger' = ledger \union {r}
    /\ UNCHANGED <<attempt, tombs, open, records, spent, paid>> /\ KeepUsage

(* The larger of the worker's figure, what was appended, and one.          *)
Attribute(a) ==
    /\ Working(a)
    /\ \E n \in {Cardinality(Rows(a)), Cardinality(Rows(a)) + 1} \ {0} :
        /\ open' = [open EXCEPT !.runs = @ + n, !.ids = @ \union Rows(a),
                                !.byEntry = [b \in DOMAIN @ \union {a} |->
                                                IF b = a THEN n ELSE @[b]]]
        /\ spent' = [spent EXCEPT ![a] = n]
    /\ UNCHANGED <<attempt, tombs, ledger, records, paid>> /\ KeepUsage

(* settle(): the rows are linked, or the receipt is refused and the attempt*)
(* settles as failed, its consumption charged without them.                *)
Settle(a) ==
    /\ open # Idle /\ a \in DOMAIN open.byEntry /\ attempt[a].state = "active"
    /\ \E links \in {Rows(a), {}} :
        attempt' = [attempt EXCEPT ![a] = [state |-> "settled", links |-> links,
                                           charged |-> open.byEntry[a]]]
    /\ UNCHANGED <<tombs, ledger, open, records, spent, paid>> /\ KeepUsage

(* _record(): one atomic write, after every worker was settled.            *)
Record ==
    /\ open # Idle
    /\ \A a \in open.attempts : attempt[a].state = "settled"
    /\ records' = Append(records, open) /\ open' = Idle
    /\ UNCHANGED <<attempt, tombs, ledger, spent, paid>> /\ KeepUsage

CoordinatorDies ==
    /\ open # Idle /\ open' = Idle
    /\ UNCHANGED <<attempt, tombs, ledger, records, spent, paid>> /\ KeepUsage

(* `ar attempt checkpoint --confirm-inactive`: the reserved runs stand.    *)
CancelAttempt(a) ==
    /\ open = Idle /\ a \in Present /\ attempt[a].state = "active"
    /\ attempt' = [attempt EXCEPT ![a].state = "settled"]
    /\ UNCHANGED <<tombs, ledger, open, records, spent, paid>> /\ KeepUsage

(* reconcile(): the tombstone states a consumption ...                     *)
Archive(a) ==
    /\ a \in Legacy
    /\ \E n \in {0, 1} : tombs' = [b \in DOMAIN tombs \union {a} |->
                                      IF b = a THEN n ELSE tombs[b]]
    /\ UNCHANGED <<attempt, ledger, open, records, spent, paid>> /\ KeepUsage

(* ... and the record goes.  A death in between leaves both, and the record*)
(* keeps refusing every metered verb until the archiving is run again.     *)
UnlinkRecord(a) ==
    /\ a \in Legacy \cap DOMAIN tombs
    /\ attempt' = [attempt EXCEPT ![a] = Absent]
    /\ spent' = [spent EXCEPT ![a] = tombs[a]]
    /\ UNCHANGED <<tombs, ledger, open, records, paid>> /\ KeepUsage

(* usage.append(): the row takes the number of the next line ...           *)
NumberRow(p) ==
    /\ appending[p] = Idle /\ Len(usage) < MaxUsage
    /\ \/ \E c \in {1, Unpriced} :
            appending' = [appending EXCEPT ![p] =
                             [line |-> Len(usage) + 1, cost |-> c, target |-> 0]]
       \/ UsageReadable /\ \E n \in Originals :
            appending' = [appending EXCEPT ![p] =
                             [line |-> Len(usage) + 1, cost |-> 1, target |-> n]]
    /\ UNCHANGED <<attempt, tombs, ledger, open, records, usage, spent, paid>>

(* ... and is written after whatever was written meanwhile.                *)
WriteRow(p) ==
    /\ appending[p] # Idle /\ Len(usage) < MaxUsage
    /\ usage' = Append(usage, appending[p])
    /\ appending' = [appending EXCEPT ![p] = Idle]
    /\ UNCHANGED <<attempt, tombs, ledger, open, records, spent, paid>>

MetersNext ==
    \/ BeginIteration \/ Charge \/ Record \/ CoordinatorDies
    \/ \E a \in Attempts : Reserve(a) \/ Attribute(a) \/ Settle(a) \/ CancelAttempt(a)
                           \/ Archive(a) \/ UnlinkRecord(a)
    \/ \E r \in Runs : Retain(r)
    \/ \E p \in Procs : NumberRow(p) \/ WriteRow(p)

MetersSpec == MetersInit /\ [][MetersNext]_metersVars

-----------------------------------------------------------------------------
Observed(a) == IF spent[a] >= Cardinality(Rows(a)) THEN spent[a] ELSE Cardinality(Rows(a))

Consumed == SumFunction([a \in Attempts |-> Observed(a)]) + Cardinality(Rows(Hand))

(* The meters never say less than was consumed: between any two writes of  *)
(* a dispatch, after the coordinator died at any of them, with receipts    *)
(* refused and records archived, no run leaves the campaign's total or the *)
(* claim's (budget.py total_runs, claim_runs: "a budget that under-counts  *)
(* does not stop").  And once everything reserved is settled and recorded  *)
(* the total is exact: a run on disk as a charge, a row and a report is    *)
(* counted once.                                                           *)
TotalsExact ==
    /\ Legacy = {} =>
        /\ TotalRuns >= Consumed
        /\ ClaimRuns >= SumFunction([a \in Present |-> Observed(a)])
    /\ (/\ Legacy = {} /\ open = Idle
        /\ \A a \in Present : \E n \in DOMAIN records : a \in records[n].attempts)
            => TotalRuns = Consumed
=============================================================================
