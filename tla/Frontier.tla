------------------------------ MODULE Frontier ------------------------------
(***************************************************************************)
(* What counts as a win: rows measured in an epoch (epochs.py), the best   *)
(* of them beyond noise and suspicion (noise.py, runs.py), the held-out    *)
(* check (holdout.py), the acceptance gates (gates.py) and the decision to *)
(* stop that reads them all (budget.py should_stop, loop run_iteration).   *)
(*                                                                         *)
(* The decision is not one step: the best row is read, the held-out data   *)
(* is perhaps consulted by a command that takes its time, and then gates   *)
(* and confirmations are read.  Rows land, gates change and the epoch turns*)
(* in between, in several processes.  A configuration is filed under one   *)
(* entry; values are better when larger.                                   *)
(***************************************************************************)
EXTENDS Naturals, Sequences, FiniteSets, FiniteSetsExt

CONSTANTS
    Configs,        \* configurations, each measured under an entry of its own
    Measurements,   \* [config, value, source]: a source is a slot or proven claim
    Outside,        \* of them: rows of a scaffold, benches, rows outside a goal constraint
    Target,
    Procs,
    Grouped,        \* a noise method is declared: rows group by configuration
    Floor,          \* noise.k * noise.sigma, when Grouped
    Factor,         \* suspect.k
    Cap,            \* holdout.max_consults
    ConfirmRuns,    \* coordinator.confirm_runs
    MaxRows, MaxEpoch, MaxPromoted,     \* bounds
    Unclaimed, None

VARIABLES
    held,       \* a held-out check is declared; otherwise goal.confirm_independently
    epoch,      \* of the evaluator and the benchmark
    rows,       \* the ledger, in the order the runs started
    promoted,   \* rows a person released
    passed,     \* entries whose required gates passed
    confirmed,  \* entries closed as confirmed
    consults,   \* the held-out ledger
    stop,       \* where each process is in its decision
    wins        \* the rows `goal-met` was decided on

frontierVars == <<held, epoch, rows, promoted, passed, confirmed, consults, stop, wins>>

Outcomes == {"pass", "fail", "error"}

FrontierTypeOK ==
    /\ held \in BOOLEAN /\ epoch \in 0..MaxEpoch /\ wins \subseteq DOMAIN rows
    /\ \A i \in DOMAIN rows : rows[i].of \in Measurements /\ rows[i].epoch \in 0..epoch
    /\ promoted \subseteq DOMAIN rows /\ confirmed \subseteq Configs /\ passed \subseteq Configs
    /\ \A i \in DOMAIN consults :
        consults[i] \in [epoch : 0..MaxEpoch, config : Configs, said : Outcomes]
    /\ \A p \in Procs : stop[p] = None \/ stop[p].best \in DOMAIN rows

FrontierInit ==
    /\ held \in BOOLEAN /\ epoch = 0 /\ rows = <<>> /\ promoted = {} /\ passed = {} /\ confirmed = {}
    /\ consults = <<>> /\ stop = [p \in Procs |-> None] /\ wins = {}

-----------------------------------------------------------------------------
(* current_rows(): a row belongs to the epoch it was stamped with.         *)
CurrentRows == {i \in DOMAIN rows : rows[i].epoch = epoch}

(* exclusion_reason(): real numbers that are no findings.                  *)
Excluded(i) == rows[i].of \in Outside

Eligible == {i \in CurrentRows : ~Excluded(i)}

(* source_of(): what tells two executions apart; an unclaimed row has none.*)
Sources(R) == {rows[i].of.source : i \in R} \ {Unclaimed}

SameConfig(R, i) == {j \in R : rows[j].of.config = rows[i].of.config}

(* Units in order of first appearance: configuration groups under a noise  *)
(* method, single rows without.                                            *)
Unit(R, i) == IF Grouped THEN SameConfig(R, i) ELSE {i}

Units(R) == {Unit(R, i) : i \in R}

(* The row a unit stands on: the median, the worse of two middle rows.     *)
Representative(u) ==
    CHOOSE i \in u : Cardinality({j \in u : \/ rows[j].of.value < rows[i].of.value
                                            \/ rows[j].of.value = rows[i].of.value /\ j < i})
                     = (Cardinality(u) - 1) \div 2

Value(u) == rows[Representative(u)].of.value

(* _floor(): there is one to read under a noise method only.               *)
NoiseFloor == IF Grouped THEN Floor ELSE 0

(* compare(): a gain counts when it clears the floor.                      *)
ClearsNoise(gain) == Grouped => gain > Floor

(* _suspicion(): too large against the floor or, with none, against the    *)
(* largest step accepted so far; the first step is not judged.             *)
Suspicious(gain, step) ==
    IF NoiseFloor > 0 THEN gain > Factor * NoiseFloor
    ELSE step > 0 /\ gain > Factor * step

(* Fault: the original is not counted among the sources.                  *)
ReleasedByThird(R, free, u, beaten) ==
    \/ u \intersect free # {}
    \/ Cardinality(Sources({i \in SameConfig(R, Representative(u)) : rows[i].of.value > beaten})) > 2

(* _released(): two sources each measured it beating what it was held      *)
(* against, or it is free: a person promoted it.                           *)
Released(R, free, u, beaten) ==
    \/ u \intersect free # {}
    \/ Cardinality(Sources({i \in SameConfig(R, Representative(u)) : rows[i].of.value > beaten})) >= 2

(* admit(): the walk over the units, and the settling pass after it, that  *)
(* judges again what an earlier incumbent held.                            *)
Displace(R, free, acc, u) ==
    LET gain == Value(u) - Value(acc.best)
    IN  IF acc.best = {} THEN [acc EXCEPT !.best = u]
        ELSE IF Value(u) <= Value(acc.best) \/ ~ClearsNoise(gain) THEN acc
        ELSE IF Suspicious(gain, acc.step) /\ ~Released(R, free, u, Value(acc.best))
        THEN [acc EXCEPT !.suspect = @ \union u]
        ELSE [acc EXCEPT !.best = u, !.step = IF gain > @ THEN gain ELSE @]

NoUnit == [best |-> {}, step |-> 0, suspect |-> {}]

(* A unit is judged at its first row.                                      *)
Judge(R, free, acc, n) ==
    IF n \in R /\ n = Min(Unit(R, n)) THEN Displace(R, free, acc, Unit(R, n)) ELSE acc

Walk(R, free) ==
    LET walk[n \in 0..Len(rows)] ==
            IF n = 0 THEN NoUnit ELSE Judge(R, free, walk[n - 1], n)
    IN  walk[Len(rows)]

Better(R, acc) ==
    {u \in Units(R) : /\ u \intersect acc.suspect = {}
                      /\ Value(u) > Value(acc.best) /\ ClearsNoise(Value(u) - Value(acc.best))}

Settle(R, free, acc) ==
    IF ~Grouped \/ Better(R, acc) = {} THEN acc
    ELSE Displace(R, free, acc,
                  CHOOSE u \in Better(R, acc) : \A v \in Better(R, acc) : Value(v) <= Value(u))

Admit(R, free) ==
    LET settle[n \in 0..Cardinality(Configs)] ==
            IF n = 0 THEN Walk(R, free) ELSE Settle(R, free, settle[n - 1])
    IN  settle[Cardinality(Configs)]

(* frontier(): the one resolver of the best row.                           *)
Best == LET u == Admit(Eligible, promoted).best IN IF u = {} THEN None ELSE Representative(u)

(* is_met(): the objective has reached the target.                         *)
Meets(i) == rows[i].of.value >= Target

(* confirmation_rows(): a row the frontier does not believe is no second   *)
(* measurement of anything.                                                *)
ConfirmationRows == Eligible \ Admit(Eligible, promoted).suspect

(* independent_confirmation(): another source also meets the target.       *)
ConfirmedElsewhere(best) ==
    Sources({i \in ConfirmationRows : Meets(i)}) \ {rows[best].of.source} # {}

(* unmet_required_gates(), of the entry that owns the row.                 *)
GatesPassed(i) == rows[i].of.config \in passed

(* closure_evidence(): that many rows of the entry, of whatever epoch.     *)
Replicated(c) ==
    ConfirmRuns > 1 => Cardinality({i \in DOMAIN rows : rows[i].of.config = c}) >= ConfirmRuns

(* noise_problems(): under a noise method its rows beat what others hold.  *)
BeatsNoise(c) ==
    LET own    == {i \in Eligible : rows[i].of.config = c}
        others == Admit(Eligible \ own, {}).best
    IN  Grouped =>
            /\ own # {}
            /\ others # {} => /\ Value(own) > Value(others)
                              /\ ClearsNoise(Value(own) - Value(others))

(* Fault: a verdict is a verdict, whatever evaluator it was given under.   *)
VerdictsEver(c) == {i \in DOMAIN consults : consults[i].config = c}

(* cached(): what this epoch's ledger says of the configuration ...        *)
Verdicts(c) == {i \in DOMAIN consults : consults[i].config = c /\ consults[i].epoch = epoch}

(* ... of which the last line counts.                                      *)
Said(c) == IF Verdicts(c) = {} THEN None ELSE consults[Max(Verdicts(c))].said

(* Fault: a peek that failed is not counted against the cap.               *)
PeeksAnswered(e) ==
    Cardinality({i \in DOMAIN consults : consults[i].epoch = e /\ consults[i].said # "error"})

(* consults(): every line of the epoch, whatever it says.                  *)
Peeks(e) == Cardinality({i \in DOMAIN consults : consults[i].epoch = e})

-----------------------------------------------------------------------------
KeepDecision == UNCHANGED <<consults, stop, wins>>

(* A run is filed under an entry that is open.                             *)
Measure(m) ==
    /\ Len(rows) < MaxRows /\ m.config \notin confirmed
    /\ rows' = Append(rows, [of |-> m, epoch |-> epoch])
    /\ UNCHANGED <<held, epoch, promoted, passed, confirmed>> /\ KeepDecision

(* The evaluator or the benchmark changes: nothing measured before counts. *)
NewEpoch ==
    /\ epoch < MaxEpoch /\ epoch' = epoch + 1
    /\ UNCHANGED <<held, rows, promoted, passed, confirmed>> /\ KeepDecision

(* `ar promote`: by a person, of any row of the ledger.                    *)
Promote(i) ==
    /\ i \notin promoted /\ Cardinality(promoted) < MaxPromoted /\ promoted' = promoted \union {i}
    /\ UNCHANGED <<held, epoch, rows, passed, confirmed>> /\ KeepDecision

(* `ar gates update`, on an open entry.                                    *)
SetGates(c, P) ==
    /\ c \notin confirmed /\ passed' = P
    /\ UNCHANGED <<held, epoch, rows, promoted, confirmed>> /\ KeepDecision

(* `ar close confirmed`: its gates, rows of its own, and the noise floor.  *)
Confirm(c) ==
    /\ c \in passed /\ Replicated(c) /\ BeatsNoise(c) /\ confirmed' = confirmed \union {c}
    /\ UNCHANGED <<held, epoch, rows, promoted, passed>> /\ KeepDecision

-----------------------------------------------------------------------------
KeepRecord == UNCHANGED <<held, epoch, rows, promoted, passed, confirmed>>

At(p, where) == stop[p] # None /\ stop[p].at = where

(* run_iteration() at its end: the best row; the held-out data is only the *)
(* question when it meets the target.                                      *)
ReadBest(p) ==
    /\ stop[p] = None /\ Best # None /\ Meets(Best)
    /\ stop' = [stop EXCEPT ![p] = [at |-> IF held THEN "holdout" ELSE "decide",
                                    best |-> Best, said |-> None]]
    /\ KeepRecord /\ UNCHANGED <<consults, wins>>

(* stop_reason(): the recorded verdict if there is one; a cap that is spent*)
(* means no verdict.                                                       *)
UseCached(p) ==
    /\ At(p, "holdout")
    /\ LET c == rows[stop[p].best].of.config
       IN  /\ Said(c) # None \/ Peeks(epoch) >= Cap
           /\ stop' = [stop EXCEPT ![p].at = "decide", ![p].said = Said(c)]
    /\ KeepRecord /\ UNCHANGED <<consults, wins>>

(* consult(): one peek, below the cap ...                                  *)
Peek(p) ==
    /\ At(p, "holdout") /\ Said(rows[stop[p].best].of.config) = None
    /\ Peeks(epoch) < Cap
    /\ stop' = [stop EXCEPT ![p].at = "peek"]
    /\ KeepRecord /\ UNCHANGED <<consults, wins>>

(* `ar holdout check`: a verdict that failed to run is asked for again.    *)
Retry(p) ==
    /\ At(p, "holdout") /\ Said(rows[stop[p].best].of.config) = "error"
    /\ Peeks(epoch) < Cap
    /\ stop' = [stop EXCEPT ![p].at = "peek"]
    /\ KeepRecord /\ UNCHANGED <<consults, wins>>

(* _record(): a line of the ledger, under the epoch of the moment.         *)
Line(p, o) == [epoch |-> epoch, said |-> o, config |-> rows[stop[p].best].of.config]

(* ... recorded once the command has run: passed, failed or with an error. *)
RecordPeek(p) ==
    /\ At(p, "peek")
    /\ \E o \in Outcomes :
        /\ consults' = Append(consults, Line(p, o))
        /\ stop' = [stop EXCEPT ![p].at = "decide", ![p].said = o]
    /\ KeepRecord /\ UNCHANGED wins

(* should_stop(): the gates as they are now, and a passing held-out check  *)
(* where one is declared, or a second source where none is.                *)
Win(p) ==
    LET b == stop[p].best
    IN  /\ At(p, "decide") /\ GatesPassed(b)
        /\ IF held THEN stop[p].said = "pass" ELSE ConfirmedElsewhere(b)
        /\ wins' = wins \union {b} /\ stop' = [stop EXCEPT ![p] = None]
        /\ KeepRecord /\ UNCHANGED consults

(* The win is held with its reason, or the process dies.                   *)
GoOn(p) ==
    /\ stop[p] # None /\ stop' = [stop EXCEPT ![p] = None]
    /\ KeepRecord /\ UNCHANGED <<consults, wins>>

FrontierNext ==
    \/ NewEpoch
    \/ \E m \in Measurements : Measure(m)
    \/ \E i \in DOMAIN rows : Promote(i)
    \/ \E c \in Configs : Confirm(c) \/ \E P \in {passed \union {c}, passed \ {c}} : SetGates(c, P)
    \/ \E p \in Procs : \/ ReadBest(p) \/ UseCached(p) \/ Peek(p) \/ Retry(p) \/ RecordPeek(p)
                        \/ Win(p) \/ GoOn(p)

FrontierSpec == FrontierInit /\ [][FrontierNext]_frontierVars

-----------------------------------------------------------------------------
(* A row that beats the best is held as suspect only for want of a second  *)
(* measurement: once two sources have measured its configuration beating   *)
(* the best, in whatever order, it is not held any more (noise.py admit,   *)
(* _released).                                                             *)
ReproducedStands ==
    LET acc == Admit(Eligible, promoted)
    IN  \A i \in acc.suspect :
            Cardinality(Sources({j \in SameConfig(Eligible, i) :
                                    rows[j].of.value > Value(acc.best)})) < 2

(* The held-out data is not searched: peeks are counted whether they passed*)
(* or failed, and the cap is overshot only by peeks that were under way in *)
(* other processes when the last one was recorded (holdout.py consult).    *)
PeeksMetered ==
    \A e \in 0..MaxEpoch :
        Cardinality({i \in DOMAIN consults : consults[i].epoch = e})
            <= Cap + Cardinality(Procs) - 1

(* A win is never the word of one measurement: the held-out data passed the*)
(* configuration under the evaluator of the winning row or a later one, or *)
(* another source measured it as well; the evaluator, the gates and the    *)
(* ledger move while the decision is taken (budget.py should_stop, loop    *)
(* run_iteration, holdout.py cached).                                      *)
WinsBacked ==
    \A w \in wins :
        IF held
        THEN \E i \in DOMAIN consults : /\ consults[i].said = "pass"
                                        /\ consults[i].config = rows[w].of.config
                                        /\ consults[i].epoch >= rows[w].epoch
        ELSE Sources({i \in DOMAIN rows : Meets(i) /\ ~Excluded(i)}) \ {rows[w].of.source} # {}
=============================================================================
