---------------------------- MODULE Coordination -----------------------------
(* The coordinator's loop on the row, one coordinator that runs alone over *)
(* all the cards or several that share fewer cards and iterations, and the *)
(* meters that say what their iterations consumed.                         *)
EXTENDS ToolkitRow, Integers, FiniteSets

CONSTANTS
    Cards, Coords, Fanout, Spawns, Every, MaxN, MaxStamp,   \* Coordinator
    Single,     \* the coordinator that runs when one does
    Shared,     \* bound: the cards when several run
    MaxShared,  \* bound: iteration numbers when several run
    Metered, MeteredRuns, Owner, Appenders, RunCeiling, ClaimCeiling,       \* Meters
    MoneyCeiling, MaxRecords, MaxUsage, MaxPaid, Hand, Unpriced

Coord == INSTANCE Coordinator WITH
    native <- x1, claim <- x2, aged <- x3, closed <- x4, stamp <- x5, pc <- x6,
    n <- x7, short <- x8, held <- x9, reply <- x10, verdict <- x11,
    spawns <- x12, record <- x13

Met == INSTANCE Meters WITH
    Attempts <- Metered, Runs <- MeteredRuns, Procs <- Appenders,
    attempt <- x1, tombs <- x2, ledger <- x3, open <- x4, records <- x5,
    usage <- x6, appending <- x7, spent <- x8, paid <- x9

(* The other coordinators stay off.                                        *)
OneRuns == \A c \in Coords : c # Single => x6[c] = "off"

(* Nobody takes a card or a number beyond the bounds.                      *)
SeveralRun ==
    /\ \A e \in Cards : e \notin Shared => x2[e] = None /\ x4[e] = None
    /\ \A c \in Coords : x8[c] \subseteq Shared /\ x7[c] <= MaxShared

CoordinationInit ==
    \/ subject \in {"coordinator", "coordinators"} /\ Coord!CoordInit /\ Blank13
    \/ subject = "meters" /\ Met!MetersInit /\ Blank9

CoordinationNext ==
    \/ subject = "coordinator" /\ Coord!CoordNext /\ OneRuns' /\ UNCHANGED Rest13
    \/ subject = "coordinators" /\ Coord!CoordNext /\ SeveralRun' /\ UNCHANGED Rest13
    \/ subject = "meters" /\ Met!MetersNext /\ UNCHANGED Rest9

CoordinationSpec == CoordinationInit /\ [][CoordinationNext]_vars

-----------------------------------------------------------------------------
(* What the proofs ask of None: it is no claim and no verdict.             *)
Claims == [by : Coords \union {Coord!Person}, at : Nat]

NoneIsNone == None \notin Claims \union Coord!Terminal

CoordBounds == MaxN \in Nat /\ MaxStamp \in Nat /\ Spawns \in Nat

(* No worker's figure exceeds the rows it can append by more than one.     *)
Figures == 0..Cardinality(MeteredRuns) + 1

Reports == UNION {[S -> Figures] : S \in SUBSET Metered}

AttemptRecords ==
    [state : {"active", "settled", "legacy"}, charged : Figures, links : SUBSET MeteredRuns]

Iterations ==
    [cost : Nat, runs : Nat, ids : SUBSET MeteredRuns, attempts : SUBSET Metered,
     byEntry : Reports]

UsageRows == [line : Nat, cost : {1, Unpriced}, target : Nat]

(* A measurement is some attempt's or made by hand, the bounds are numbers *)
(* and what stands for "nothing" is none of the values it stands beside.   *)
MetersHyp ==
    /\ IsFiniteSet(Metered) /\ IsFiniteSet(MeteredRuns)
    /\ Owner \in [MeteredRuns -> Metered \union {Hand}] /\ Hand \notin Metered
    /\ MaxRecords \in Nat /\ MaxUsage \in Nat /\ MaxPaid \in Nat
    /\ Absent \notin AttemptRecords /\ Idle \notin Iterations \union UsageRows

ASSUME CoordinationAssumption == NoneIsNone /\ CoordBounds /\ MetersHyp

-----------------------------------------------------------------------------
Coordinating == subject \in {"coordinator", "coordinators"}

CoordinationTypeOK ==
    /\ Coordinating => Coord!CoordTypeOK
    /\ subject = "meters" => Met!MetersTypeOK

(* A recorded iteration holds no card (driver/loop.py qc).                 *)
NoSquat == Coordinating => Coord!NoSquat

(* A card has one verdict (driver/loop.py _apply_verdict).                 *)
OneVerdict == [][Coordinating => Coord!VerdictStands]_vars

(* A ceiling is compared with what was consumed, once (budget.py).         *)
TotalsExact == subject = "meters" => Met!TotalsExact
=============================================================================
