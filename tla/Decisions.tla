------------------------------ MODULE Decisions ------------------------------
(* What is decided, and on what: the next picks, wins and the evidence     *)
(* behind them, hardware worth its money, a target that moves, a core upgraded or put   *)
(* back, the ceiling over every backend and what a member may change of    *)
(* its umbrella.                                                           *)
EXTENDS ToolkitRow, Naturals, FiniteSets

CONSTANTS
    Candidates, ParentOf, Derived, MechanismsOf, Context, Estimates, FiledAt, Remaining,
    MinCalibration, Risk, FanOuts, MaxEvents, MaxVetoes, Unranked,  \* Ranking
    Configs, Measurements, Outside, Target, Judges, Grouped, GainFloor, Factor, Cap,
    ConfirmRuns, MaxRows, MaxEpoch, MaxPromoted, Unclaimed,         \* Frontier
    Classes, Prices, Ratios, Needs, Rates, Hours, Ceilings, Memories,
    Threshold, Base, PerUnit,                                       \* Escalation
    BoardNames, Yukon, Bar, Loop, People, RefreshAge, Ttl, MaxClock, MaxMoves, \* Leaderboard
    MaxPush, Problems, Faults, Named, MaxHandEdits, Partial, Fork,  \* Upgrade
    Threads, Commands, Typesafe, SpendCeiling, MaxCost, Retries, MaxAsks, \* Spending
    RuleLists, Amounts, Currencies, DefaultCurrency, Releases, Broken, TurnedDown \* Inherit

Rank == INSTANCE Ranking WITH
    Entries <- Candidates, Parent <- ParentOf, Tags <- MechanismsOf,
    Prices <- Estimates, Slots <- FanOuts,
    status <- x1, reach <- x2, scoped <- x3, price <- x4, priced <- x5,
    closed <- x6, clock <- x7, ranking <- x8, order <- x9, vetoed <- x10,
    slots <- x11, shortlist <- x12

Fron == INSTANCE Frontier WITH
    Procs <- Judges, Floor <- GainFloor,
    held <- x1, epoch <- x2, rows <- x3, promoted <- x4, passed <- x5,
    confirmed <- x6, consults <- x7, stop <- x8, wins <- x9

Esc == INSTANCE Escalation WITH ask <- x1, answer <- x2

Board == INSTANCE Leaderboard WITH
    Boards <- BoardNames, Refresh <- RefreshAge,
    clock <- x1, moves <- x2, site <- x3, declared <- x4, snapshot <- x5,
    pull <- x6, target <- x7

Upgr == INSTANCE Upgrade WITH
    MaxEdits <- MaxHandEdits,
    head <- x1, core <- x2, named <- x3, own <- x4, memos <- x5, job <- x6,
    last <- x7, edits <- x8

Spend == INSTANCE Spending WITH
    Ceiling <- SpendCeiling,
    ask <- x1, routes <- x2, priced <- x3, spent <- x4, unknown <- x5,
    asks <- x6, paid <- x7, unseen <- x8

Inh == INSTANCE Inherit WITH
    Default <- DefaultCurrency, Refused <- TurnedDown,
    umbrella <- x1, member <- x2, loaded <- x3

DecisionsInit ==
    \/ subject = "ranking" /\ Rank!RankingInit /\ Blank12
    \/ subject = "frontier" /\ Fron!FrontierInit /\ Blank9
    \/ subject = "escalation" /\ Esc!EscalationInit /\ Blank2
    \/ subject = "leaderboard" /\ Board!BoardInit /\ Blank7
    \/ subject = "upgrade" /\ Upgr!UpgradeInit /\ Blank8
    \/ subject = "spending" /\ Spend!SpendingInit /\ Blank8
    \/ subject = "inherit" /\ Inh!InheritInit /\ Blank3

DecisionsNext ==
    \/ subject = "ranking" /\ Rank!RankingNext /\ UNCHANGED Rest12
    \/ subject = "frontier" /\ Fron!FrontierNext /\ UNCHANGED Rest9
    \/ subject = "escalation" /\ Esc!EscalationNext /\ UNCHANGED Rest2
    \/ subject = "leaderboard" /\ Board!BoardNext /\ UNCHANGED Rest7
    \/ subject = "upgrade" /\ Upgr!UpgradeNext /\ UNCHANGED Rest8
    \/ subject = "spending" /\ Spend!SpendingNext /\ UNCHANGED Rest8
    \/ subject = "inherit" /\ Inh!InheritNext /\ UNCHANGED Rest3

DecisionsSpec == DecisionsInit /\ [][DecisionsNext]_vars

-----------------------------------------------------------------------------
(* What the proofs ask of the constants: the bounds are numbers, and what  *)
(* stands for "nothing" is none of the values it stands beside.            *)
RankingHyp == IsFiniteSet(Candidates) /\ FanOuts \subseteq Nat \ {0}

FrontierHyp ==
    /\ IsFiniteSet(Configs) /\ IsFiniteSet(Judges) /\ Judges # {} /\ Cap \in Nat \ {0}
    /\ \A m \in Measurements : m.config \in Configs /\ m.value \in Nat
    /\ None # "pass"

EscalationHyp ==
    /\ IsFiniteSet(Classes) /\ Prices \subseteq Nat /\ Ratios \subseteq Nat /\ Needs \subseteq Nat
    /\ Rates \subseteq Nat /\ Hours \subseteq Nat /\ Ceilings \subseteq Nat

BoardHyp == MaxClock \in Nat /\ RefreshAge \in Nat /\ Ttl \in Nat

UpgradeHyp == MaxPush \in Nat /\ {Partial, Fork} \intersect Upgr!Commits = {}

SpendingHyp ==
    /\ IsFiniteSet(Threads) /\ SpendCeiling \in Nat /\ MaxCost \in Nat /\ Retries \in Nat
    /\ SpendCeiling + Cardinality(Threads) * MaxCost > 0
    /\ Idle \notin [brain : Spend!Brains, posts : 0..Retries]

InheritHyp ==
    /\ Amounts \subseteq Nat /\ Releases \subseteq Nat \ {0}
    /\ {None, Broken} \intersect (Amounts \union Releases) = {}

(* ... and the constants that are handed on are of a kind with the rest.   *)
RankingBounds ==
    MaxEvents \in Nat /\ MaxVetoes \in Nat /\ FiledAt \in [Candidates -> Estimates]

UpgradeBounds ==
    /\ MaxHandEdits \in Nat /\ Named \in BOOLEAN
    /\ Faults \in [Upgr!Commits -> SUBSET Problems]

BoundsHyp ==
    RankingBounds /\ UpgradeBounds /\ MaxEpoch \in Nat /\ MaxMoves \in Nat /\ MaxAsks \in Nat

ASSUME DecisionsAssumption ==
    /\ BoundsHyp /\ RankingHyp /\ FrontierHyp /\ EscalationHyp /\ BoardHyp /\ UpgradeHyp
    /\ SpendingHyp /\ InheritHyp

-----------------------------------------------------------------------------
DecisionsTypeOK ==
    /\ subject = "ranking" => Rank!RankingTypeOK
    /\ subject = "frontier" => Fron!FrontierTypeOK
    /\ subject = "escalation" => Esc!EscalationTypeOK
    /\ subject = "leaderboard" => Board!BoardTypeOK
    /\ subject = "upgrade" => Upgr!UpgradeTypeOK
    /\ subject = "spending" => Spend!SpendingTypeOK
    /\ subject = "inherit" => Inh!InheritTypeOK

(* No pick is work the record already decided (rank.py rank, apply_veto).  *)
NoDeadWork == subject = "ranking" => Rank!NoDeadWork

(* A result two sources measured is not held back (noise.py admit).        *)
ReproducedStands == subject = "frontier" => Fron!ReproducedStands

(* Held-out answers are counted, per candidate and epoch (holdout.py).     *)
PeeksMetered == subject = "frontier" => Fron!PeeksMetered

(* The loop stops on a win that was checked (budget.py should_stop).       *)
WinsBacked == subject = "frontier" => Fron!WinsBacked

(* What is rented fits, and is the cheapest that does (escalate.py).       *)
RentsTheCheapestThatPays == subject = "escalation" => Esc!RentsTheCheapestThatPays

(* The target is the declared page's, or says why not (goal.py Target).    *)
TargetFollowsBoard == subject = "leaderboard" => Board!TargetFollowsBoard

(* An update leaves a core that works and says what it did (upstream.py).  *)
UpgradeSafe == subject = "upgrade" => Upgr!UpgradeSafe

(* No more is paid than the ceiling and the asks under way (brain.py), and *)
(* a member is bound by its umbrella's ceiling, and other rules (inherit.py*)
(* merge).                                                                 *)
CeilingHolds ==
    /\ subject = "spending" => Spend!CeilingHolds
    /\ subject = "inherit" => Inh!MemberNeverLoosens
=============================================================================
