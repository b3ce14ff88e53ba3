------------------------------ MODULE Escalation ------------------------------
(***************************************************************************)
(* `ar escalate`: whether to rent compute, which class, and what it costs  *)
(* (escalate.py, hardware.py check, cli.py cmd_escalate).  One question is *)
(* asked and one answer given; every question of the instance is asked.    *)
(*                                                                         *)
(* Hours and costs are fractions: need / rate is the hours the work takes  *)
(* locally, and a class of ratio r takes 1 / r of that.  They are compared *)
(* multiplied out, over naturals.                                          *)
(***************************************************************************)
EXTENDS Naturals, FiniteSets

CONSTANTS
    Classes,        \* rentable machine classes
    Prices, Ratios, \* of an hour; of throughput to the local one, 0 unmeasured
    Needs, Rates, Hours, Ceilings,  \* what is asked with; None where a flag is absent
    Memories,       \* of the host
    Threshold,      \* iterations of a stall that is compute-bound
    Base, PerUnit,  \* memory a run takes at all, and one unit of it
    None

VARIABLES ask, answer

escalationVars == <<ask, answer>>

Asks ==
    [price : [Classes -> Prices], ratio : [Classes -> Ratios], need : Needs, rate : Rates,
     hours : {None} \union Hours, ceiling : {None} \union Ceilings,
     memory : {None} \union Memories,       \* None: no hardware class is named
     stalled : {0, Threshold}, correct : BOOLEAN]

Verdicts == {"GO", "REFUSE", "NEEDS_MEASUREMENT", "NOT_TRIGGERED", "error"}

EscalationTypeOK ==
    /\ ask \in Asks
    /\ answer # None => answer.verdict \in Verdicts /\ answer.best \in {None} \union Classes

EscalationInit == ask \in Asks /\ answer = None

-----------------------------------------------------------------------------
(* max_concurrency(): units that fit three quarters of the memory beside   *)
(* the footprint they share.                                               *)
MaxConcurrency(memory) ==
    IF 3 * memory < 4 * Base THEN 0 ELSE (3 * memory - 4 * Base) \div (4 * PerUnit)

(* check(): the host holds one unit at least.  Its architecture, threads   *)
(* and GPU are further conditions of this kind.                            *)
Capable == ask.memory = None \/ MaxConcurrency(ask.memory) >= 1

(* triggered(): the host cannot hold it, is too slow for the hours there   *)
(* are, or the stall is one that compute would end.                        *)
Triggered ==
    \/ ~Capable
    \/ ask.hours # None /\ ask.need > ask.hours * ask.rate
    \/ Threshold # 0 /\ ask.stalled >= Threshold

(* A ratio was measured for this workload, or the class is not costed.     *)
Priced == {c \in Classes : ask.ratio[c] # 0}

Fits(c) == ask.hours # None => ask.need <= ask.hours * ask.rate * ask.ratio[c]

Cheaper(c, d) == ask.price[c] * ask.ratio[d] < ask.price[d] * ask.ratio[c]

(* Fault: the cheapest class is asked whether it fits.                     *)
ChosenCheapest == CHOOSE c \in Priced : \A d \in Priced : ~Cheaper(d, c)

(* Of those that meet the deadline the cheapest, and the fastest where none*)
(* does.                                                                   *)
Chosen ==
    LET fitting == {c \in Priced : Fits(c)}
    IN  IF fitting # {} THEN CHOOSE c \in fitting : \A d \in fitting : ~Cheaper(d, c)
        ELSE CHOOSE c \in Priced : \A d \in Priced : ask.ratio[d] <= ask.ratio[c]

Affordable(c) ==
    ask.ceiling # None => ask.need * ask.price[c] <= ask.ceiling * ask.rate * ask.ratio[c]

(* recommend(): Gate 0, a measured class, Gate A, the ceiling, in that     *)
(* order.  Explaining that nothing fits divides by the hours there are.    *)
Recommend ==
    IF ~Triggered THEN [verdict |-> "NOT_TRIGGERED", best |-> None]
    ELSE IF ~ask.correct THEN [verdict |-> "REFUSE", best |-> None]
    ELSE IF Priced = {} THEN [verdict |-> "NEEDS_MEASUREMENT", best |-> None]
    ELSE IF ~Fits(Chosen)
    THEN [verdict |-> IF ask.hours = 0 THEN "error" ELSE "REFUSE", best |-> Chosen]
    ELSE [verdict |-> IF Affordable(Chosen) THEN "GO" ELSE "REFUSE", best |-> Chosen]

(* cmd_escalate(): a rate of zero is refused before anything is asked.     *)
Answer ==
    /\ answer = None
    /\ answer' = IF ask.rate = 0 THEN [verdict |-> "error", best |-> None] ELSE Recommend
    /\ UNCHANGED ask

EscalationNext == Answer

EscalationSpec == EscalationInit /\ [][EscalationNext]_escalationVars

-----------------------------------------------------------------------------
(* Where local compute falls short and the work is known to be correct,    *)
(* money is recommended exactly when some measured class meets the deadline*)
(* and the ceiling, and then the cheapest of those; a class nobody measured*)
(* is never the answer (escalate.py recommend: "The cheapest class missing *)
(* the deadline is not a refusal while a faster measured class fits it").  *)
RentsTheCheapestThatPays ==
    answer # None /\ ask.rate # 0 =>
        LET paying == {c \in Classes : ask.ratio[c] # 0 /\ Fits(c) /\ Affordable(c)}
        IN  /\ answer.verdict = "GO" <=> Triggered /\ ask.correct /\ paying # {}
            /\ answer.verdict = "GO" =>
                answer.best \in paying /\ \A c \in paying : ~Cheaper(c, answer.best)
=============================================================================
