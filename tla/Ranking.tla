------------------------------- MODULE Ranking -------------------------------
(***************************************************************************)
(* Deciding what to work on next: rank.py, the domain's own scorer         *)
(* (scoring.py), the judge's vetoes and the share of the shortlist that    *)
(* goes to new territory.                                                  *)
(*                                                                         *)
(* The board changes under its users: entries are held, closed with a      *)
(* verdict that reaches a whole mechanism or only what was measured,       *)
(* relabelled and repriced.  A ranking is computed from one reading of it; *)
(* vetoes then reorder the ranking and the shortlist is cut from it.       *)
(*                                                                         *)
(* A score is a fraction, kept as its two integers: confidence in tenths   *)
(* times impact over cost, damped by what was learned since the pricing and*)
(* by refutations that touch a mechanism.  Fractions are compared exactly. *)
(***************************************************************************)
EXTENDS Integers, Sequences, FiniteSets

CONSTANTS
    Entries,        \* 1..N, in the order the store lists them
    Parent,         \* the entry each one branches from, or Root
    Derived,        \* the entries filed with derived_from
    Tags,           \* the mechanisms of each entry
    Context,        \* what each entry is about: a closure may apply to one only
    Prices,         \* records [conf, impact, cost] an entry may be priced at
    FiledAt,        \* the price each one was filed at
    Remaining,      \* runs left under the campaign's and the iteration's ceiling
    MinCalibration, \* MIN_CALIBRATION_N
    Stagnation,     \* coordinator.branch_stagnation
    Risk,           \* coordinator.risk, in tenths
    Slots,          \* the fan-outs a shortlist may be cut for
    MaxEvents,      \* bound: closes, claims, relabels and reprices
    MaxVetoes,      \* bound: vetoes in the judge's reply
    Root, Unranked

VARIABLES
    status,     \* of each entry
    reach,      \* closure_kind of each closed entry: mechanism, or less
    scoped,     \* the closed entries whose verdict names its context
    price,      \* of each entry
    priced,     \* `updated`: when it was priced
    closed,     \* when it was closed, 0 for never
    clock,
    ranking,    \* the ranking's scored entries in order, or Unranked
    order,      \* the same entries by score, whatever the judge did
    vetoed,     \* the vetoes applied to it
    slots,      \* k, once the shortlist was cut
    shortlist

rankingVars == <<status, reach, scoped, price, priced, closed, clock, ranking, order,
                 vetoed, slots, shortlist>>

Terminal == {"refuted", "confirmed"}

RankingTypeOK ==
    /\ status \in [Entries -> {"queued", "held", "blocked"} \union Terminal]
    /\ reach \in [Entries -> {"mechanism", "cell"}]
    /\ scoped \subseteq Entries
    /\ price \in [Entries -> Prices]
    /\ priced \in [Entries -> 0..MaxEvents] /\ closed \in [Entries -> 0..MaxEvents]
    /\ clock \in 0..MaxEvents
    /\ ranking = Unranked \/ \A i \in DOMAIN ranking : ranking[i] \in Entries
    /\ vetoed \in 0..MaxVetoes /\ slots \in {0} \union Slots
    /\ \A i \in DOMAIN shortlist : shortlist[i] \in Entries

Closed == {e \in Entries : status[e] \in Terminal}

-----------------------------------------------------------------------------
(* result_applies_to(): an unscoped closure applies to everything.         *)
AppliesTo(c, e) == c \in scoped => Context[c] = Context[e]

(* calibrate(): the closures on a mechanism that bear on an entry.         *)
Evidence(m, e) == {c \in Closed : m \in Tags[c] /\ AppliesTo(c, e)}

(* The mechanisms of e with enough closures to move the filer's guess.     *)
Calibrated(e) == {m \in Tags[e] : Cardinality(Evidence(m, e)) >= MinCalibration}

(* A mechanism counts once per closure: the pairs, not the closures.       *)
Observed(e) == {mc \in Calibrated(e) \X Closed : mc[2] \in Evidence(mc[1], e)}

Good(e) == {mc \in Observed(e) : status[mc[2]] = "confirmed"}

(* _dead_mechanisms(): the refutations on m, split by how far they reach.  *)
Refutations(m, e, how) ==
    {c \in Closed : status[c] = "refuted" /\ reach[c] = how /\ m \in Tags[c]
                    /\ AppliesTo(c, e)}

(* stagnant_parents(): branches refuted, none confirmed.                   *)
StagnantParent(p) ==
    LET under == {c \in Closed : Parent[c] = p}
    IN  /\ Cardinality({c \in under : status[c] = "refuted"}) >= Stagnation
        /\ \A c \in under : status[c] # "confirmed"

(* The hard filters, before any score is computed.                         *)
Excluded(e) ==
    \/ status[e] # "queued"
    \/ price[e].cost > Remaining
    \/ \E m \in Tags[e] : Refutations(m, e, "mechanism") # {}
    \/ Parent[e] # Root /\ StagnantParent(Parent[e])

Touching(e) == {m \in Tags[e] : Refutations(m, e, "cell") # {}}

Learned(e) == Cardinality({c \in Closed : closed[c] > priced[e]})

(* The formula: confidence pulled to the observed rate with a prior weight *)
(* of 3, times impact over cost, staleness 20/(20+n), overlap 1/(1+n).     *)
Numerator(e) ==
    (3 * price[e].conf + 10 * Cardinality(Good(e))) * price[e].impact * 20

Denominator(e) ==
    10 * (3 + Cardinality(Observed(e))) * price[e].cost * (20 + Learned(e))
       * (1 + Cardinality(Touching(e)))

(* A better score first; the sort is stable, so a tie keeps store order.   *)
Before(a, b) ==
    LET l == Numerator(a) * Denominator(b)
        r == Numerator(b) * Denominator(a)
    IN  l > r \/ (l = r /\ a < b)

(* The members of S, each once, so that an earlier one is R to a later one.*)
Lists(S, R(_, _)) ==
    {f \in [1..Cardinality(S) -> S] : \A i, j \in DOMAIN f : i < j => R(f[i], f[j])}

SeqSet(seq) == {seq[i] : i \in DOMAIN seq}

Ahead(seq, a, b) == \E i, j \in DOMAIN seq : i < j /\ seq[i] = a /\ seq[j] = b

Ranked(a, b) == Ahead(ranking, a, b)

(* The picks are listed by score again.                                    *)
ByScore(a, b) == Ahead(order, a, b)

Novel(e) == Parent[e] = Root /\ e \notin Derived

Least(a, b) == IF a < b THEN a ELSE b

(* The n members of S that the ranking names first.                        *)
First(S, n) == {e \in S : Cardinality({f \in S : Ranked(f, e)}) < n}

(* Ranking.shortlist(): a rounded share of the slots for new territory, the*)
(* rest for branches, what one lane cannot fill given to the other, and the*)
(* picks back in score order.                                              *)
Cut(k) ==
    LET novel == {e \in SeqSet(ranking) : Novel(e)}
        old   == SeqSet(ranking) \ novel
        n     == Least((k * Risk + 5) \div 10, Cardinality(novel))
        o     == Least(k - n, Cardinality(old))
    IN  IF k = 1 \/ Len(ranking) <= k THEN {SubSeq(ranking, 1, Least(k, Len(ranking)))}
        ELSE Lists(First(novel, k - o) \union First(old, o), ByScore)

-----------------------------------------------------------------------------
RankingInit ==
    /\ status = [e \in Entries |-> "queued"]
    /\ reach = [e \in Entries |-> "cell"]
    /\ scoped = {}
    /\ price = FiledAt
    /\ priced = [e \in Entries |-> 0] /\ closed = [e \in Entries |-> 0]
    /\ clock = 0
    /\ ranking = Unranked /\ order = <<>> /\ vetoed = 0 /\ slots = 0 /\ shortlist = <<>>

(* Something another session does to the board between two rankings.       *)
Event == clock < MaxEvents /\ clock' = clock + 1

KeepRanking == UNCHANGED <<ranking, order, vetoed, slots, shortlist>>

Hold(e) ==
    /\ ranking = Unranked /\ status[e] = "queued" /\ Event
    /\ \E s \in {"held", "blocked"} : status' = [status EXCEPT ![e] = s]
    /\ UNCHANGED <<reach, scoped, price, priced, closed>> /\ KeepRanking

(* A closure: its reach and scope decide what it says of other entries.    *)
Close(e) ==
    /\ ranking = Unranked /\ status[e] \in {"queued", "held"} /\ Event
    /\ \E v \in Terminal, k \in {"mechanism", "cell"}, s \in BOOLEAN :
        /\ v = "confirmed" => k = "cell"
        /\ status' = [status EXCEPT ![e] = v]
        /\ reach' = [reach EXCEPT ![e] = k]
        /\ scoped' = IF s THEN scoped \union {e} ELSE scoped
    /\ closed' = [closed EXCEPT ![e] = clock']
    /\ UNCHANGED <<price, priced>> /\ KeepRanking

(* relabel(): the reach of a verdict is corrected, the verdict is not.     *)
Relabel(e) ==
    /\ ranking = Unranked /\ status[e] = "refuted" /\ Event
    /\ \E k \in {"mechanism", "cell"} : reach' = [reach EXCEPT ![e] = k]
    /\ UNCHANGED <<status, scoped, price, priced, closed>> /\ KeepRanking

(* reprice(): never a closed entry, never to the price it has.             *)
Reprice(e) ==
    /\ ranking = Unranked /\ status[e] \notin Terminal /\ Event
    /\ \E pr \in Prices \ {price[e]} : price' = [price EXCEPT ![e] = pr]
    /\ priced' = [priced EXCEPT ![e] = clock']
    /\ UNCHANGED <<status, reach, scoped, closed>> /\ KeepRanking

KeepBoard == UNCHANGED <<status, reach, scoped, price, priced, closed, clock>>

(* rank(): hard filters first, then `scored.sort(key=-score)`.             *)
Rank ==
    /\ ranking = Unranked
    /\ order' \in Lists({e \in Entries : ~Excluded(e)}, Before) /\ ranking' = order'
    /\ KeepBoard /\ UNCHANGED <<vetoed, slots, shortlist>>

(* seam_ranking(): the domain's prices for the same entries, in any order; *)
(* a breach of the contract leaves no ranking.                             *)
SeamRank ==
    /\ ranking # Unranked /\ vetoed = 0 /\ slots = 0
    /\ \/ ranking' \in {f \in [DOMAIN ranking -> SeqSet(ranking)] :
                            SeqSet(f) = SeqSet(ranking)}
       \/ ranking' = <<>>
    /\ order' = ranking'
    /\ KeepBoard /\ UNCHANGED <<vetoed, slots, shortlist>>

Without(e) == Lists(SeqSet(ranking) \ {e}, Ranked)

Promoted(e) == {<<e>> \o rest : rest \in Without(e)}

Demoted(e) == {Append(rest, e) : rest \in Without(e)}

(* Fault: the card is looked up on the board, not among the ranked ones.   *)
VetoAny ==
    /\ ranking # Unranked /\ slots = 0 /\ vetoed < MaxVetoes
    /\ \E e \in Entries : ranking' \in Promoted(e) \union Demoted(e)
    /\ vetoed' = vetoed + 1
    /\ KeepBoard /\ UNCHANGED <<order, slots, shortlist>>

(* apply_veto(): a ranked card goes to the front or to the end; one that   *)
(* names an excluded or unknown entry is refused.                          *)
Veto ==
    /\ ranking # Unranked /\ slots = 0 /\ vetoed < MaxVetoes
    /\ \E e \in SeqSet(ranking) : ranking' \in Promoted(e) \union Demoted(e)
    /\ vetoed' = vetoed + 1
    /\ KeepBoard /\ UNCHANGED <<order, slots, shortlist>>

Shortlist ==
    /\ ranking # Unranked /\ slots = 0
    /\ \E k \in Slots : slots' = k /\ shortlist' \in Cut(k)
    /\ KeepBoard /\ UNCHANGED <<ranking, order, vetoed>>

RankingNext ==
    \/ \E e \in Entries : Hold(e) \/ Close(e) \/ Relabel(e) \/ Reprice(e)
    \/ Rank \/ SeamRank \/ Veto \/ Shortlist

RankingSpec == RankingInit /\ [][RankingNext]_rankingVars

-----------------------------------------------------------------------------
(* No pick is work the record already decided: whatever the closures, the  *)
(* relabels, the domain's prices and the judge's vetoes were, a shortlisted*)
(* entry is open, unheld and shares no mechanism refuted as a mechanism    *)
(* where that refutation applies (rank.py rank, apply_veto).               *)
NoDeadWork ==
    \A e \in SeqSet(shortlist) :
        /\ status[e] = "queued"
        /\ \A c \in Closed : (status[c] = "refuted" /\ reach[c] = "mechanism"
                              /\ (c \in scoped => Context[c] = Context[e]))
                                => Tags[c] \cap Tags[e] = {}
=============================================================================
