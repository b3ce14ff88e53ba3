----------------------------- MODULE Coordinator -----------------------------
(***************************************************************************)
(* The unattended loop (driver/loop.py): iterations of orient, generate,   *)
(* rank, dispatch, curate, distil and qc, each spending a fixed pool, with *)
(* workers in parallel, a verdict applied per worker, and one record at the*)
(* end.                                                                    *)
(*                                                                         *)
(* Around it: workers that hold the same tools and may close their card    *)
(* themselves, a person who claims and closes cards, claims that age while *)
(* an iteration runs and are reaped by the next one, a second coordinator, *)
(* the single phases run by hand (`ar research`, `ar skill distil`) that   *)
(* record under the same numbers, and death at any step.  What is filed,   *)
(* how cards are ranked, how a workspace is kept and how runs are charged  *)
(* are Lineage, Ranking, Workspaces and Meters.                            *)
(***************************************************************************)
EXTENDS Integers, FiniteSets, FiniteSetsExt

CONSTANTS
    Cards,
    Coords,         \* coordinator processes
    Fanout,         \* budgets.iteration_fanout
    Spawns,         \* budgets.iteration_max_spawns
    Every,          \* coordinator.distil_every
    MaxN,           \* bound: iteration numbers
    MaxStamp,       \* bound: claims taken
    None

VARIABLES
    native,     \* coordinator.dispatch: the agents run outside this process
    claim,      \* the claim on each card: [by, at], or None
    aged,       \* cards whose claim is older than its TTL
    closed,     \* the verdict on each card, or None
    stamp,      \* the clock of claims
    pc,         \* where each coordinator is
    n,          \* the number of its iteration
    short,      \* its shortlist, what is left of it to dispatch
    held,       \* dispatched_claims: card -> when it was claimed
    reply,      \* what each dispatched worker answered, or None
    verdict,    \* it.verdicts
    spawns,     \* left in the iteration's pool
    record      \* by number: [by, verdict, held], or None

coordVars == <<native, claim, aged, closed, stamp, pc, n, short, held, reply, verdict, spawns,
               record>>

Person == "person"

Terminal == {"confirmed", "refuted"}

(* What a worker's answer can be, once harvested: a verdict that passes the*)
(* re-review and the gates, no verdict, a reply or a close that they       *)
(* refuse, or evidence that could not be kept.                             *)
Answers == Terminal \union {"inconclusive", "refused", "problems"}

(* The answer of a worker that closed its card itself.                     *)
Own == "closed"

NoCards == [e \in {} |-> None]

CoordTypeOK ==
    /\ native \in BOOLEAN
    /\ claim \in [Cards -> {None} \union [by : Coords \union {Person}, at : 1..MaxStamp]]
    /\ aged \subseteq Cards /\ closed \in [Cards -> {None} \union Terminal]
    /\ stamp \in 0..MaxStamp
    /\ pc \in [Coords -> {"off", "orient", "generate", "rank", "dispatch", "work",
                          "curate", "distil", "qc", "record", "scout", "raised"}]
    /\ n \in [Coords -> 0..MaxN]
    /\ \A c \in Coords : /\ short[c] \subseteq Cards /\ DOMAIN held[c] \subseteq Cards
                         /\ DOMAIN reply[c] \subseteq DOMAIN held[c]
                         /\ DOMAIN verdict[c] \subseteq Cards
    /\ spawns \in [Coords -> 0..Spawns]

CoordInit ==
    /\ native \in BOOLEAN
    /\ claim = [e \in Cards |-> None] /\ aged = {} /\ closed = [e \in Cards |-> None]
    /\ stamp = 0
    /\ pc = [c \in Coords |-> "off"] /\ n = [c \in Coords |-> 0]
    /\ short = [c \in Coords |-> {}]
    /\ held = [c \in Coords |-> NoCards] /\ reply = [c \in Coords |-> NoCards]
    /\ verdict = [c \in Coords |-> NoCards]
    /\ spawns = [c \in Coords |-> 0]
    /\ record = [i \in 1..MaxN |-> None]

Put(f, e, v) == [x \in DOMAIN f \union {e} |-> IF x = e THEN v ELSE f[x]]

Set(f, c, e, v) == [f EXCEPT ![c] = Put(@, e, v)]

(* _last_recorded_n().                                                     *)
LastRecorded == Max({0} \union {i \in 1..MaxN : record[i] # None})

Free(e) == claim[e] = None /\ closed[e] = None

Goto(c, where) == pc' = [pc EXCEPT ![c] = where]

(* Fault: what is left of the pool is not looked at.                       *)
AskUnmetered(c) == spawns' = [spawns EXCEPT ![c] = @ - 1]

(* budget.spend("spawns") and the model call it pays for.                  *)
Ask(c) ==
    /\ spawns[c] > 0
    /\ spawns' = [spawns EXCEPT ![c] = @ - 1]

(* A phase whose budget or money is gone records that and asks nobody.     *)
AskOrSkip(c) == Ask(c) \/ UNCHANGED spawns

KeepCards == UNCHANGED <<native, claim, aged, closed, stamp>>

KeepWork == UNCHANGED <<short, held, reply, verdict>>

-----------------------------------------------------------------------------
(* run_iteration(): refused before anything is spent when the number is    *)
(* recorded already; otherwise a fresh pool.  The number was fixed when the*)
(* run began and counts up from there.                                     *)
BeginIteration(c) ==
    /\ pc[c] = "off" /\ n[c] < MaxN
    /\ \E i \in {n[c], LastRecorded} :
        /\ i >= n[c] /\ i < MaxN /\ record[i + 1] = None
        /\ n' = [n EXCEPT ![c] = i + 1]
    /\ Goto(c, "orient")
    /\ spawns' = [spawns EXCEPT ![c] = Spawns]
    /\ held' = [held EXCEPT ![c] = NoCards] /\ reply' = [reply EXCEPT ![c] = NoCards]
    /\ verdict' = [verdict EXCEPT ![c] = NoCards] /\ short' = [short EXCEPT ![c] = {}]
    /\ KeepCards /\ UNCHANGED record

(* orient(): expired claims are freed one by one, whoever holds them.      *)
Orient(c) ==
    /\ pc[c] = "orient" /\ Goto(c, "generate")
    /\ claim' = [e \in Cards |-> IF e \in aged THEN None ELSE claim[e]] /\ aged' = {}
    /\ UNCHANGED <<native, closed, stamp, n, spawns, record>> /\ KeepWork

(* generate(): as many generators as the pool pays; skipped when late.     *)
Generate(c) ==
    /\ pc[c] = "generate" /\ Goto(c, "rank") /\ AskOrSkip(c)
    /\ KeepCards /\ KeepWork /\ UNCHANGED <<n, record>>

(* rank(): the judge is asked from the same pool; a shortlist up to the    *)
(* fan-out of the cards that were free when the board was read.            *)
RankCards(c) ==
    /\ pc[c] = "rank" /\ Goto(c, "dispatch") /\ AskOrSkip(c)
    /\ \E S \in SUBSET {e \in Cards : Free(e)} :
        Cardinality(S) <= Fanout /\ short' = [short EXCEPT ![c] = S]
    /\ KeepCards /\ UNCHANGED <<n, held, reply, verdict, record>>

Shortlisted(c, e) == pc[c] = "dispatch" /\ e \in short[c]

Taken(c, e) == short' = [short EXCEPT ![c] = @ \ {e}]

(* preflight: a card whose declared needs fail here is blocked, unclaimed. *)
BlockCard(c, e) ==
    /\ Shortlisted(c, e) /\ Taken(c, e)
    /\ verdict' = Set(verdict, c, e, "blocked")
    /\ KeepCards /\ UNCHANGED <<pc, n, held, reply, spawns, record>>

(* A card someone took meanwhile, or whose reservation is refused and whose*)
(* claim is given back, is passed over; its share of the pool is spent.    *)
PassOver(c, e) ==
    /\ Shortlisted(c, e) /\ Taken(c, e) /\ spawns[c] > 0
    /\ spawns' = [spawns EXCEPT ![c] = @ - 1]
    /\ KeepCards /\ UNCHANGED <<pc, n, held, reply, verdict, record>>

(* dispatch(): pool, claim, reservation, then a worker in its workspace; a *)
(* native domain leaves the assignment to an agent outside this process.   *)
DispatchCard(c, e) ==
    /\ Shortlisted(c, e) /\ Taken(c, e) /\ Ask(c)
    /\ Free(e) /\ stamp < MaxStamp
    /\ stamp' = stamp + 1
    /\ claim' = [claim EXCEPT ![e] = [by |-> c, at |-> stamp']]
    /\ held' = Set(held, c, e, stamp')
    /\ IF native
       THEN verdict' = Set(verdict, c, e, "assigned") /\ UNCHANGED reply
       ELSE reply' = Set(reply, c, e, None) /\ UNCHANGED verdict
    /\ UNCHANGED <<native, aged, closed, pc, n, record>>

(* The pool is exhausted, the list is, or the phase started late.          *)
EndDispatch(c) ==
    /\ pc[c] = "dispatch"
    /\ short' = [short EXCEPT ![c] = {}]
    /\ Goto(c, IF \E e \in DOMAIN verdict[c] : verdict[c][e] = "assigned" THEN "record"
               ELSE IF held[c] = NoCards THEN "curate" ELSE "work")
    /\ KeepCards /\ UNCHANGED <<n, held, reply, verdict, spawns, record>>

-----------------------------------------------------------------------------
Working(c, e) == pc[c] = "work" /\ e \in DOMAIN reply[c]

WorkerAnswers(c, e) ==
    /\ Working(c, e) /\ reply[c][e] = None
    /\ \E a \in Answers : reply' = Set(reply, c, e, a)
    /\ KeepCards /\ UNCHANGED <<pc, n, short, held, verdict, spawns, record>>

(* A worker with tool access runs `ar close` on its own card.              *)
WorkerCloses(c, e) ==
    /\ Working(c, e) /\ reply[c][e] = None
    /\ claim[e] = [by |-> c, at |-> held[c][e]]
    /\ \E v \in Terminal : closed' = [closed EXCEPT ![e] = v]
    /\ reply' = Set(reply, c, e, Own)
    /\ claim' = [claim EXCEPT ![e] = None] /\ aged' = aged \ {e}
    /\ UNCHANGED <<native, stamp, pc, n, short, held, verdict, spawns, record>>

(* Every worker is waited for before the first answer is processed.        *)
Answered(c, e) ==
    /\ Working(c, e) /\ e \notin DOMAIN verdict[c]
    /\ \A f \in DOMAIN reply[c] : reply[c][f] # None

(* release(): the holder's own claim only; anything else is a note.        *)
ReleaseOwn(c, e) ==
    IF claim[e] # None /\ claim[e].by = c
    THEN claim' = [claim EXCEPT ![e] = None] /\ aged' = aged \ {e}
    ELSE UNCHANGED <<claim, aged>>

KeepRest == UNCHANGED <<native, stamp, n, short, held, reply, spawns, record>>

(* Evidence that could not be kept, or a worker that raised: no verdict.   *)
RefuseEvidence(c, e) ==
    /\ Answered(c, e) /\ reply[c][e] = "problems"
    /\ ReleaseOwn(c, e) /\ verdict' = Set(verdict, c, e, "refused")
    /\ UNCHANGED <<closed, pc>> /\ KeepRest

SameClaim(c, e) == claim[e] = [by |-> c, at |-> held[c][e]]

(* Fault: a refused close leaves the claim with the coordinator.           *)
RefuseVerdictKeepClaim(c, e) ==
    /\ Answered(c, e) /\ reply[c][e] \in {"inconclusive", "refused"}
    /\ SameClaim(c, e)
    /\ verdict' = Set(verdict, c, e, reply[c][e])
    /\ UNCHANGED <<claim, aged, closed, pc>> /\ KeepRest

(* _apply_verdict(): no re-review, a word outside the contract, a close the*)
(* gates refuse, or no verdict at all: the claim is given back.            *)
RefuseVerdict(c, e) ==
    /\ Answered(c, e) /\ reply[c][e] \in {"inconclusive", "refused"}
    /\ SameClaim(c, e) /\ ReleaseOwn(c, e)
    /\ verdict' = Set(verdict, c, e, reply[c][e])
    /\ UNCHANGED <<closed, pc>> /\ KeepRest

(* Fault: the claim it was dispatched under is not looked at.              *)
ApplyVerdictAnyClaim(c, e) ==
    /\ Answered(c, e) /\ reply[c][e] \in Terminal
    /\ closed' = [closed EXCEPT ![e] = reply[c][e]]
    /\ claim' = [claim EXCEPT ![e] = None] /\ aged' = aged \ {e}
    /\ verdict' = Set(verdict, c, e, reply[c][e])
    /\ UNCHANGED pc /\ KeepRest

(* ... and a verdict that passes them closes the card.                     *)
ApplyVerdict(c, e) ==
    /\ Answered(c, e) /\ reply[c][e] \in Terminal /\ SameClaim(c, e)
    /\ closed' = [closed EXCEPT ![e] = reply[c][e]]
    /\ claim' = [claim EXCEPT ![e] = None] /\ aged' = aged \ {e}
    /\ verdict' = Set(verdict, c, e, reply[c][e])
    /\ UNCHANGED pc /\ KeepRest

(* The claim it was dispatched under is gone: nobody catches the refusal,  *)
(* and the iteration ends in its `finally`, unrecorded.                    *)
ClaimChanged(c, e) ==
    /\ Answered(c, e) /\ reply[c][e] # "problems" /\ ~SameClaim(c, e)
    /\ Goto(c, "raised")
    /\ KeepCards /\ KeepWork /\ UNCHANGED <<n, spawns, record>>

EndWork(c) ==
    /\ pc[c] = "work" /\ DOMAIN reply[c] \subseteq DOMAIN verdict[c]
    /\ Goto(c, "curate")
    /\ KeepCards /\ KeepWork /\ UNCHANGED <<n, spawns, record>>

-----------------------------------------------------------------------------
(* curate(), distil() on its cadence, and qc(), each from the same pool.   *)
Curate(c) ==
    /\ pc[c] = "curate" /\ Goto(c, "distil") /\ AskOrSkip(c)
    /\ KeepCards /\ KeepWork /\ UNCHANGED <<n, record>>

Distil(c) ==
    /\ pc[c] = "distil" /\ Goto(c, "qc")
    /\ IF n[c] % Every = 0 THEN AskOrSkip(c) ELSE UNCHANGED spawns
    /\ KeepCards /\ KeepWork /\ UNCHANGED <<n, record>>

Qc(c) ==
    /\ pc[c] = "qc" /\ Goto(c, "record") /\ AskOrSkip(c)
    /\ KeepCards /\ KeepWork /\ UNCHANGED <<n, record>>

(* _record(): one file, put in place whatever is there.  The run goes on   *)
(* with the next number or stops.                                          *)
Record(c) ==
    /\ pc[c] = "record" /\ Goto(c, "off")
    /\ record' = [record EXCEPT ![n[c]] =
                      [by |-> c, verdict |-> verdict[c], held |-> held[c]]]
    /\ KeepCards /\ KeepWork /\ UNCHANGED <<n, spawns>>

(* `ar research`, `ar skill distil`: one phase under the next number.      *)
OutOfBand(c) ==
    /\ pc[c] = "off" /\ LastRecorded < MaxN
    /\ n' = [n EXCEPT ![c] = LastRecorded + 1] /\ Goto(c, "scout")
    /\ spawns' = [spawns EXCEPT ![c] = Spawns]
    /\ held' = [held EXCEPT ![c] = NoCards] /\ reply' = [reply EXCEPT ![c] = NoCards]
    /\ verdict' = [verdict EXCEPT ![c] = NoCards]
    /\ KeepCards /\ UNCHANGED <<short, record>>

Scout(c) ==
    /\ pc[c] = "scout" /\ Goto(c, "record") /\ AskOrSkip(c)
    /\ KeepCards /\ KeepWork /\ UNCHANGED <<n, record>>

(* Death; a process that raised is started again the same way.             *)
CoordDies(c) ==
    /\ pc[c] # "off" /\ Goto(c, "off")
    /\ n' = [n EXCEPT ![c] = 0]
    /\ KeepCards /\ KeepWork /\ UNCHANGED <<spawns, record>>

-----------------------------------------------------------------------------
(* Everyone else: a claim outlives its TTL and a person reaps it; a person *)
(* takes a free card, closes it, or gives it back.                         *)
Age(e) ==
    /\ claim[e] # None /\ aged' = aged \union {e}
    /\ UNCHANGED <<native, claim, closed, stamp, pc, n, spawns, record>> /\ KeepWork

PersonReaps(e) ==
    /\ e \in aged /\ aged' = aged \ {e} /\ claim' = [claim EXCEPT ![e] = None]
    /\ UNCHANGED <<native, closed, stamp, pc, n, spawns, record>> /\ KeepWork

PersonClaims(e) ==
    /\ Free(e) /\ stamp < MaxStamp /\ stamp' = stamp + 1
    /\ claim' = [claim EXCEPT ![e] = [by |-> Person, at |-> stamp']]
    /\ UNCHANGED <<native, aged, closed, pc, n, spawns, record>> /\ KeepWork

PersonEnds(e) ==
    /\ claim[e] # None /\ claim[e].by = Person
    /\ claim' = [claim EXCEPT ![e] = None] /\ aged' = aged \ {e}
    /\ \E v \in {None} \union Terminal : closed' = [closed EXCEPT ![e] = v]
    /\ UNCHANGED <<native, stamp, pc, n, spawns, record>> /\ KeepWork

CoordNext ==
    \/ \E c \in Coords :
        \/ BeginIteration(c) \/ Orient(c) \/ Generate(c) \/ RankCards(c) \/ EndDispatch(c)
        \/ EndWork(c) \/ Curate(c) \/ Distil(c) \/ Qc(c) \/ Record(c)
        \/ OutOfBand(c) \/ Scout(c) \/ CoordDies(c)
        \/ \E e \in Cards : \/ BlockCard(c, e) \/ PassOver(c, e) \/ DispatchCard(c, e)
                            \/ WorkerAnswers(c, e) \/ WorkerCloses(c, e)
                            \/ RefuseEvidence(c, e) \/ RefuseVerdict(c, e)
                            \/ ApplyVerdict(c, e) \/ ClaimChanged(c, e)
    \/ \E e \in Cards : Age(e) \/ PersonReaps(e) \/ PersonClaims(e) \/ PersonEnds(e)

CoordSpec == CoordInit /\ [][CoordNext]_coordVars

-----------------------------------------------------------------------------
Recorded == {i \in 1..MaxN : record[i] # None}

(* Nothing an iteration dispatched is still held once it is recorded, short*)
(* of an assignment handed to a native agent: whatever each worker answered*)
(* and whoever reaped or took the card meanwhile (the squat qc looks for). *)
NoSquat ==
    \A i \in Recorded : \A e \in DOMAIN record[i].held :
        record[i].verdict[e] # "assigned" => claim[e] # [by |-> record[i].by,
                                                         at |-> record[i].held[e]]

(* A card has one verdict: what a record says was confirmed or refuted is  *)
(* how the card is closed, although a person, another coordinator and the  *)
(* worker itself can close it too (_apply_verdict under the claims lock).  *)
VerdictStands == \A e \in Cards : closed[e] # None => closed'[e] = closed[e]
OneVerdict == [][VerdictStands]_coordVars

(* "Finding the entry already terminal is a success, not a race": a worker *)
(* that closed its own card does not cost the iteration (loop.py           *)
(* _apply_verdict_locked).                                                 *)
WorkerCloseHarmless ==
    [][\A c \in Coords : (pc[c] = "work" /\ pc'[c] = "raised") =>
        \E e \in DOMAIN reply[c] : reply[c][e] # Own /\ ~SameClaim(c, e)]_coordVars

(* An iteration's record is never written over: the spend it states would  *)
(* be forgotten with it (loop.py _last_recorded_n, run_iteration).         *)
RecordsKept == [][\A i \in Recorded : record'[i] = record[i]]_coordVars
=============================================================================
