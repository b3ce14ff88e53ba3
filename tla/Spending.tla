------------------------------ MODULE Spending ------------------------------
(***************************************************************************)
(* The seam to the model (driver/brain.py): several asks at once, routed to*)
(* several backends that share one CostLedger.                             *)
(*                                                                         *)
(* A command backend reports its cost in a file; it may exit with an error,*)
(* be killed at its timeout, or say nothing.  The TypeSafe backend posts up*)
(* to three times.  The ledger knows what it was told; `paid` is what the  *)
(* asks really cost, and `unseen` the part the code has no way to be told, *)
(* or drops.                                                               *)
(***************************************************************************)
EXTENDS Naturals, FiniteSets

CONSTANTS
    Threads,    \* asks that can be under way at once
    Commands,   \* backends that are commands
    Typesafe,   \* the built-in backend
    Ceiling,    \* the money ceiling, in units of cost
    MaxCost,    \* bound: what one ask can cost
    Retries,    \* posts after the first
    MaxAsks,    \* bound: asks dispatched
    Idle

VARIABLES
    routes, priced,     \* the backends built; whether [brain] prices the model's tokens
    spent, unknown,     \* the CostLedger
    ask,                \* what each thread is doing: [brain, posts, billed], or Idle
    asks, paid, unseen  \* dispatched; really paid; of it, not charged

spendingVars == <<routes, priced, spent, unknown, ask, asks, paid, unseen>>

Brains == Commands \union {Typesafe}
Costs == 0..MaxCost
MostPaid == MaxAsks * MaxCost * (Retries + 1)

SpendingTypeOK ==
    /\ routes \subseteq Brains /\ priced \in BOOLEAN
    /\ spent \in 0..MostPaid /\ unknown \in BOOLEAN
    /\ ask \in [Threads -> {Idle} \union [brain : Brains, posts : 0..Retries]]
    /\ asks \in 0..MaxAsks /\ paid \in 0..MostPaid /\ unseen \in 0..paid

(* build_brain(): the backend that spends API money is refused, and nothing*)
(* is built, unless the domain or the caller authorized it.                *)
BuildBrain(wanted, authorized) ==
    IF Typesafe \in wanted /\ ~authorized THEN {} ELSE wanted

SpendingInit ==
    /\ \E wanted \in SUBSET Brains, authorized \in BOOLEAN :
            routes = BuildBrain(wanted, authorized)
    /\ priced \in BOOLEAN /\ spent = 0 /\ unknown = FALSE
    /\ ask = [t \in Threads |-> Idle] /\ asks = 0 /\ paid = 0 /\ unseen = 0

Asking(t, b) == ask[t] # Idle /\ ask[t].brain = b

Done(t) == ask' = [ask EXCEPT ![t] = Idle] /\ UNCHANGED asks

(* CostLedger.spend(), with a cost or with None.                           *)
Spend(c) == spent' = spent + c /\ UNCHANGED unknown

SpendUnknown == unknown' = TRUE /\ UNCHANGED spent

KeepLedger == UNCHANGED <<spent, unknown>>

(* _cost(): dollars from the usage, when the model is priced and the reply *)
(* says what it used.                                                      *)
SpendUsage(c) == SpendUnknown \/ (priced /\ Spend(c))

Pay(c) == paid' = paid + c /\ UNCHANGED unseen

PayUnseen(c) == paid' = paid + c /\ unseen' = unseen + c

-----------------------------------------------------------------------------
(* Fault: a cost nobody reported counts as zero.                           *)
RoomUnknownIsZero == spent < Ceiling

(* CostLedger.remaining(), asked before an ask: an unknown cost refuses all*)
(* further dispatch, and so does a ceiling that is used up.                *)
Room == ~unknown /\ spent < Ceiling

(* RoutingBrain.ask() to the role's backend.                               *)
Dispatch(t, b) ==
    /\ ask[t] = Idle /\ b \in routes /\ Room /\ asks < MaxAsks /\ asks' = asks + 1
    /\ ask' = [ask EXCEPT ![t] = [brain |-> b, posts |-> 0]]
    /\ KeepLedger /\ UNCHANGED <<paid, unseen>>

-----------------------------------------------------------------------------
(* ProcessBrain.ask(): the command exits 0 and wrote its cost ...          *)
Answer(t, b) ==
    /\ Asking(t, b) /\ \E c \in Costs : Spend(c) /\ Pay(c)
    /\ Done(t)

(* ... or wrote none, or nothing that is a cost: unknown, never zero.      *)
AnswerUncosted(t, b) ==
    /\ Asking(t, b) /\ SpendUnknown /\ \E c \in Costs : Pay(c)
    /\ Done(t)

(* It exits with an error: the cost file is not looked at.                 *)
ExitNonzero(t, b) ==
    /\ Asking(t, b) /\ KeepLedger /\ \E c \in Costs : PayUnseen(c)
    /\ Done(t)

(* It is killed at the timeout: what the cost file says is charged, one    *)
(* that cannot be read is unknown; with no file nothing is charged.        *)
TimeOut(t, b) ==
    /\ Asking(t, b)
    /\ \E c \in Costs :
        \/ Spend(c) /\ Pay(c)
        \/ SpendUnknown /\ Pay(c)
        \/ KeepLedger /\ PayUnseen(c)
    /\ Done(t)

-----------------------------------------------------------------------------
(* TypeSafeBrain.ask(): the post is answered, and priced from its usage or *)
(* unknown ...                                                             *)
PostAnswered(t) ==
    /\ Asking(t, Typesafe)
    /\ \E c \in Costs : SpendUsage(c) /\ Pay(c)
    /\ Done(t)

(* ... or answered with no answers, or not all of them, or with no JSON: a *)
(* failure, and nothing is charged.                                        *)
PostRefused(t) ==
    /\ Asking(t, Typesafe) /\ KeepLedger /\ \E c \in Costs : PayUnseen(c)
    /\ Done(t)

(* _post(): a transient failure, possibly billed, is tried again.          *)
PostAgain(t) ==
    /\ Asking(t, Typesafe) /\ ask[t].posts < Retries
    /\ ask' = [ask EXCEPT ![t].posts = @ + 1]
    /\ KeepLedger /\ UNCHANGED asks /\ \E c \in Costs : PayUnseen(c)

(* The last one: what it cost is unknown.                                  *)
PostFails(t) ==
    /\ Asking(t, Typesafe) /\ ask[t].posts = Retries /\ SpendUnknown
    /\ \E c \in Costs : Pay(c)
    /\ Done(t)

SpendingStep ==
    \E t \in Threads :
        \/ \E b \in Brains : Dispatch(t, b)
        \/ \E b \in Commands :
            Answer(t, b) \/ AnswerUncosted(t, b) \/ ExitNonzero(t, b) \/ TimeOut(t, b)
        \/ PostAnswered(t) \/ PostRefused(t) \/ PostAgain(t) \/ PostFails(t)

SpendingNext == SpendingStep /\ UNCHANGED <<routes, priced>>

SpendingSpec == SpendingInit /\ [][SpendingNext]_spendingVars

-----------------------------------------------------------------------------
(* One ceiling for all backends: whatever the asks under way at once cost, *)
(* and even when a cost is never learned, no more is paid than the ceiling *)
(* and one ask per thread beyond it; the paths that charge nothing aside,  *)
(* which `unseen` adds up (brain.py CostLedger, ProcessBrain.ask,          *)
(* TypeSafeBrain.ask and _post).                                           *)
CeilingHolds ==
    paid - unseen < Ceiling + Cardinality(Threads) * MaxCost
=============================================================================
