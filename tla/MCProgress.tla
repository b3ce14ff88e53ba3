----------------------------- MODULE MCProgress -----------------------------
(* What must get on although processes die: claims and execution attempts, *)
(* one of the two in each behaviour, on instances smaller than the ones    *)
(* their safety is checked on.                                             *)
EXTENDS Naturals

CONSTANTS
    e1, i1, ann, moon, cli, m1,
    NoClaim, NoResult, NoPin, Idle, Free, NoJob, NoRow, None

VARIABLES subject, x1, x2, x3, x4, x5, x6, x7, x8, x9, x10

vars == <<subject, x1, x2, x3, x4, x5, x6, x7, x8, x9, x10>>

(* A person under the shared default name, and a session that may die.     *)
C == INSTANCE Claims WITH
    Entries <- {e1}, Actors <- {ann, moon}, Sessions <- {cli, m1},
    SessionOf <- [a \in {ann, moon} |-> IF a = moon THEN m1 ELSE cli],
    Anonymous <- {cli}, Verdicts <- {"confirmed"}, TTL <- 1,
    ClaimTokens <- TRUE, LockExclusive <- TRUE, Mortal <- {moon}, MaxClaims <- 1,
    entry <- x1, op <- x2, stale <- x3, tokens <- x4, pins <- x5, begun <- x6,
    age <- x7, quiet <- x8, live <- x9, issued <- x10

(* Two processes of one session over one attempt.                          *)
A == INSTANCE Attempts WITH
    Entries <- {e1}, Ids <- {i1}, Procs <- {ann, moon}, Sessions <- {m1},
    SessionOf <- [p \in {ann, moon} |-> m1], Verdicts <- {"confirmed"},
    MaxParallel <- 1, MaxClaims <- 2,
    row <- x1, claim <- x2, verdict <- x3, receipts <- x4, iteration <- x5,
    job <- x6, lock <- x7, handoff <- x8, claimed <- x9, revived <- x10

Init ==
    \/ subject = "claims" /\ C!Init
    \/ subject = "attempts" /\ A!Init

(* A step of the one that the behaviour is about.                          *)
Of(c, a) ==
    /\ subject = "claims" => c
    /\ subject = "attempts" => a
    /\ UNCHANGED subject

Next == Of(C!Next, A!Next)

(* The fairness of the two modules.  A behaviour is about one of them, so  *)
(* that of both is stated in pairs.                                        *)
Fairness ==
    /\ \A p \in {ann, moon} :
        /\ SF_vars(Of(C!Reap(p, e1), A!Complete(p, i1, "confirmed")))
        /\ SF_vars(Of(FALSE, A!Complete(p, i1, "inconclusive")))
        /\ SF_vars(Of(C!SaveReap(p), A!Settle(p)))
        /\ WF_vars(Of(C!Save(p) \/ C!Refused(p), A!Completion(p) \/ A!Crash(p)))
    /\ WF_vars(Of(C!Tick, FALSE))

FairSpec == Init /\ [][Next]_vars /\ Fairness

-----------------------------------------------------------------------------
(* A claim whose holder is gone is freed in the end, under a shared default*)
(* name too, while somebody keeps reaping (claims.py reap, last_seen).     *)
AbandonedClaimsFreed ==
    \A k \in C!ClaimIds :
        (subject = "claims" /\ C!Abandoned(e1) /\ ~C!Freed(e1, k))
            ~> (subject = "claims" /\ C!Freed(e1, k))

(* A completion whose verdict reached the entry is settled in the end,     *)
(* however often the process that retries it dies (external.py complete).  *)
AppliedSettles ==
    (subject = "attempts" /\ A!Applied(i1)) ~> (subject = "attempts" /\ A!Finished(i1))
=============================================================================
