------------------------------- MODULE Claims -------------------------------
(***************************************************************************)
(* Claiming, closing, reopening and reaping entries: claims.py, the verbs  *)
(* of cli.py that move an entry's status, and the part of entries.py and   *)
(* states.py they go through.                                              *)
(*                                                                         *)
(* A verb loads the record, decides on what it read, changes its copy, and *)
(* saves it: two steps, with other sessions in between.  claim, release,   *)
(* reap and the gate updates run inside the claims lock, the others do not.*)
(* A save is refused when the file changed since the load; EntryStore says *)
(* what that takes, and when it fails.                                     *)
(*                                                                         *)
(* claim.at has microseconds and names a claim; here it is a number.  Time *)
(* is counted in whole units and the timers saturate one past the TTL.     *)
(***************************************************************************)
EXTENDS Naturals, FiniteSets

CONSTANTS
    Entries,
    Actors,         \* people, agents and loops running verbs
    Sessions,       \* session names
    SessionOf,      \* the name each actor acts under: two may share one
    Anonymous,      \* Claims.ANONYMOUS, the default names
    Verdicts,       \* the terminal statuses
    TTL,            \* claim_ttl_hours
    ClaimTokens,    \* [coordinator] claim_tokens
    LockExclusive,  \* whether the claims lock lets in one caller only
    Mortal,         \* the actors that may die
    MaxClaims,      \* bound: claims ever begun
    NoClaim, NoResult, NoPin, Idle

Statuses == {"queued", "in-progress", "blocked"} \union Verdicts

ClaimIds == 0..MaxClaims

(* `token` is whether the record carries a token_sha: claims from before   *)
(* tokens, and migrated ones, do not.                                      *)
Claim == [by : Sessions, id : ClaimIds, token : BOOLEAN]

(* A verdict, told apart by the claim it was reached under.                *)
Result == [verdict : Verdicts, under : ClaimIds]

Record ==
    [status : Statuses, claim : {NoClaim} \union Claim,
     result : {NoResult} \union Result, archived : SUBSET Result]

LockedKinds == {"claim", "release", "reap", "mutate"}

Kinds == LockedKinds \union {"close", "reopen", "annotate"}

Operation == [kind : Kinds, entry : Entries, after : Record]

ASSUME ClaimsAssumption ==
    /\ SessionOf \in [Actors -> Sessions]
    /\ Anonymous \subseteq Sessions
    /\ Verdicts \intersect {"queued", "in-progress", "blocked"} = {}
    /\ TTL \in Nat
    /\ ClaimTokens \in BOOLEAN /\ LockExclusive \in BOOLEAN
    /\ Mortal \subseteq Actors
    /\ MaxClaims \in Nat
    /\ NoClaim \notin Claim
    /\ NoResult \notin Result
    /\ Idle \notin Operation

VARIABLES
    entry,    \* the record of each entry
    op,       \* the verb each actor is in the middle of, with its changed copy
    stale,    \* the actors whose copy another save has overtaken
    tokens,   \* the claim tokens each actor was handed
    pins,     \* the claims each actor's execution attempts are pinned to
    begun,    \* how many claims were begun, which names the next one
    age,      \* the time since each entry's claim.at, 0 without a claim
    quiet,    \* the time since each session's last event or run row
    live,     \* the actors that have not died
    issued    \* ghost: the verdicts ever saved

vars == <<entry, op, stale, tokens, pins, begun, age, quiet, live, issued>>

Timer == 0..(TTL + 1)

TypeOK ==
    /\ entry \in [Entries -> Record]
    /\ op \in [Actors -> {Idle} \union Operation]
    /\ stale \subseteq Actors
    /\ tokens \in [Actors -> SUBSET (Entries \X ClaimIds)]
    /\ pins \in [Actors -> SUBSET (Entries \X ClaimIds)]
    /\ begun \in ClaimIds
    /\ age \in [Entries -> Timer]
    /\ quiet \in [Sessions -> Timer]
    /\ live \subseteq Actors
    /\ issued \in [Entries -> SUBSET Result]

(* A filed entry; or one `ar migrate` brought in, in progress with no claim*)
(* or with a claim from before tokens.                                     *)
Fresh == [status |-> "queued", claim |-> NoClaim, result |-> NoResult, archived |-> {}]

Orphan == [Fresh EXCEPT !.status = "in-progress"]

Migrated(s) == [Orphan EXCEPT !.claim = [by |-> s, id |-> 0, token |-> FALSE]]

Init ==
    /\ entry \in [Entries -> {Fresh, Orphan} \union {Migrated(s) : s \in Sessions}]
    /\ op = [a \in Actors |-> Idle]
    /\ stale = {}
    /\ tokens = [a \in Actors |-> {}]
    /\ pins = [a \in Actors |-> {}]
    /\ begun = 0
    /\ age = [e \in Entries |-> 0]
    /\ quiet = [s \in Sessions |-> 0]
    /\ live = Actors
    /\ issued = [e \in Entries |-> {}]

-----------------------------------------------------------------------------
(* default_machine(): the declared transitions.                            *)
Transitions ==
    {<<"queued", "in-progress">>, <<"in-progress", "queued">>,
     <<"in-progress", "blocked">>, <<"blocked", "queued">>}
    \union ({"in-progress"} \X Verdicts)
    \union (Verdicts \X {"queued"})

Terminal(e) == entry[e].status \in Verdicts

(* Fault: a reopened entry loses its result without a trace.               *)
ApplyUnarchived(record, dest, result) ==
    [record EXCEPT
        !.status = dest,
        !.result = IF dest \in Verdicts THEN result
                   ELSE IF dest = "queued" THEN NoResult ELSE @]

(* Fault: closing as blocked stores a result as well.                      *)
ApplyAlwaysSettles(record, dest, result) ==
    [record EXCEPT
        !.status = dest,
        !.result = IF dest = "queued" THEN NoResult ELSE result,
        !.archived = IF dest = "queued" /\ record.result # NoResult
                     THEN @ \union {record.result} ELSE @]

(* Entry.apply(): a move to a terminal status sets the result, a move back *)
(* to the initial one archives it.                                         *)
Apply(record, dest, result) ==
    [status |-> dest,
     claim |-> record.claim,
     result |-> IF dest \in Verdicts THEN result
                ELSE IF dest = "queued" THEN NoResult ELSE record.result,
     archived |-> IF dest = "queued" /\ record.result # NoResult
                  THEN record.archived \union {record.result} ELSE record.archived]

(* Fault: the move is made and the claim stays on the record.              *)
VacateKeepsClaim(record, dest, result) == Apply(record, dest, result)

(* The same with the claim cleared, as release, reap, close and reopen do. *)
Vacate(record, dest, result) == [Apply(record, dest, result) EXCEPT !.claim = NoClaim]

(* require_owner(): the token presented decides, if the claim has one and  *)
(* any is presented; otherwise the session name, which on a claim with a   *)
(* token needs the pin as well.                                            *)
Owns(a, e, presented, pin) ==
    LET claim == entry[e].claim IN
    /\ claim # NoClaim
    /\ IF claim.token /\ presented # {}
       THEN <<e, claim.id>> \in presented
       ELSE /\ claim.by = SessionOf[a]
            /\ claim.token /\ ClaimTokens => pin = claim.id
    /\ pin # NoPin => pin = claim.id

Presentable(a) == {{}, tokens[a]}

PinsOn(a, e) == {NoPin} \union {id \in ClaimIds : <<e, id>> \in pins[a]}

Smaller(m, n) == IF m < n THEN m ELSE n

(* Fault: whatever anyone does under a shared name is a sign of life.      *)
LastSeenUnderAnyName(e) == Smaller(age[e], quiet[entry[e].claim.by])

(* last_seen(): a shared default name has no sign of life but the claim.   *)
LastSeen(e) ==
    LET by == entry[e].claim.by
    IN  IF by \in Anonymous THEN age[e] ELSE Smaller(age[e], quiet[by])

(* Callers inside the claims lock, from acquire() to release().            *)
InsideLock == {a \in Actors : op[a] # Idle /\ op[a].kind \in LockedKinds}

MayBegin(a, kind) ==
    /\ a \in live
    /\ op[a] = Idle
    /\ kind \in LockedKinds /\ LockExclusive => InsideLock = {}

(* The verb has read the record and changed its copy; the save is to come. *)
Begin(a, kind, e, after) ==
    /\ op' = [op EXCEPT ![a] = [kind |-> kind, entry |-> e, after |-> after]]
    /\ UNCHANGED <<entry, stale, tokens, pins, age, quiet, live, issued>>

-----------------------------------------------------------------------------
(* Claims.claim().                                                         *)
ClaimEntry(a, e) ==
    LET claim == [by |-> SessionOf[a], id |-> begun + 1, token |-> TRUE] IN
    /\ MayBegin(a, "claim")
    /\ begun < MaxClaims
    /\ entry[e].claim = NoClaim \/ entry[e].status = "queued"
    /\ <<entry[e].status, "in-progress">> \in Transitions
    /\ begun' = begun + 1
    /\ Begin(a, "claim", e, [Apply(entry[e], "in-progress", NoResult) EXCEPT !.claim = claim])

(* Claims.release() and release_locked().                                  *)
Release(a, e) ==
    /\ MayBegin(a, "release")
    /\ \E presented \in Presentable(a), pin \in PinsOn(a, e) : Owns(a, e, presented, pin)
    /\ <<entry[e].status, "queued">> \in Transitions
    /\ Begin(a, "release", e, Vacate(entry[e], "queued", NoResult))
    /\ UNCHANGED begun

(* Fault: the claim is freed and the status left as it was.                *)
ReapClaimOnly(a, e) ==
    /\ MayBegin(a, "reap")
    /\ entry[e].claim # NoClaim /\ LastSeen(e) > TTL
    /\ Begin(a, "reap", e, [entry[e] EXCEPT !.claim = NoClaim])
    /\ UNCHANGED begun

(* Claims.reap(): never a terminal entry; an unowned active record is      *)
(* repaired; a claim has to be silent for longer than the TTL.             *)
Reap(a, e) ==
    /\ MayBegin(a, "reap")
    /\ ~Terminal(e)
    /\ IF entry[e].claim = NoClaim THEN entry[e].status = "in-progress"
       ELSE LastSeen(e) > TTL
    /\ <<entry[e].status, "queued">> \in Transitions
    /\ Begin(a, "reap", e, Vacate(entry[e], "queued", NoResult))
    /\ UNCHANGED begun

(* Fault: whoever has a verdict may close, held or not (starks H4).        *)
MayCloseAnyone(a, e) == ~Terminal(e)

(* cmd_close(): a claim another session holds has to be proved, and so has *)
(* any claim once a token is given; the holder's own name is enough.       *)
MayClose(a, e) ==
    \E presented \in Presentable(a) :
        entry[e].claim # NoClaim /\ ~Terminal(e)
            /\ (entry[e].claim.by # SessionOf[a] \/ presented # {})
        => Owns(a, e, presented, NoPin)

Close(a, e) ==
    LET under == IF entry[e].claim = NoClaim THEN 0 ELSE entry[e].claim.id IN
    /\ MayBegin(a, "close")
    /\ MayClose(a, e)
    /\ \E dest \in Verdicts \union {"blocked"} :
          /\ <<entry[e].status, dest>> \in Transitions
          /\ Begin(a, "close", e, Vacate(entry[e], dest, [verdict |-> dest, under |-> under]))
    /\ UNCHANGED begun

(* cmd_close(--reopen).                                                    *)
Reopen(a, e) ==
    /\ MayBegin(a, "reopen")
    /\ entry[e].claim # NoClaim /\ ~Terminal(e)
          => \E presented \in Presentable(a) : Owns(a, e, presented, NoPin)
    /\ <<entry[e].status, "queued">> \in Transitions
    /\ Begin(a, "reopen", e, Vacate(entry[e], "queued", NoResult))
    /\ UNCHANGED begun

(* Claims.mutate(), from the gate verbs, which refuse an entry with a      *)
(* result: nothing modelled here changes but the history.                  *)
Mutate(a, e) ==
    /\ MayBegin(a, "mutate")
    /\ entry[e].claim # NoClaim /\ ~Terminal(e)
          => \E presented \in Presentable(a) : Owns(a, e, presented, NoPin)
    /\ entry[e].result = NoResult
    /\ Begin(a, "mutate", e, entry[e])
    /\ UNCHANGED begun

(* close --relabel, entry amend and entry reprice: anyone's, outside the   *)
(* claims lock; what they correct is not modelled.                         *)
Annotate(a, e) ==
    /\ MayBegin(a, "annotate")
    /\ Begin(a, "annotate", e, entry[e])
    /\ UNCHANGED begun

(* attempts.reserve(): who proves the claim gets it pinned.                *)
Pin(a, e) ==
    /\ a \in live
    /\ op[a] = Idle
    /\ LockExclusive => InsideLock = {}
    /\ entry[e].status = "in-progress"
    /\ \E presented \in Presentable(a) : Owns(a, e, presented, NoPin)
    /\ entry[e].claim.by = SessionOf[a]
    /\ pins' = [pins EXCEPT ![a] = @ \union {<<e, entry[e].claim.id>>}]
    /\ UNCHANGED <<entry, op, stale, tokens, begun, age, quiet, live, issued>>

-----------------------------------------------------------------------------
(* Fault: the save is not guarded by the signature of what was loaded.     *)
MaySaveUnguarded(a) == a \in live /\ op[a] # Idle

MaySave(a) == a \in live /\ op[a] # Idle /\ a \notin stale

(* store.save(): the copy replaces the record, and every other copy of it  *)
(* is overtaken.  The event the verb appended is a sign of life of its     *)
(* session, and a claimer is told its token.                               *)
Save(a) ==
    LET e == op[a].entry
        after == op[a].after
        claimed == op[a].kind = "claim"
    IN
    /\ MaySave(a)
    /\ entry' = [entry EXCEPT ![e] = after]
    /\ stale' = stale \union {b \in Actors : b # a /\ op[b] # Idle /\ op[b].entry = e}
    /\ tokens' = IF claimed THEN [tokens EXCEPT ![a] = @ \union {<<e, after.claim.id>>}]
                 ELSE tokens
    /\ age' = IF claimed \/ after.claim = NoClaim THEN [age EXCEPT ![e] = 0] ELSE age
    /\ quiet' = [quiet EXCEPT ![SessionOf[a]] = 0]
    /\ issued' = [issued EXCEPT ![e] =
                     IF after.result = NoResult THEN @ ELSE @ \union {after.result}]
    /\ op' = [op EXCEPT ![a] = Idle]
    /\ UNCHANGED <<pins, begun, live>>

(* The save, or a check before it, refuses: a file another session changed,*)
(* a lock that timed out, a memo that does not exist.                      *)
Refused(a) ==
    /\ a \in live
    /\ op[a] # Idle
    /\ op' = [op EXCEPT ![a] = Idle]
    /\ stale' = stale \ {a}
    /\ UNCHANGED <<entry, tokens, pins, begun, age, quiet, live, issued>>

(* The actor dies, in a verb or between two; its locks are taken over.     *)
Die(a) ==
    /\ a \in live \intersect Mortal
    /\ live' = live \ {a}
    /\ op' = [op EXCEPT ![a] = Idle]
    /\ stale' = stale \ {a}
    /\ UNCHANGED <<entry, tokens, pins, begun, age, quiet, issued>>

(* A run row, or an event on a record not modelled, under the actor's name.*)
Work(a) ==
    /\ a \in live
    /\ quiet[SessionOf[a]] > 0
    /\ quiet' = [quiet EXCEPT ![SessionOf[a]] = 0]
    /\ UNCHANGED <<entry, op, stale, tokens, pins, begun, age, live, issued>>

Tick ==
    /\ age' = [e \in Entries |-> IF entry[e].claim = NoClaim THEN 0
                                 ELSE Smaller(age[e] + 1, TTL + 1)]
    /\ quiet' = [s \in Sessions |-> Smaller(quiet[s] + 1, TTL + 1)]
    /\ UNCHANGED <<entry, op, stale, tokens, pins, begun, live, issued>>

Verb(a, e) ==
    \/ ClaimEntry(a, e)
    \/ Release(a, e)
    \/ Reap(a, e)
    \/ Close(a, e)
    \/ Reopen(a, e)
    \/ Mutate(a, e)
    \/ Annotate(a, e)

Next ==
    \/ \E a \in Actors, e \in Entries : Verb(a, e) \/ Pin(a, e)
    \/ \E a \in Actors : Save(a) \/ Refused(a) \/ Die(a) \/ Work(a)
    \/ Tick

Spec == Init /\ [][Next]_vars

(* Somebody lives on and, as the loop does at the start of every iteration,*)
(* tries to reap; a reap whose save is possible again and again goes       *)
(* through in the end; and time passes.                                    *)
SaveReap(a) == op[a] # Idle /\ op[a].kind = "reap" /\ Save(a)

Fairness ==
    /\ \A a \in Actors, e \in Entries : SF_vars(Reap(a, e))
    /\ \A a \in Actors : SF_vars(SaveReap(a)) /\ WF_vars(Save(a) \/ Refused(a))
    /\ WF_vars(Tick)

FairSpec == Spec /\ Fairness

-----------------------------------------------------------------------------
(* Status, claim and verdict agree whatever raced: a claim means work in   *)
(* progress, and there is a verdict exactly when the status is that one.   *)
RecordCoherent ==
    \A e \in Entries :
        /\ entry[e].claim # NoClaim => entry[e].status = "in-progress"
        /\ IF Terminal(e) THEN entry[e].result # NoResult
                               /\ entry[e].result.verdict = entry[e].status
           ELSE entry[e].result = NoResult

(* Every verdict ever saved stands, or is in the entry's history: no verb, *)
(* reap least of all, loses one (claims.py on Q2074 and Q2346).            *)
VerdictsKept ==
    \A e \in Entries : issued[e] \subseteq entry[e].archived \union {entry[e].result}

(* Work in progress with nobody holding it is brought in by a migration and*)
(* never made by a verb: a crash, a reap or a lost race leaves no orphan.  *)
Unowned(e) == entry[e].status = "in-progress" /\ entry[e].claim = NoClaim

NoNewOrphans == [][\A e \in Entries : Unowned(e)' => Unowned(e)]_vars

(* A claim ends in the hands of whoever was given its token, of someone    *)
(* acting under the holder's name, or after the TTL; and it ends before    *)
(* another begins, so that no session's claim is written over by another's.*)
Ends(a, e) ==
    /\ entry[e].claim # NoClaim /\ entry'[e].claim # entry[e].claim
    /\ op[a] # Idle /\ op'[a] = Idle

ClaimsEndRightfully ==
    [][\A a \in Actors, e \in Entries : Ends(a, e) =>
          /\ entry'[e].claim = NoClaim
          /\ \/ <<e, entry[e].claim.id>> \in tokens[a]
             \/ entry[e].claim.by = SessionOf[a]
             \/ age[e] > TTL]_vars

(* A claim nobody can act on any more, its holder dead and no one living   *)
(* under that name (unless it is one everybody shares), is freed.          *)
Abandoned(e) ==
    /\ entry[e].claim # NoClaim
    /\ entry[e].claim.by \in Anonymous
         \/ \A a \in live : SessionOf[a] # entry[e].claim.by

Freed(e, n) == entry[e].claim = NoClaim \/ entry[e].claim.id # n

AbandonedClaimsFreed ==
    \A e \in Entries, n \in ClaimIds : (Abandoned(e) /\ ~Freed(e, n)) ~> Freed(e, n)

(* The claim paths implement the lease they promise.                       *)
Lease == INSTANCE ClaimLease WITH
    Leases <- Claim, Verdicts <- Result, Nobody <- NoClaim, Open <- NoResult,
    holder <- [e \in Entries |-> entry[e].claim],
    settled <- [e \in Entries |-> entry[e].result],
    withdrawn <- [e \in Entries |-> entry[e].archived]

LeaseSpec == Lease!Spec
=============================================================================
