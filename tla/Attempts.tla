------------------------------ MODULE Attempts ------------------------------
(***************************************************************************)
(* Execution attempts and external assignments: attempts.py and            *)
(* external.py.  An attempt is a record in a file of its own, pinned to the*)
(* claim it was reserved under; an assignment is an attempt whose worker   *)
(* answers later, in another process, with a report.                       *)
(*                                                                         *)
(* Three files have to tell one story: the attempt's record, the entry     *)
(* with its claim, verdict and receipts, and the record of the iteration   *)
(* that dispatched it.  They are written one at a time, a process can die  *)
(* between two writes, and a saved attempt record replaces whatever is     *)
(* there: it is a copy loaded earlier, not always under the same lock.     *)
(*                                                                         *)
(* An action is what one process does up to and including its next write.  *)
(* `lock` is the claims lock and `handoff` the lock of each assignment;    *)
(* both exclude here (see FileLock).  A check that can refuse a report     *)
(* (evidence, usage, gates, deadline) is a refusal that may happen.        *)
(***************************************************************************)
EXTENDS Naturals, FiniteSets

CONSTANTS
    Entries,
    Ids,            \* attempt ids
    Procs,          \* invocations of the command line, and coordinators
    Sessions,
    SessionOf,      \* the name each process acts under
    Verdicts,       \* the terminal statuses a report can ask for
    MaxParallel,    \* [coordinator] max_parallel
    MaxClaims,      \* bound: claims ever taken
    Free,           \* a lock nobody holds
    NoJob, NoRow, NoClaim, None

Active == {"reserved", "running", "assigned", "completing", "cancelling"}

Terminal == {"completed", "failed", "cancelled", "timed-out"}

(* What a report comes to: a verdict, or neither verdict nor refusal.      *)
Outcomes == Verdicts \union {"inconclusive"}

Claim == [by : Sessions, at : 1..MaxClaims]

(* `failed` is setup_error; `reaped` is reaped_by.                         *)
Row == [kind : {"exec", "external"}, by : Sessions, entry : Entries, at : 1..MaxClaims,
        status : Active \union Terminal, failed : BOOLEAN, reaped : BOOLEAN,
        report : {None} \union Outcomes, verdict : {None} \union Outcomes]

Phase == {"launch", "running", "handoff", "prepare", "setup", "list", "harvest", "apply",
          "note", "fold", "settle", "unclaim", "cancel", "unlist"}

(* What a process is in the middle of: the copy of the record it holds, and*)
(* the outcome its report asks for.                                        *)
Job == [phase : Phase, id : Ids, row : Row, outcome : {None} \union Outcomes]

ASSUME AttemptsAssumption ==
    /\ SessionOf \in [Procs -> Sessions]
    /\ MaxParallel \in Nat \ {0}
    /\ MaxClaims \in Nat
    /\ IsFiniteSet(Ids)
    /\ Free \notin Procs
    /\ NoJob \notin Job /\ NoRow \notin Row /\ NoClaim \notin Claim
    /\ None \notin Outcomes /\ None \notin {"assigned", "cancelled"}

VARIABLES
    row,        \* the record of each attempt
    claim,      \* the claim on each entry
    verdict,    \* the verdict on each entry
    receipts,   \* the external-complete events in each entry's history
    iteration,  \* what the iteration that dispatched each assignment says of it
    job,        \* what each process is in the middle of
    lock,       \* who is inside the claims lock
    handoff,    \* who is inside each assignment's handoff lock
    claimed,    \* how many claims were taken
    revived     \* ghost: a settled record was written over with an active one

vars == <<row, claim, verdict, receipts, iteration, job, lock, handoff, claimed, revived>>

TypeOK ==
    /\ row \in [Ids -> {NoRow} \union Row]
    /\ claim \in [Entries -> {NoClaim} \union Claim]
    /\ verdict \in [Entries -> {None} \union Verdicts]
    /\ receipts \in [Entries -> SUBSET (Ids \X Outcomes)]
    /\ iteration \in [Ids -> {None, "assigned", "cancelled"} \union Outcomes]
    /\ job \in [Procs -> {NoJob} \union Job]
    /\ lock \in Procs \union {Free}
    /\ handoff \in [Ids -> Procs \union {Free}]
    /\ claimed \in 0..MaxClaims
    /\ revived \in BOOLEAN

Init ==
    /\ row = [i \in Ids |-> NoRow]
    /\ claim = [e \in Entries |-> NoClaim]
    /\ verdict = [e \in Entries |-> None]
    /\ receipts = [e \in Entries |-> {}]
    /\ iteration = [i \in Ids |-> None]
    /\ job = [p \in Procs |-> NoJob]
    /\ lock = Free
    /\ handoff = [i \in Ids |-> Free]
    /\ claimed = 0
    /\ revived = FALSE

-----------------------------------------------------------------------------
Settled(i) == row[i].status \in Terminal

(* live_claim(): the claim the attempt is pinned to is still the entry's.  *)
LiveClaim(r) == claim[r.entry] = [by |-> r.by, at |-> r.at]

(* Fault: an attempt whose answer is being settled holds no slot.          *)
HoldsSlotUntilReported(i) ==
    row[i] # NoRow /\ row[i].status \in {"reserved", "running", "assigned"} /\ ~row[i].failed

(* A reservation whose setup failed executes nothing and holds no slot.    *)
HoldsSlot(i) == row[i] # NoRow /\ row[i].status \in Active /\ ~row[i].failed

(* _receipt(): the assignment's completion is in the entry's history.      *)
Receipted(i) == \E v \in Outcomes : <<i, v>> \in receipts[row[i].entry]

At(p, phase) == job[p] # NoJob /\ job[p].phase = phase

Mine(p) == job[p].row

Go(p, phase, r) == job' = [job EXCEPT ![p].phase = phase, ![p].row = r]

Done(p) == job' = [job EXCEPT ![p] = NoJob]

Leave(p) == handoff' = [handoff EXCEPT ![job[p].id] = Free]

(* save(): the record is replaced, whatever it says by now.                *)
SaveRow(i, r) ==
    /\ row' = [row EXCEPT ![i] = r]
    /\ revived' = (revived \/ (row[i] # NoRow /\ Settled(i) /\ r.status \in Active))

KeepEntry == UNCHANGED <<claim, verdict, receipts>>

KeepRest == UNCHANGED claimed

-----------------------------------------------------------------------------
(* reserve(), from `ar exec` and from assign(): the claim is proved, a slot*)
(* is free, and the attempt is on record before anything is spent.         *)
Reserve(p, i, e, kind) ==
    LET r == [kind |-> kind, by |-> SessionOf[p], entry |-> e, at |-> claim[e].at,
              status |-> "reserved", failed |-> FALSE, reaped |-> FALSE,
              report |-> None, verdict |-> None]
    IN
    /\ job[p] = NoJob /\ lock = Free
    /\ claim[e] # NoClaim /\ claim[e].by = SessionOf[p]
    /\ Cardinality({j \in Ids : HoldsSlot(j)}) < MaxParallel
    /\ row[i] = NoRow
    /\ SaveRow(i, r)
    /\ job' = [job EXCEPT ![p] = [phase |-> IF kind = "exec" THEN "launch" ELSE "handoff",
                                  id |-> i, row |-> r, outcome |-> None]]
    /\ KeepEntry /\ KeepRest /\ UNCHANGED <<iteration, lock, handoff>>

(* execute(): the command is started under the lock if the claim still     *)
(* stands ...                                                              *)
Launch(p) ==
    LET r == [Mine(p) EXCEPT !.status = "running"] IN
    /\ At(p, "launch") /\ lock = Free /\ LiveClaim(Mine(p))
    /\ SaveRow(job[p].id, r)
    /\ Go(p, "running", r)
    /\ KeepEntry /\ KeepRest /\ UNCHANGED <<iteration, lock, handoff>>

(* ... and settled with what became of it, which is `failed` if it never   *)
(* started.  A record settled meanwhile is not settled again.              *)
SettleExec(p) ==
    /\ At(p, "running") \/ At(p, "launch")
    /\ lock = Free
    /\ IF Settled(job[p].id) THEN UNCHANGED <<row, revived>>
       ELSE \E s \in Terminal :
               /\ At(p, "launch") => s \in {"failed", "cancelled"}
               /\ SaveRow(job[p].id, [row[job[p].id] EXCEPT !.status = s])
    /\ Done(p)
    /\ KeepEntry /\ KeepRest /\ UNCHANGED <<iteration, lock, handoff>>

(* checkpoint(confirm_inactive): the owner attests that nothing runs.      *)
Checkpoint(p, i) ==
    /\ job[p] = NoJob /\ lock = Free
    /\ row[i] # NoRow /\ row[i].kind = "exec" /\ row[i].by = SessionOf[p]
    /\ row[i].status \in Active
    /\ SaveRow(i, [row[i] EXCEPT !.status = "cancelled"])
    /\ KeepEntry /\ KeepRest /\ UNCHANGED <<iteration, job, lock, handoff>>

-----------------------------------------------------------------------------
(* assign(): the handoff lock is taken only after the reservation ...      *)
TakeHandoff(p) ==
    /\ At(p, "handoff") /\ handoff[job[p].id] = Free
    /\ handoff' = [handoff EXCEPT ![job[p].id] = p]
    /\ Go(p, "prepare", Mine(p))
    /\ KeepEntry /\ KeepRest /\ UNCHANGED <<row, iteration, lock, revived>>

(* ... the workspace is named on the record; without the claim, assign()   *)
(* raises here, outside its own recovery, and the reservation stays ...    *)
Prepare(p) ==
    /\ At(p, "prepare") /\ lock = Free
    /\ IF LiveClaim(Mine(p))
       THEN SaveRow(job[p].id, Mine(p)) /\ Go(p, "setup", Mine(p)) /\ UNCHANGED handoff
       ELSE Done(p) /\ Leave(p) /\ UNCHANGED <<row, revived>>
    /\ KeepEntry /\ KeepRest /\ UNCHANGED <<iteration, lock>>

(* ... the workspace is made and the brief exported ...                    *)
Export(p) ==
    LET r == [Mine(p) EXCEPT !.status = "assigned"] IN
    /\ At(p, "setup") /\ lock = Free /\ LiveClaim(Mine(p))
    /\ SaveRow(job[p].id, r)
    /\ Go(p, "list", r)
    /\ Leave(p)
    /\ KeepEntry /\ KeepRest /\ UNCHANGED <<iteration, lock>>

(* ... or that fails, and the reservation is kept as evidence.             *)
FailSetup(p) ==
    /\ At(p, "setup") /\ lock = Free
    /\ SaveRow(job[p].id, [Mine(p) EXCEPT !.failed = TRUE])
    /\ Done(p) /\ Leave(p)
    /\ KeepEntry /\ KeepRest /\ UNCHANGED <<iteration, lock>>

(* A coordinator's iteration record, written when the iteration ends, says *)
(* `assigned`; an assignment from the command line has none.               *)
ListAssigned(p) ==
    /\ At(p, "list")
    /\ iteration' = [iteration EXCEPT ![job[p].id] = "assigned"]
    /\ Done(p)
    /\ KeepEntry /\ KeepRest /\ UNCHANGED <<row, lock, handoff, revived>>

-----------------------------------------------------------------------------
(* Fault: a retry does not look for the receipt of the first attempt.      *)
CompleteAfresh(p, i, o) ==
    /\ job[p] = NoJob /\ handoff[i] = Free
    /\ row[i] # NoRow /\ row[i].kind = "external" /\ row[i].by = SessionOf[p]
    /\ row[i].status \in {"assigned", "completing"}
    /\ row[i].report \in {None, o}
    /\ handoff' = [handoff EXCEPT ![i] = p]
    /\ job' = [job EXCEPT ![p] = [phase |-> "harvest", id |-> i, row |-> row[i], outcome |-> o]]
    /\ KeepEntry /\ KeepRest /\ UNCHANGED <<row, iteration, lock, revived>>

(* complete(): the record is loaded under the handoff lock, not yet under  *)
(* the claims lock.  A receipt on the entry says that an earlier try got as*)
(* far as the verdict, and only the settlement is left.                    *)
Complete(p, i, o) ==
    /\ job[p] = NoJob /\ handoff[i] = Free
    /\ row[i] # NoRow /\ row[i].kind = "external" /\ row[i].by = SessionOf[p]
    /\ row[i].status \in {"assigned", "completing"}
    /\ row[i].report \in {None, o}
    /\ handoff' = [handoff EXCEPT ![i] = p]
    /\ \E phase \in {"harvest", "settle"}, v \in {None} \union Outcomes :
          /\ IF phase = "settle" THEN <<i, v>> \in receipts[row[i].entry]
             ELSE v = row[i].verdict /\ ~Receipted(i)
          /\ job' = [job EXCEPT ![p] = [phase |-> phase, id |-> i, outcome |-> o,
                                        row |-> [row[i] EXCEPT !.verdict = v]]]
    /\ KeepEntry /\ KeepRest /\ UNCHANGED <<row, iteration, lock, revived>>

(* Evidence, usage, deadline: the report is refused before it is on record.*)
RefuseReport(p) ==
    /\ At(p, "harvest")
    /\ Done(p) /\ Leave(p)
    /\ KeepEntry /\ KeepRest /\ UNCHANGED <<row, iteration, lock, revived>>

(* Past every such check, and with the claim still live, the report is put *)
(* on the record, which becomes `completing`.                              *)
Harvest(p) ==
    LET r == [Mine(p) EXCEPT !.status = "completing", !.report = job[p].outcome] IN
    /\ At(p, "harvest") /\ lock = Free /\ LiveClaim(Mine(p))
    /\ lock' = p
    /\ SaveRow(job[p].id, r)
    /\ Go(p, "apply", r)
    /\ KeepEntry /\ KeepRest /\ UNCHANGED <<iteration, handoff>>

(* _apply_verdict_locked(): the verdict, or the release of the claim, goes *)
(* to the entry in one save with the receipt.  An entry closed meanwhile   *)
(* gives its own status and gets no receipt; nor does an inconclusive      *)
(* report whose release is refused.                                        *)
ApplyVerdict(p) ==
    LET i == job[p].id
        e == Mine(p).entry
        o == job[p].outcome
        Return(v) == Go(p, "note", [Mine(p) EXCEPT !.verdict = v])
    IN
    /\ At(p, "apply")
    /\ \/ /\ verdict[e] # None
          /\ Return(verdict[e])
          /\ KeepEntry
       \/ /\ verdict[e] = None /\ claim[e] # NoClaim
          /\ o = "inconclusive" => LiveClaim(Mine(p))
          /\ verdict' = [verdict EXCEPT ![e] = IF o \in Verdicts THEN o ELSE None]
          /\ claim' = [claim EXCEPT ![e] = NoClaim]
          /\ receipts' = [receipts EXCEPT ![e] = @ \union {<<i, o>>}]
          /\ Return(o)
       \/ /\ o = "inconclusive"
          /\ Return(o)
          /\ KeepEntry
    /\ KeepRest /\ UNCHANGED <<row, iteration, lock, handoff, revived>>

(* A gate refuses the close, or the save finds the entry changed: nothing  *)
(* was applied, the claim is kept, and the record is assigned again, with  *)
(* no report.                                                              *)
RefuseClose(p) ==
    /\ At(p, "apply")
    /\ SaveRow(job[p].id, [Mine(p) EXCEPT !.status = "assigned", !.report = None, !.verdict = None])
    /\ lock' = Free
    /\ Done(p) /\ Leave(p)
    /\ KeepEntry /\ KeepRest /\ UNCHANGED iteration

NoteVerdict(p) ==
    /\ At(p, "note")
    /\ SaveRow(job[p].id, Mine(p))
    /\ Go(p, "fold", Mine(p))
    /\ KeepEntry /\ KeepRest /\ UNCHANGED <<iteration, lock, handoff>>

(* _fold_back_verdict(), if the iteration's record is there and still says *)
(* assigned.                                                               *)
FoldBack(i, v) ==
    iteration' = IF iteration[i] = "assigned" THEN [iteration EXCEPT ![i] = v] ELSE iteration

(* Fault: the record's own status is folded back, and not the verdict.     *)
FoldStatus(p) ==
    /\ At(p, "fold")
    /\ FoldBack(job[p].id, Mine(p).status)
    /\ lock' = Free
    /\ Go(p, "settle", Mine(p))
    /\ KeepEntry /\ KeepRest /\ UNCHANGED <<row, handoff, revived>>

(* The claims lock is left with the verdict in all three files but the     *)
(* record's settlement still to come.                                      *)
Fold(p) ==
    /\ At(p, "fold")
    /\ FoldBack(job[p].id, Mine(p).verdict)
    /\ lock' = Free
    /\ Go(p, "settle", Mine(p))
    /\ KeepEntry /\ KeepRest /\ UNCHANGED <<row, handoff, revived>>

(* settle(): the record is loaded anew; one settled meanwhile is left as it*)
(* is, with an error if it was settled otherwise.                          *)
Settle(p) ==
    LET i == job[p].id IN
    /\ At(p, "settle") /\ lock = Free
    /\ IF Settled(i) THEN UNCHANGED <<row, revived>>
       ELSE SaveRow(i, [row[i] EXCEPT !.status = "completed", !.verdict = Mine(p).verdict])
    /\ Done(p) /\ Leave(p)
    /\ KeepEntry /\ KeepRest /\ UNCHANGED <<iteration, lock>>

-----------------------------------------------------------------------------
(* Fault: the entry's history is not asked for a completion.               *)
CancelReceipted(p, i) ==
    LET r == [row[i] EXCEPT !.status = "cancelling"] IN
    /\ job[p] = NoJob /\ handoff[i] = Free /\ lock = Free
    /\ row[i] # NoRow /\ row[i].kind = "external" /\ row[i].by = SessionOf[p]
    /\ row[i].status \in Active
    /\ handoff' = [handoff EXCEPT ![i] = p]
    /\ lock' = p
    /\ SaveRow(i, r)
    /\ job' = [job EXCEPT ![p] = [phase |-> "unclaim", id |-> i, row |-> r, outcome |-> None]]
    /\ KeepEntry /\ KeepRest /\ UNCHANGED iteration

(* cancel(): under both locks throughout, and never once a completion was  *)
(* applied.                                                                *)
Cancel(p, i) ==
    LET r == [row[i] EXCEPT !.status = "cancelling"] IN
    /\ job[p] = NoJob /\ handoff[i] = Free /\ lock = Free
    /\ row[i] # NoRow /\ row[i].kind = "external" /\ row[i].by = SessionOf[p]
    /\ row[i].status \in Active
    /\ ~Receipted(i)
    /\ handoff' = [handoff EXCEPT ![i] = p]
    /\ lock' = p
    /\ SaveRow(i, r)
    /\ job' = [job EXCEPT ![p] = [phase |-> "unclaim", id |-> i, row |-> r, outcome |-> None]]
    /\ KeepEntry /\ KeepRest /\ UNCHANGED iteration

(* Fault: the entry's claim is released whoever took it, and when.         *)
UnclaimAny(p) ==
    /\ At(p, "unclaim")
    /\ claim' = [claim EXCEPT ![Mine(p).entry] = NoClaim]
    /\ Go(p, "cancel", Mine(p))
    /\ KeepRest /\ UNCHANGED <<row, verdict, receipts, iteration, lock, handoff, revived>>

(* The claim is released if it is the one the assignment was made under.   *)
Unclaim(p) ==
    LET e == Mine(p).entry IN
    /\ At(p, "unclaim")
    /\ claim' = IF LiveClaim(Mine(p)) THEN [claim EXCEPT ![e] = NoClaim] ELSE claim
    /\ Go(p, "cancel", Mine(p))
    /\ KeepRest /\ UNCHANGED <<row, verdict, receipts, iteration, lock, handoff, revived>>

FinishCancel(p) ==
    LET r == [Mine(p) EXCEPT !.status = "cancelled"] IN
    /\ At(p, "cancel")
    /\ SaveRow(job[p].id, r)
    /\ Go(p, "unlist", r)
    /\ KeepEntry /\ KeepRest /\ UNCHANGED <<iteration, lock, handoff>>

FoldCancel(p) ==
    /\ At(p, "unlist")
    /\ FoldBack(job[p].id, "cancelled")
    /\ lock' = Free
    /\ Done(p) /\ Leave(p)
    /\ KeepEntry /\ KeepRest /\ UNCHANGED <<row, revived>>

(* Fault: the record is not read again once the lock is held.              *)
ReapSettled(p, i) ==
    /\ job[p] = NoJob /\ lock = Free
    /\ row[i] # NoRow /\ row[i].kind = "external"
    /\ SaveRow(i, [row[i] EXCEPT !.status = "cancelled", !.reaped = TRUE])
    /\ KeepEntry /\ KeepRest /\ UNCHANGED <<iteration, job, lock, handoff>>

(* reap_assignment(): any session's assignment, under the claims lock but  *)
(* not the handoff lock.  Time is not counted: the TTL may have passed.    *)
ReapAssignment(p, i) ==
    /\ job[p] = NoJob /\ lock = Free
    /\ row[i] # NoRow /\ row[i].kind = "external" /\ ~Settled(i)
    /\ SaveRow(i, [row[i] EXCEPT !.status = "cancelled", !.reaped = TRUE])
    /\ KeepEntry /\ KeepRest /\ UNCHANGED <<iteration, job, lock, handoff>>

-----------------------------------------------------------------------------
(* The rest of the system: claims are taken and end (Claims), and an entry *)
(* is closed or reopened by a verb that takes neither lock.                *)
TakeClaim(p, e) ==
    /\ lock = Free /\ claim[e] = NoClaim /\ verdict[e] = None
    /\ claimed < MaxClaims
    /\ claimed' = claimed + 1
    /\ claim' = [claim EXCEPT ![e] = [by |-> SessionOf[p], at |-> claimed + 1]]
    /\ UNCHANGED <<row, verdict, receipts, iteration, job, lock, handoff, revived>>

EndClaim(e) ==
    /\ lock = Free /\ claim[e] # NoClaim
    /\ claim' = [claim EXCEPT ![e] = NoClaim]
    /\ UNCHANGED <<row, verdict, receipts, iteration, job, lock, handoff, claimed, revived>>

CloseEntry(e) ==
    /\ claim[e] # NoClaim
    /\ claim' = [claim EXCEPT ![e] = NoClaim]
    /\ \E v \in Verdicts : verdict' = [verdict EXCEPT ![e] = v]
    /\ UNCHANGED <<row, receipts, iteration, job, lock, handoff, claimed, revived>>

ReopenEntry(e) ==
    /\ claim[e] # NoClaim \/ verdict[e] # None
    /\ claim' = [claim EXCEPT ![e] = NoClaim]
    /\ verdict' = [verdict EXCEPT ![e] = None]
    /\ UNCHANGED <<row, receipts, iteration, job, lock, handoff, claimed, revived>>

(* The process dies, or gives up on a lock or on an error it does not      *)
(* handle: its copies are gone and its locks come free.                    *)
Crash(p) ==
    /\ job[p] # NoJob
    /\ Done(p)
    /\ lock' = IF lock = p THEN Free ELSE lock
    /\ handoff' = [i \in Ids |-> IF handoff[i] = p THEN Free ELSE handoff[i]]
    /\ KeepEntry /\ KeepRest /\ UNCHANGED <<row, iteration, revived>>

-----------------------------------------------------------------------------
Exec(p) == Launch(p) \/ SettleExec(p)

Assign(p) == TakeHandoff(p) \/ Prepare(p) \/ Export(p) \/ FailSetup(p) \/ ListAssigned(p)

Completion(p) ==
    \/ RefuseReport(p)
    \/ Harvest(p)
    \/ ApplyVerdict(p)
    \/ RefuseClose(p)
    \/ NoteVerdict(p)
    \/ Fold(p)
    \/ Settle(p)

Cancellation(p) == Unclaim(p) \/ FinishCancel(p) \/ FoldCancel(p)

Begin(p, i) ==
    \/ \E e \in Entries, kind \in {"exec", "external"} : Reserve(p, i, e, kind)
    \/ \E o \in Outcomes : Complete(p, i, o)
    \/ Checkpoint(p, i)
    \/ Cancel(p, i)
    \/ ReapAssignment(p, i)

Next ==
    \/ \E p \in Procs, i \in Ids : Begin(p, i)
    \/ \E p \in Procs : Exec(p) \/ Assign(p) \/ Completion(p) \/ Cancellation(p) \/ Crash(p)
    \/ \E p \in Procs, e \in Entries : TakeClaim(p, e)
    \/ \E e \in Entries : EndClaim(e) \/ CloseEntry(e) \/ ReopenEntry(e)

Spec == Init /\ [][Next]_vars

(* Whoever has the report runs `ar external complete` again until it goes  *)
(* through, and a process at work goes on or dies.  The scheduler lets a   *)
(* retry reach the settlement once in a while, however often it was killed.*)
Fairness ==
    \A p \in Procs :
        /\ \A i \in Ids, o \in Outcomes : SF_vars(Complete(p, i, o))
        /\ SF_vars(Settle(p))
        /\ WF_vars(Completion(p) \/ Crash(p))

FairSpec == Spec /\ Fairness

-----------------------------------------------------------------------------
(* No more attempts are in flight than max_parallel, whoever reserves, dies*)
(* or settles; except after a settled record was written over, which a reap*)
(* or a checkpoint of an attempt that still moves can lead to.             *)
SlotCeiling ==
    \/ revived
    \/ Cardinality({i \in Ids : row[i] # NoRow /\ row[i].status \in Active /\ ~row[i].failed})
          <= MaxParallel

(* Once a completion is on the entry, its record tells the same story: the *)
(* report is the one applied, the record is settled or about to be, with   *)
(* that verdict, and only a reap across sessions calls it cancelled.       *)
ReceiptsAgree ==
    \A e \in Entries : \A receipt \in receipts[e] :
        LET r == row[receipt[1]] IN
        /\ r # NoRow /\ r.entry = e /\ r.report = receipt[2]
        /\ r.status \in {"completing", "completed"} \/ (r.status = "cancelled" /\ r.reaped)
        /\ r.status = "completed" => r.verdict = receipt[2]

(* A stale assignment settles its own record and never ends a claim taken  *)
(* after it (external.py on cancel).                                       *)
EndsOwnClaimOnly ==
    [][\A p \in Procs, e \in Entries :
          job[p] # NoJob /\ job'[p] # job[p] /\ claim'[e] # claim[e]
              => e = Mine(p).entry /\ LiveClaim(Mine(p))]_vars

(* A completed assignment is final: no retry, cancel, reap or late copy    *)
(* changes its record again.                                               *)
CompletedStays ==
    [][\A i \in Ids : row[i] # NoRow /\ row[i].status = "completed" => row'[i] = row[i]]_vars

(* A completion that got as far as the entry is settled in the end, however*)
(* often the process that retries it dies.                                 *)
Applied(i) == row[i] # NoRow /\ row[i].status = "completing" /\ Receipted(i)

Finished(i) == row[i] # NoRow /\ row[i].status # "completing"

AppliedSettles == \A i \in Ids : Applied(i) ~> Finished(i)

(* An assignment that was settled or cancelled, with nobody at work on it  *)
(* any more, is not counted as outstanding by the iteration it came from.  *)
IterationsTold ==
    \A i \in Ids :
        row[i] # NoRow /\ Settled(i) /\ (\A p \in Procs : job[p] = NoJob \/ job[p].id # i)
            => iteration[i] # "assigned"
=============================================================================
