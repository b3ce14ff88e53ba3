-------------------------- MODULE AttemptsProofs --------------------------
(* Proofs about Attempts: for any number of processes, attempts, entries   *)
(* and sessions.                                                           *)
EXTENDS Attempts, TLAPS, FiniteSetTheorems

Reserving == {"launch", "running", "handoff", "prepare", "setup", "list"}
Completing == {"harvest", "apply", "note", "fold", "settle"}
Cancelling == {"unclaim", "cancel", "unlist"}
Unassigned == {"handoff", "prepare", "setup"}
UnderHandoff == {"prepare", "setup"} \union Completing \union Cancelling
UnderLock == {"apply", "note", "fold"} \union Cancelling

(* Who is in a phase of a lock has the lock.                               *)
HandoffHeld ==
    \A p \in Procs : job[p] # NoJob /\ job[p].phase \in UnderHandoff => handoff[job[p].id] = p

LockHeld == \A p \in Procs : job[p] # NoJob /\ job[p].phase \in UnderLock => lock = p

SameAttempt(r, s) ==
    r.kind = s.kind /\ r.by = s.by /\ r.entry = s.entry /\ r.at = s.at /\ r.failed = s.failed

(* A copy may be old, but not in what never changes, nor in whether the    *)
(* setup failed.                                                           *)
CopiesAgree ==
    \A p \in Procs : job[p] # NoJob =>
        /\ row[job[p].id] # NoRow
        /\ SameAttempt(Mine(p), row[job[p].id])
        /\ Mine(p).kind = "exec" <=> job[p].phase \in {"launch", "running"}
        /\ job[p].phase \in Completing => job[p].outcome \in Outcomes

OneReserver ==
    \A p, q \in Procs :
        job[p] # NoJob /\ job[q] # NoJob /\ job[p].id = job[q].id
        /\ job[p].phase \in Reserving /\ job[q].phase \in Reserving => p = q

(* Until the assignment is exported nobody can report on it.               *)
Unexported ==
    \A p \in Procs : job[p] # NoJob /\ job[p].phase \in Unassigned =>
        /\ Mine(p).status = "reserved"
        /\ row[job[p].id].status \in {"reserved", "cancelling", "cancelled"}
        /\ \A q \in Procs : job[q] # NoJob /\ job[q].id = job[p].id =>
             job[q].phase \notin Completing

Underway ==
    \A p \in Procs : job[p] # NoJob =>
        /\ job[p].phase \in {"launch", "running", "harvest"} => row[job[p].id].status # "completed"
        /\ job[p].phase \in {"apply", "note", "fold"} =>
              row[job[p].id].status = "completing" /\ row[job[p].id].report = job[p].outcome
        /\ job[p].phase \in {"apply", "note"} =>
              Mine(p).status = "completing" /\ Mine(p).report = job[p].outcome
        /\ job[p].phase \in {"unclaim", "cancel"} => row[job[p].id].status = "cancelling"

ClaimPinned ==
    \A p \in Procs : job[p] # NoJob /\ job[p].phase = "apply"
                        => claim[Mine(p).entry] = NoClaim \/ LiveClaim(Mine(p))

External == \A e \in Entries : \A receipt \in receipts[e] : row[receipt[1]].kind = "external"

Unreceipted ==
    \A p \in Procs, e \in Entries, v \in Outcomes :
        job[p] # NoJob /\ <<job[p].id, v>> \in receipts[e] =>
           /\ job[p].phase \notin Unassigned \union {"harvest", "apply"} \union Cancelling
           /\ job[p].phase \in {"note", "fold", "settle"} => Mine(p).verdict = v

StructInv == TypeOK /\ HandoffHeld /\ LockHeld /\ CopiesAgree /\ OneReserver

StatusInv == Unexported /\ Underway /\ ClaimPinned

ReceiptInv == ReceiptsAgree /\ External /\ Unreceipted

IInv == StructInv /\ StatusInv /\ ReceiptInv

(* What a step must not do: touch a completed record, take a slot that is  *)
(* not free, end a claim that is not the attempt's.                        *)
KeepsFinal ==
    \A i \in Ids : row[i] # NoRow /\ row[i].status = "completed" => row'[i] = row[i]

Slots == {i \in Ids : HoldsSlot(i)}

SlotsKept ==
    \/ revived'
    \/ ~revived /\ \/ Slots' \subseteq Slots
                   \/ /\ Cardinality(Slots) < MaxParallel
                      /\ \E i \in Ids : Slots' \subseteq Slots \union {i}

OwnClaims ==
    \A p \in Procs, e \in Entries :
        job[p] # NoJob /\ job'[p] # job[p] /\ claim'[e] # claim[e]
            => e = Mine(p).entry /\ LiveClaim(Mine(p))

Careful == KeepsFinal /\ SlotsKept /\ OwnClaims

LEMMA RowsAreRows == \A r \in Row : r # NoRow
BY AttemptsAssumption

LEMMA JobsAreJobs == \A j \in Job : j # NoJob
BY AttemptsAssumption

LEMMA JobIsJob ==
  ASSUME TypeOK, NEW p \in Procs, job[p] # NoJob
  PROVE  /\ job[p] \in Job /\ job[p].phase \in Phase /\ job[p].id \in Ids /\ Mine(p) \in Row
         /\ job[p].outcome \in {None} \union Outcomes
         /\ Mine(p).verdict \in {None} \union Outcomes
BY DEF TypeOK, Job, Mine, Row

LEMMA RowIsRow ==
  ASSUME TypeOK, NEW i \in Ids, row[i] # NoRow
  PROVE  row[i] \in Row
BY DEF TypeOK

(* p goes on to another phase, with the record r in hand.                  *)
Moved(p, phase, r) ==
    /\ job' \in [Procs -> {NoJob} \union Job]
    /\ job'[p] # NoJob /\ job'[p].phase = phase /\ job'[p].row = r
    /\ job'[p].id = job[p].id /\ job'[p].outcome = job[p].outcome
    /\ \A q \in Procs : q # p => job'[q] = job[q]

Stopped(p) ==
    /\ job' \in [Procs -> {NoJob} \union Job]
    /\ job'[p] = NoJob
    /\ \A q \in Procs : q # p => job'[q] = job[q]

(* Exactly the record of i is written, and it is r now.                    *)
Wrote(i, r) ==
    /\ row' \in [Ids -> {NoRow} \union Row]
    /\ revived' \in BOOLEAN
    /\ row'[i] = r /\ row'[i] # NoRow
    /\ \A k \in Ids : k # i => row'[k] = row[k]
    /\ ~revived' => ~revived /\ ~(row[i] # NoRow /\ Settled(i) /\ r.status \in Active)

(* s is r with these fields. *)
Amends(s, r, status, report, verd, reaped) ==
    /\ s \in Row /\ SameAttempt(s, r) /\ s.status = status
    /\ s.report = report /\ s.verdict = verd /\ s.reaped = reaped

LEMMA Amended ==
  ASSUME NEW r \in Row, NEW s \in Active \union Terminal,
         NEW o \in {None} \union Outcomes, NEW v \in {None} \union Outcomes
  PROVE  /\ Amends([r EXCEPT !.status = s], r, s, r.report, r.verdict, r.reaped)
         /\ Amends([r EXCEPT !.verdict = v], r, r.status, r.report, v, r.reaped)
         /\ Amends([r EXCEPT !.status = s, !.report = o], r, s, o, r.verdict, r.reaped)
         /\ Amends([r EXCEPT !.status = s, !.verdict = v], r, s, r.report, v, r.reaped)
         /\ Amends([r EXCEPT !.status = s, !.reaped = TRUE], r, s, r.report, r.verdict, TRUE)
         /\ Amends([r EXCEPT !.status = s, !.report = o, !.verdict = v], r, s, o, v, r.reaped)
BY DEF Amends, Row, SameAttempt

LEMMA Failed ==
  ASSUME NEW r \in Row
  PROVE  LET s == [r EXCEPT !.failed = TRUE] IN
         /\ s \in Row /\ s.kind = r.kind /\ s.by = r.by /\ s.entry = r.entry /\ s.at = r.at
         /\ s.status = r.status /\ s.report = r.report /\ s.failed = TRUE
BY DEF Row

(* p starts on attempt i.                                                  *)
Began(p, phase, i, r, o) ==
    /\ job' \in [Procs -> {NoJob} \union Job]
    /\ job'[p] # NoJob /\ job'[p].phase = phase /\ job'[p].row = r
    /\ job'[p].id = i /\ job'[p].outcome = o
    /\ \A q \in Procs : q # p => job'[q] = job[q]

LEMMA Started ==
  ASSUME TypeOK, NEW p \in Procs, NEW phase \in Phase, NEW i \in Ids, NEW r \in Row,
         NEW o \in {None} \union Outcomes,
         job' = [job EXCEPT ![p] = [phase |-> phase, id |-> i, row |-> r, outcome |-> o]]
  PROVE  Began(p, phase, i, r, o)
<1> DEFINE j == [phase |-> phase, id |-> i, row |-> r, outcome |-> o]
<1>1. j \in Job /\ j.phase = phase /\ j.id = i /\ j.row = r /\ j.outcome = o
  BY DEF Job
<1>2. job' = [job EXCEPT ![p] = j]
  OBVIOUS
<1> HIDE DEF j
<1>3. QED
  BY <1>1, <1>2, JobsAreJobs DEF TypeOK, Began

LEMMA Gone ==
  ASSUME TypeOK, NEW p \in Procs, job[p] # NoJob, NEW phase \in Phase, NEW r \in Row,
         Go(p, phase, r)
  PROVE  Moved(p, phase, r)
<1>1. job[p] \in Job
  BY JobIsJob
<1> DEFINE j == [job[p] EXCEPT !.phase = phase, !.row = r]
<1>2. j \in Job
  BY <1>1 DEF Job
<1>3. j.phase = phase /\ j.row = r /\ j.id = job[p].id /\ j.outcome = job[p].outcome
  OBVIOUS
<1>4. job' = [job EXCEPT ![p] = j]
  BY DEF Go
<1> HIDE DEF j
<1>5. QED
  BY <1>2, <1>3, <1>4, JobsAreJobs DEF TypeOK, Moved

LEMMA Ended ==
  ASSUME TypeOK, NEW p \in Procs, Done(p)
  PROVE  Stopped(p)
BY DEF TypeOK, Done, Stopped

LeftBy(p) ==
    /\ handoff' \in [Ids -> Procs \union {Free}]
    /\ \A i \in Ids : i # job[p].id => handoff'[i] = handoff[i]

LEMMA Left ==
  ASSUME TypeOK, NEW p \in Procs, job[p] # NoJob, Leave(p)
  PROVE  LeftBy(p)
BY JobIsJob DEF TypeOK, Leave, LeftBy

LEMMA Saved ==
  ASSUME TypeOK, NEW i \in Ids, NEW r \in Row, SaveRow(i, r)
  PROVE  Wrote(i, r)
<1>1. /\ row' = [row EXCEPT ![i] = r]
      /\ revived' = (revived \/ (row[i] # NoRow /\ Settled(i) /\ r.status \in Active))
  BY DEF SaveRow
<1>2. revived' \in BOOLEAN /\
      (~revived' => ~revived /\ ~(row[i] # NoRow /\ Settled(i) /\ r.status \in Active))
  BY <1>1 DEF TypeOK
<1>3. QED
  BY <1>1, <1>2, RowsAreRows DEF TypeOK, Wrote

LEMMA WriteSlots ==
  ASSUME TypeOK, NEW i \in Ids, NEW r \in Row, row[i] # NoRow, Wrote(i, r),
         row[i].failed => r.failed
  PROVE  SlotsKept
BY DEF SlotsKept, Slots, HoldsSlot, Settled, Wrote, TypeOK, Row

LEMMA LaunchKeeps ==
  ASSUME IInv, NEW p \in Procs, Launch(p)
  PROVE  IInv' /\ Careful
<1> USE DEF IInv, StructInv
<1> DEFINE r == [Mine(p) EXCEPT !.status = "running"]
<1>1. TypeOK /\ job[p] # NoJob /\ job[p].phase = "launch" /\ lock = Free /\
      UNCHANGED <<iteration, lock, handoff>>
      /\ UNCHANGED <<claim, verdict, receipts, claimed>>
  BY DEF Launch, At, KeepEntry, KeepRest
<1>2. job[p].id \in Ids /\ Mine(p) \in Row /\ job[p].outcome \in {None} \union Outcomes
      /\ Mine(p).verdict \in {None} \union Outcomes
  BY <1>1, JobIsJob
<1>3. Amends(r, Mine(p), "running", Mine(p).report, Mine(p).verdict, Mine(p).reaped)
  BY <1>2, Amended DEF Active, Terminal
<1>4. SaveRow(job[p].id, r) /\ Go(p, "running", r)
  BY DEF Launch
<1> HIDE DEF r
<1>5. Moved(p, "running", r) /\ Wrote(job[p].id, r)
  BY <1>1, <1>2, <1>3, <1>4, Gone, Saved DEF Phase, Amends
<1>6. \A e \in Entries : \A receipt \in receipts[e] : receipt[1] # job[p].id
  BY <1>1 DEF ReceiptInv, External, CopiesAgree, SameAttempt
<1>7. TypeOK'
  BY <1>1, <1>5 DEF TypeOK, Moved, Wrote
<1>8. HandoffHeld' /\ LockHeld' /\ OneReserver'
  BY <1>1, <1>2, <1>3, <1>5, <1>6, AttemptsAssumption, JobIsJob
     DEF HandoffHeld, LockHeld, OneReserver, Reserving, UnderHandoff, UnderLock, Completing,
         Cancelling, Moved
<1>9. CopiesAgree'
  BY <1>1, <1>3, <1>5, AttemptsAssumption, JobIsJob
     DEF CopiesAgree, SameAttempt, Mine, Completing, Amends, Moved, Wrote
<1>10. StatusInv'
  BY <1>1, <1>2, <1>3, <1>5, <1>6, AttemptsAssumption, JobIsJob
     DEF StatusInv, Unexported, Underway, ClaimPinned, LockHeld, OneReserver, Reserving,
         UnderLock, Mine, Completing, Cancelling, Unassigned, Amends, Moved, Wrote
<1>11. ReceiptInv'
  BY <1>1, <1>2, <1>3, <1>5, <1>6, AttemptsAssumption, JobIsJob
     DEF TypeOK, CopiesAgree, ReceiptInv, Mine, Cancelling, UnderLock, Amends, ReceiptsAgree,
         External, Unreceipted, Moved, Wrote
<1>12. SlotsKept
  BY <1>1, <1>2, <1>3, <1>5, WriteSlots DEF CopiesAgree, SameAttempt, Amends
<1>13. KeepsFinal /\ OwnClaims
  BY <1>1, <1>5 DEF StatusInv, Underway, KeepsFinal, OwnClaims, Wrote
<1>14. QED
  BY <1>7, <1>8, <1>9, <1>10, <1>11, <1>12, <1>13 DEF Careful

LEMMA TakeHandoffKeeps ==
  ASSUME IInv, NEW p \in Procs, TakeHandoff(p)
  PROVE  IInv' /\ Careful
<1> USE DEF IInv, StructInv
<1>1. TypeOK /\ job[p] # NoJob /\ job[p].phase = "handoff" /\ handoff[job[p].id] = Free /\
      UNCHANGED <<row, iteration, lock, revived>>
         /\ handoff' = [handoff EXCEPT ![job[p].id] = p]
      /\ UNCHANGED <<claim, verdict, receipts, claimed>>
  BY DEF TakeHandoff, At, KeepEntry, KeepRest
<1>2. job[p].id \in Ids /\ Mine(p) \in Row /\ job[p].outcome \in {None} \union Outcomes
      /\ Mine(p).verdict \in {None} \union Outcomes
  BY <1>1, JobIsJob
<1>3. Go(p, "prepare", Mine(p))
  BY DEF TakeHandoff
<1>4. Moved(p, "prepare", Mine(p))
  BY <1>1, <1>2, <1>3, Gone DEF Phase
<1>5. TypeOK'
  BY <1>1, <1>2, <1>4 DEF TypeOK, Moved
<1>6. HandoffHeld' /\ LockHeld' /\ OneReserver'
  BY <1>1, <1>2, <1>4, AttemptsAssumption, JobIsJob
     DEF HandoffHeld, LockHeld, OneReserver, Reserving, UnderLock, Cancelling, Moved, TypeOK
<1>7. CopiesAgree'
  BY <1>1, <1>4 DEF CopiesAgree, Mine, Completing, Moved
<1>8. Unexported'
  BY <1>1, <1>2, <1>4, AttemptsAssumption, JobIsJob
     DEF StatusInv, Unexported, Mine, Completing, Unassigned, Moved
<1>9. Underway'
  BY <1>1, <1>4, JobIsJob DEF StatusInv, Underway, Mine, Moved
<1>10. ClaimPinned'
  BY <1>1, <1>4 DEF StatusInv, ClaimPinned, LiveClaim, Mine, Moved
<1>11. ReceiptInv'
  BY <1>1, <1>2, <1>4, AttemptsAssumption, JobIsJob
     DEF ReceiptInv, Mine, Unassigned, ReceiptsAgree, External, Unreceipted, Moved
<1>12. SlotsKept
  BY <1>1 DEF SlotsKept, Slots, HoldsSlot
<1>13. KeepsFinal /\ OwnClaims
  BY <1>1 DEF KeepsFinal, OwnClaims
<1>14. QED
  BY <1>5, <1>6, <1>7, <1>8, <1>9, <1>10, <1>11, <1>12, <1>13 DEF StatusInv, Careful

LEMMA ExportKeeps ==
  ASSUME IInv, NEW p \in Procs, Export(p)
  PROVE  IInv' /\ Careful
<1> USE DEF IInv, StructInv
<1> DEFINE r == [Mine(p) EXCEPT !.status = "assigned"]
<1>1. TypeOK /\ job[p] # NoJob /\ job[p].phase = "setup" /\ lock = Free /\
      UNCHANGED <<iteration, lock>>
      /\ UNCHANGED <<claim, verdict, receipts, claimed>>
  BY DEF Export, At, KeepEntry, KeepRest
<1>2. job[p].id \in Ids /\ Mine(p) \in Row /\ job[p].outcome \in {None} \union Outcomes
      /\ Mine(p).verdict \in {None} \union Outcomes
  BY <1>1, JobIsJob
<1>3. Amends(r, Mine(p), "assigned", Mine(p).report, Mine(p).verdict, Mine(p).reaped)
  BY <1>2, Amended DEF Active, Terminal
<1>4. SaveRow(job[p].id, r) /\ Go(p, "list", r) /\ Leave(p)
  BY DEF Export
<1> HIDE DEF r
<1>5. Moved(p, "list", r) /\ Wrote(job[p].id, r) /\ LeftBy(p)
  BY <1>1, <1>2, <1>3, <1>4, Gone, Saved, Left DEF Phase, Amends
<1>6. TypeOK'
  BY <1>1, <1>5 DEF TypeOK, Moved, Wrote, LeftBy
<1>7. HandoffHeld' /\ LockHeld' /\ OneReserver'
  BY <1>1, <1>2, <1>3, <1>5, AttemptsAssumption, JobIsJob
     DEF HandoffHeld, LockHeld, OneReserver, Reserving, UnderHandoff, UnderLock, Completing,
         Cancelling, Moved, LeftBy
<1>8. CopiesAgree'
  BY <1>1, <1>3, <1>5, AttemptsAssumption, JobIsJob
     DEF CopiesAgree, SameAttempt, Mine, Completing, Amends, Moved, Wrote
<1>9. StatusInv'
  BY <1>1, <1>2, <1>3, <1>5, AttemptsAssumption, JobIsJob
     DEF StatusInv, Unexported, Underway, ClaimPinned, LockHeld, OneReserver, Reserving,
         UnderLock, Mine, Completing, Cancelling, Unassigned, Amends, Moved, Wrote, LeftBy
<1>10. ReceiptInv'
  BY <1>1, <1>2, <1>3, <1>5, AttemptsAssumption, JobIsJob
     DEF TypeOK, CopiesAgree, HandoffHeld, LockHeld, ReceiptInv, StatusInv, Unexported,
         Underway, SameAttempt, Mine, Unassigned, Completing, Cancelling, UnderHandoff,
    UnderLock, Amends, ReceiptsAgree, External, Unreceipted, Moved, Wrote, LeftBy
<1>11. SlotsKept
  BY <1>1, <1>2, <1>3, <1>5, WriteSlots DEF CopiesAgree, SameAttempt, Amends
<1>12. KeepsFinal /\ OwnClaims
  BY <1>1, <1>5, AttemptsAssumption
     DEF StatusInv, Unexported, Unassigned, KeepsFinal, OwnClaims, Wrote
<1>13. QED
  BY <1>6, <1>7, <1>8, <1>9, <1>10, <1>11, <1>12 DEF Careful

LEMMA FailSetupKeeps ==
  ASSUME IInv, NEW p \in Procs, FailSetup(p)
  PROVE  IInv' /\ Careful
<1> USE DEF IInv, StructInv
<1> DEFINE r == [Mine(p) EXCEPT !.failed = TRUE]
<1>1. TypeOK /\ job[p] # NoJob /\ job[p].phase = "setup" /\ lock = Free /\
      UNCHANGED <<iteration, lock>>
      /\ UNCHANGED <<claim, verdict, receipts, claimed>>
  BY DEF FailSetup, At, KeepEntry, KeepRest
<1>2. job[p].id \in Ids /\ Mine(p) \in Row /\ job[p].outcome \in {None} \union Outcomes
      /\ Mine(p).verdict \in {None} \union Outcomes
  BY <1>1, JobIsJob
<1>3. r \in Row /\ r.kind = Mine(p).kind /\ r.by = Mine(p).by /\ r.entry = Mine(p).entry /\
      r.at = Mine(p).at
      /\ r.status = Mine(p).status /\ r.report = Mine(p).report /\ r.failed = TRUE
  BY <1>2, Failed
<1>4. SaveRow(job[p].id, r) /\ Done(p) /\ Leave(p)
  BY DEF FailSetup
<1> HIDE DEF r
<1>5. Stopped(p) /\ Wrote(job[p].id, r) /\ LeftBy(p)
  BY <1>1, <1>2, <1>3, <1>4, Ended, Saved, Left
<1>6. TypeOK'
  BY <1>1, <1>5 DEF TypeOK, Stopped, Wrote, LeftBy
<1>7. HandoffHeld' /\ LockHeld' /\ OneReserver'
  BY <1>1, <1>2, <1>3, <1>5, AttemptsAssumption, JobIsJob
     DEF HandoffHeld, LockHeld, OneReserver, UnderHandoff, Stopped, LeftBy
<1>8. CopiesAgree'
  BY <1>1, <1>2, <1>3, <1>5, AttemptsAssumption, JobIsJob
     DEF CopiesAgree, Mine, Completing, Stopped, Wrote, HandoffHeld, OneReserver, UnderHandoff,
         Reserving, Cancelling, Phase
<1>9. StatusInv'
  BY <1>1, <1>2, <1>3, <1>5, AttemptsAssumption, JobIsJob
     DEF StatusInv, Unexported, Underway, ClaimPinned, LockHeld, UnderLock, Mine, Completing,
         Cancelling, Unassigned, Amends, Stopped, Wrote, LeftBy
<1>10. ReceiptInv'
  BY <1>1, <1>2, <1>3, <1>5, AttemptsAssumption, JobIsJob
     DEF TypeOK, LockHeld, ReceiptInv, Mine, Unassigned, UnderLock, Amends, ReceiptsAgree,
         External, Unreceipted, Stopped, Wrote, LeftBy
<1>11. SlotsKept
  BY <1>1, <1>2, <1>3, <1>5, WriteSlots DEF CopiesAgree
<1>12. KeepsFinal /\ OwnClaims
  BY <1>1, <1>5, AttemptsAssumption
     DEF StatusInv, Unexported, Unassigned, KeepsFinal, OwnClaims, Wrote
<1>13. QED
  BY <1>6, <1>7, <1>8, <1>9, <1>10, <1>11, <1>12 DEF Careful

LEMMA ListAssignedKeeps ==
  ASSUME IInv, NEW p \in Procs, ListAssigned(p)
  PROVE  IInv' /\ Careful
<1> USE DEF IInv, StructInv
<1>1. TypeOK /\ job[p] # NoJob /\ job[p].phase = "list" /\ UNCHANGED <<row, lock, handoff, revived>>
         /\ iteration' = [iteration EXCEPT ![job[p].id] = "assigned"]
      /\ UNCHANGED <<claim, verdict, receipts, claimed>>
  BY DEF ListAssigned, At, KeepEntry, KeepRest
<1>2. job[p].id \in Ids /\ Mine(p) \in Row /\ job[p].outcome \in {None} \union Outcomes
      /\ Mine(p).verdict \in {None} \union Outcomes
  BY <1>1, JobIsJob
<1>3. Done(p)
  BY DEF ListAssigned
<1>4. Stopped(p)
  BY <1>3, Ended
<1>5. TypeOK'
  BY <1>1, <1>2, <1>4 DEF TypeOK, Stopped
<1>6. HandoffHeld' /\ LockHeld' /\ OneReserver'
  BY <1>1, <1>4 DEF HandoffHeld, LockHeld, OneReserver, Stopped
<1>7. CopiesAgree'
  BY <1>1, <1>4 DEF CopiesAgree, Mine, Stopped
<1>8. Unexported'
  BY <1>1, <1>4, AttemptsAssumption, JobIsJob DEF StatusInv, Unexported, Mine, Stopped
<1>9. Underway'
  BY <1>1, <1>4, JobIsJob DEF StatusInv, Underway, Mine, Stopped
<1>10. ClaimPinned'
  BY <1>1, <1>4 DEF StatusInv, ClaimPinned, LiveClaim, Mine, Stopped
<1>11. ReceiptInv'
  BY <1>1, <1>2, <1>4, AttemptsAssumption, JobIsJob
     DEF ReceiptInv, Mine, ReceiptsAgree, External, Unreceipted, Stopped
<1>12. SlotsKept
  BY <1>1 DEF SlotsKept, Slots, HoldsSlot
<1>13. KeepsFinal /\ OwnClaims
  BY <1>1 DEF KeepsFinal, OwnClaims
<1>14. QED
  BY <1>5, <1>6, <1>7, <1>8, <1>9, <1>10, <1>11, <1>12, <1>13 DEF StatusInv, Careful

LEMMA RefuseReportKeeps ==
  ASSUME IInv, NEW p \in Procs, RefuseReport(p)
  PROVE  IInv' /\ Careful
<1> USE DEF IInv, StructInv
<1>1. TypeOK /\ job[p] # NoJob /\ job[p].phase = "harvest" /\
      UNCHANGED <<row, iteration, lock, revived>>
      /\ UNCHANGED <<claim, verdict, receipts, claimed>>
  BY DEF RefuseReport, At, KeepEntry, KeepRest
<1>2. job[p].id \in Ids /\ Mine(p) \in Row /\ job[p].outcome \in {None} \union Outcomes
      /\ Mine(p).verdict \in {None} \union Outcomes
  BY <1>1, JobIsJob
<1>3. Done(p) /\ Leave(p)
  BY DEF RefuseReport
<1>4. Stopped(p) /\ LeftBy(p)
  BY <1>1, <1>3, Ended, Left
<1>5. TypeOK'
  BY <1>1, <1>2, <1>4 DEF TypeOK, Stopped, LeftBy
<1>6. HandoffHeld' /\ LockHeld' /\ OneReserver'
  BY <1>1, <1>2, <1>4, AttemptsAssumption, JobIsJob
     DEF HandoffHeld, LockHeld, OneReserver, UnderHandoff, Completing, Stopped, LeftBy
<1>7. CopiesAgree'
  BY <1>1, <1>4 DEF CopiesAgree, Mine, Stopped
<1>8. Unexported'
  BY <1>1, <1>4, AttemptsAssumption, JobIsJob DEF StatusInv, Unexported, Mine, Stopped
<1>9. Underway'
  BY <1>1, <1>4, AttemptsAssumption, JobIsJob DEF StatusInv, Underway, Mine, Stopped
<1>10. ClaimPinned'
  BY <1>1, <1>4, AttemptsAssumption DEF StatusInv, ClaimPinned, LiveClaim, Mine, Stopped
<1>11. ReceiptInv'
  BY <1>1, <1>2, <1>4, AttemptsAssumption, JobIsJob
     DEF ReceiptInv, Mine, ReceiptsAgree, External, Unreceipted, Stopped, LeftBy
<1>12. SlotsKept
  BY <1>1 DEF SlotsKept, Slots, HoldsSlot
<1>13. KeepsFinal /\ OwnClaims
  BY <1>1 DEF KeepsFinal, OwnClaims
<1>14. QED
  BY <1>5, <1>6, <1>7, <1>8, <1>9, <1>10, <1>11, <1>12, <1>13 DEF StatusInv, Careful

LEMMA HarvestKeeps ==
  ASSUME IInv, NEW p \in Procs, Harvest(p)
  PROVE  IInv' /\ Careful
<1> USE DEF IInv, StructInv
<1> DEFINE r == [Mine(p) EXCEPT !.status = "completing", !.report = job[p].outcome]
<1>1. TypeOK /\ job[p] # NoJob /\ job[p].phase = "harvest" /\ lock = Free /\
      LiveClaim(Mine(p)) /\ lock' = p /\ UNCHANGED <<iteration, handoff>>
      /\ UNCHANGED <<claim, verdict, receipts, claimed>>
  BY DEF Harvest, At, KeepEntry, KeepRest
<1>2. job[p].id \in Ids /\ Mine(p) \in Row /\ job[p].outcome \in {None} \union Outcomes
      /\ Mine(p).verdict \in {None} \union Outcomes
  BY <1>1, JobIsJob
<1>3. Amends(r, Mine(p), "completing", job[p].outcome, Mine(p).verdict, Mine(p).reaped)
  BY <1>2, Amended DEF Active, Terminal
<1>4. SaveRow(job[p].id, r) /\ Go(p, "apply", r)
  BY DEF Harvest
<1> HIDE DEF r
<1>5. Moved(p, "apply", r) /\ Wrote(job[p].id, r)
  BY <1>1, <1>2, <1>3, <1>4, Gone, Saved DEF Phase, Amends
<1>6. TypeOK'
  BY <1>1, <1>5 DEF TypeOK, Moved, Wrote
<1>7. HandoffHeld' /\ LockHeld' /\ OneReserver'
  BY <1>1, <1>2, <1>3, <1>5, AttemptsAssumption, JobIsJob
     DEF HandoffHeld, LockHeld, OneReserver, Reserving, UnderHandoff, Completing, Moved
<1>8. CopiesAgree'
  BY <1>1, <1>3, <1>5, JobIsJob
     DEF CopiesAgree, SameAttempt, Mine, Completing, Amends, Moved, Wrote
<1>9. StatusInv'
  BY <1>1, <1>2, <1>3, <1>5, AttemptsAssumption, JobIsJob
     DEF StatusInv, Unexported, Underway, ClaimPinned, LiveClaim, SameAttempt, LockHeld,
         OneReserver, UnderLock, Mine, Completing, Cancelling, Unassigned, Amends, Moved, Wrote
<1>10. ReceiptInv'
  BY <1>1, <1>2, <1>3, <1>5, AttemptsAssumption, JobIsJob
     DEF TypeOK, ReceiptInv, Mine, ReceiptsAgree, External, Unreceipted, Moved, Wrote
<1>11. SlotsKept
  BY <1>1, <1>2, <1>3, <1>5, WriteSlots DEF CopiesAgree, SameAttempt, Amends
<1>12. KeepsFinal /\ OwnClaims
  BY <1>1, <1>5 DEF StatusInv, Underway, KeepsFinal, OwnClaims, Wrote
<1>13. QED
  BY <1>6, <1>7, <1>8, <1>9, <1>10, <1>11, <1>12 DEF Careful

LEMMA RefuseCloseKeeps ==
  ASSUME IInv, NEW p \in Procs, RefuseClose(p)
  PROVE  IInv' /\ Careful
<1> USE DEF IInv, StructInv
<1> DEFINE r == [Mine(p) EXCEPT !.status = "assigned", !.report = None, !.verdict = None]
<1>1. TypeOK /\ job[p] # NoJob /\ job[p].phase = "apply" /\ lock' = Free /\ UNCHANGED iteration
      /\ UNCHANGED <<claim, verdict, receipts, claimed>>
  BY DEF RefuseClose, At, KeepEntry, KeepRest
<1>2. job[p].id \in Ids /\ Mine(p) \in Row /\ job[p].outcome \in {None} \union Outcomes
      /\ Mine(p).verdict \in {None} \union Outcomes
  BY <1>1, JobIsJob
<1>3. Amends(r, Mine(p), "assigned", None, None, Mine(p).reaped)
  BY <1>2, Amended DEF Active, Terminal
<1>4. SaveRow(job[p].id, r) /\ Done(p) /\ Leave(p)
  BY DEF RefuseClose
<1> HIDE DEF r
<1>5. Stopped(p) /\ Wrote(job[p].id, r) /\ LeftBy(p)
  BY <1>1, <1>2, <1>3, <1>4, Ended, Saved, Left DEF Amends
<1>6. TypeOK'
  BY <1>1, <1>5 DEF TypeOK, Stopped, Wrote, LeftBy
<1>7. HandoffHeld' /\ LockHeld' /\ OneReserver'
  BY <1>1, <1>2, <1>3, <1>5, AttemptsAssumption, JobIsJob
     DEF HandoffHeld, LockHeld, OneReserver, UnderHandoff, UnderLock, Completing, Stopped,
         LeftBy
<1>8. CopiesAgree'
  BY <1>1, <1>3, <1>5, AttemptsAssumption, JobIsJob
     DEF CopiesAgree, SameAttempt, Mine, Amends, Stopped, Wrote
<1>9. StatusInv'
  BY <1>1, <1>2, <1>3, <1>5, AttemptsAssumption, JobIsJob
     DEF StatusInv, Unexported, Underway, ClaimPinned, LockHeld, UnderLock, Mine, Completing,
         Cancelling, Unassigned, Amends, Stopped, Wrote, LeftBy
<1>10. ReceiptInv'
  BY <1>1, <1>2, <1>3, <1>5, AttemptsAssumption, JobIsJob
     DEF TypeOK, ReceiptInv, Mine, ReceiptsAgree, External, Unreceipted, Stopped, Wrote, LeftBy
<1>11. SlotsKept
  BY <1>1, <1>2, <1>3, <1>5, WriteSlots DEF CopiesAgree, SameAttempt, Amends
<1>12. KeepsFinal /\ OwnClaims
  BY <1>1, <1>5 DEF StatusInv, Underway, KeepsFinal, OwnClaims, Wrote
<1>13. QED
  BY <1>6, <1>7, <1>8, <1>9, <1>10, <1>11, <1>12 DEF Careful

LEMMA NoteVerdictKeeps ==
  ASSUME IInv, NEW p \in Procs, NoteVerdict(p)
  PROVE  IInv' /\ Careful
<1> USE DEF IInv, StructInv
<1>1. TypeOK /\ job[p] # NoJob /\ job[p].phase = "note" /\ UNCHANGED <<iteration, lock, handoff>>
      /\ UNCHANGED <<claim, verdict, receipts, claimed>>
  BY DEF NoteVerdict, At, KeepEntry, KeepRest
<1>2. job[p].id \in Ids /\ Mine(p) \in Row /\ job[p].outcome \in {None} \union Outcomes
      /\ Mine(p).verdict \in {None} \union Outcomes
  BY <1>1, JobIsJob
<1>3. SaveRow(job[p].id, Mine(p)) /\ Go(p, "fold", Mine(p))
  BY DEF NoteVerdict
<1>4. Moved(p, "fold", Mine(p)) /\ Wrote(job[p].id, Mine(p))
  BY <1>1, <1>2, <1>3, Gone, Saved DEF Phase
<1>5. TypeOK'
  BY <1>1, <1>4 DEF TypeOK, Moved, Wrote
<1>6. HandoffHeld' /\ LockHeld' /\ OneReserver'
  BY <1>1, <1>2, <1>4, AttemptsAssumption, JobIsJob
     DEF HandoffHeld, LockHeld, OneReserver, Reserving, UnderHandoff, UnderLock, Completing,
         Moved
<1>7. CopiesAgree'
  BY <1>1, <1>4, JobIsJob DEF CopiesAgree, SameAttempt, Mine, Completing, Moved, Wrote
<1>8. StatusInv'
  BY <1>1, <1>2, <1>4, AttemptsAssumption, JobIsJob
     DEF StatusInv, Unexported, Underway, ClaimPinned, LockHeld, UnderLock, Mine, Completing,
         Cancelling, Unassigned, Amends, Moved, Wrote
<1>9. ReceiptInv'
  BY <1>1, <1>2, <1>4, AttemptsAssumption, JobIsJob
     DEF TypeOK, CopiesAgree, ReceiptInv, StatusInv, Unexported, Underway, SameAttempt, Mine,
         Unassigned, Completing, Cancelling, UnderHandoff, UnderLock, Amends, ReceiptsAgree,
    External, Unreceipted, Moved, Wrote
<1>10. SlotsKept
  BY <1>1, <1>2, <1>4, WriteSlots DEF CopiesAgree, SameAttempt
<1>11. KeepsFinal /\ OwnClaims
  BY <1>1, <1>4 DEF StatusInv, Underway, KeepsFinal, OwnClaims, Wrote
<1>12. QED
  BY <1>5, <1>6, <1>7, <1>8, <1>9, <1>10, <1>11 DEF Careful

LEMMA FoldKeeps ==
  ASSUME IInv, NEW p \in Procs, Fold(p)
  PROVE  IInv' /\ Careful
<1> USE DEF IInv, StructInv
<1>1. TypeOK /\ job[p] # NoJob /\ job[p].phase = "fold" /\ lock' = Free /\
      UNCHANGED <<row, handoff, revived>>
         /\ (iteration' = iteration \/
              iteration' = [iteration EXCEPT ![job[p].id] = Mine(p).verdict])
      /\ UNCHANGED <<claim, verdict, receipts, claimed>>
  BY DEF Fold, At, KeepEntry, KeepRest, FoldBack
<1>2. job[p].id \in Ids /\ Mine(p) \in Row /\ job[p].outcome \in {None} \union Outcomes
      /\ Mine(p).verdict \in {None} \union Outcomes
  BY <1>1, JobIsJob
<1>3. Go(p, "settle", Mine(p))
  BY DEF Fold
<1>4. Moved(p, "settle", Mine(p))
  BY <1>1, <1>2, <1>3, Gone DEF Phase
<1>5. TypeOK'
  BY <1>1, <1>2, <1>4 DEF TypeOK, Moved
<1>6. HandoffHeld' /\ LockHeld' /\ OneReserver'
  BY <1>1, <1>4, AttemptsAssumption, JobIsJob
     DEF HandoffHeld, LockHeld, OneReserver, Reserving, UnderHandoff, UnderLock, Completing,
         Cancelling, Moved
<1>7. CopiesAgree'
  BY <1>1, <1>4 DEF CopiesAgree, Mine, Completing, Moved
<1>8. StatusInv'
  BY <1>1, <1>2, <1>4, AttemptsAssumption, JobIsJob
     DEF StatusInv, Unexported, Underway, ClaimPinned, LockHeld, UnderLock, Mine, Cancelling,
         Unassigned, Amends, Moved
<1>9. ReceiptInv'
  BY <1>1, <1>2, <1>4, AttemptsAssumption, JobIsJob
     DEF ReceiptInv, Mine, Unassigned, Cancelling, UnderLock, Amends, ReceiptsAgree, External,
         Unreceipted, Moved
<1>10. SlotsKept
  BY <1>1 DEF SlotsKept, Slots, HoldsSlot
<1>11. KeepsFinal /\ OwnClaims
  BY <1>1 DEF KeepsFinal, OwnClaims
<1>12. QED
  BY <1>5, <1>6, <1>7, <1>8, <1>9, <1>10, <1>11 DEF Careful

LEMMA FinishCancelKeeps ==
  ASSUME IInv, NEW p \in Procs, FinishCancel(p)
  PROVE  IInv' /\ Careful
<1> USE DEF IInv, StructInv
<1> DEFINE r == [Mine(p) EXCEPT !.status = "cancelled"]
<1>1. TypeOK /\ job[p] # NoJob /\ job[p].phase = "cancel" /\ UNCHANGED <<iteration, lock, handoff>>
      /\ UNCHANGED <<claim, verdict, receipts, claimed>>
  BY DEF FinishCancel, At, KeepEntry, KeepRest
<1>2. job[p].id \in Ids /\ Mine(p) \in Row /\ job[p].outcome \in {None} \union Outcomes
      /\ Mine(p).verdict \in {None} \union Outcomes
  BY <1>1, JobIsJob
<1>3. Amends(r, Mine(p), "cancelled", Mine(p).report, Mine(p).verdict, Mine(p).reaped)
  BY <1>2, Amended DEF Active, Terminal
<1>4. SaveRow(job[p].id, r) /\ Go(p, "unlist", r)
  BY DEF FinishCancel
<1> HIDE DEF r
<1>5. Moved(p, "unlist", r) /\ Wrote(job[p].id, r)
  BY <1>1, <1>2, <1>3, <1>4, Gone, Saved DEF Phase, Amends
<1>6. TypeOK'
  BY <1>1, <1>5 DEF TypeOK, Moved, Wrote
<1>7. HandoffHeld' /\ LockHeld' /\ OneReserver'
  BY <1>1, <1>2, <1>3, <1>5, AttemptsAssumption, JobIsJob
     DEF HandoffHeld, LockHeld, OneReserver, Reserving, UnderHandoff, UnderLock, Cancelling,
         Moved
<1>8. CopiesAgree'
  BY <1>1, <1>3, <1>5, JobIsJob
     DEF CopiesAgree, SameAttempt, Mine, Completing, Amends, Moved, Wrote
<1>9. StatusInv'
  BY <1>1, <1>2, <1>3, <1>5, AttemptsAssumption, JobIsJob
     DEF StatusInv, Unexported, Underway, ClaimPinned, LiveClaim, LockHeld, UnderLock, Mine,
         Completing, Cancelling, Unassigned, Amends, Moved, Wrote
<1>10. ReceiptInv'
  BY <1>1, <1>2, <1>3, <1>5, AttemptsAssumption, JobIsJob
     DEF TypeOK, CopiesAgree, LockHeld, ReceiptInv, Mine, Cancelling, UnderLock, Amends,
         ReceiptsAgree, External, Unreceipted, Moved, Wrote
<1>11. SlotsKept
  BY <1>1, <1>2, <1>3, <1>5, WriteSlots DEF CopiesAgree, SameAttempt, Amends
<1>12. KeepsFinal /\ OwnClaims
  BY <1>1, <1>5 DEF StatusInv, Underway, KeepsFinal, OwnClaims, Wrote
<1>13. QED
  BY <1>6, <1>7, <1>8, <1>9, <1>10, <1>11, <1>12 DEF Careful

LEMMA FoldCancelKeeps ==
  ASSUME IInv, NEW p \in Procs, FoldCancel(p)
  PROVE  IInv' /\ Careful
<1> USE DEF IInv, StructInv
<1>1. TypeOK /\ job[p] # NoJob /\ job[p].phase = "unlist" /\ lock' = Free /\
      UNCHANGED <<row, revived>>
         /\ (iteration' = iteration \/ iteration' = [iteration EXCEPT ![job[p].id] = "cancelled"])
      /\ UNCHANGED <<claim, verdict, receipts, claimed>>
  BY DEF FoldCancel, At, KeepEntry, KeepRest, FoldBack
<1>2. job[p].id \in Ids /\ Mine(p) \in Row /\ job[p].outcome \in {None} \union Outcomes
      /\ Mine(p).verdict \in {None} \union Outcomes
  BY <1>1, JobIsJob
<1>3. Done(p) /\ Leave(p)
  BY DEF FoldCancel
<1>4. Stopped(p) /\ LeftBy(p)
  BY <1>1, <1>3, Ended, Left
<1>5. TypeOK'
  BY <1>1, <1>4 DEF TypeOK, Stopped, LeftBy
<1>6. HandoffHeld' /\ LockHeld' /\ OneReserver'
  BY <1>1, <1>2, <1>4, AttemptsAssumption, JobIsJob
     DEF HandoffHeld, LockHeld, OneReserver, UnderHandoff, UnderLock, Cancelling, Stopped,
         LeftBy
<1>7. CopiesAgree'
  BY <1>1, <1>4 DEF CopiesAgree, Mine, Stopped
<1>8. StatusInv'
  BY <1>1, <1>2, <1>4, AttemptsAssumption, JobIsJob
     DEF StatusInv, Unexported, Underway, ClaimPinned, LockHeld, UnderLock, Mine, Completing,
         Cancelling, Unassigned, Amends, Stopped, LeftBy
<1>9. ReceiptInv'
  BY <1>1, <1>2, <1>4, AttemptsAssumption, JobIsJob
     DEF ReceiptInv, Mine, ReceiptsAgree, External, Unreceipted, Stopped, LeftBy
<1>10. SlotsKept
  BY <1>1 DEF SlotsKept, Slots, HoldsSlot
<1>11. KeepsFinal /\ OwnClaims
  BY <1>1 DEF KeepsFinal, OwnClaims
<1>12. QED
  BY <1>5, <1>6, <1>7, <1>8, <1>9, <1>10, <1>11 DEF Careful

LEMMA SettleExecKeeps ==
  ASSUME IInv, NEW p \in Procs, SettleExec(p)
  PROVE  IInv' /\ Careful
<1> USE DEF IInv, StructInv
<1> DEFINE i == job[p].id
           r == row'[i]
<1>1. TypeOK /\ job[p] # NoJob /\ job[p].phase \in {"launch", "running"} /\ lock = Free
      /\ UNCHANGED <<iteration, lock, handoff>>
      /\ UNCHANGED <<claim, verdict, receipts, claimed>>
  BY DEF SettleExec, At, KeepEntry, KeepRest
<1>2. job[p].id \in Ids /\ Mine(p) \in Row /\ job[p].outcome \in {None} \union Outcomes
      /\ Mine(p).verdict \in {None} \union Outcomes
  BY <1>1, JobIsJob
<1>3. row[i] # NoRow /\ row[i] \in Row /\ Mine(p).kind = "exec" /\ SameAttempt(Mine(p), row[i])
  BY <1>1, <1>2, RowIsRow DEF CopiesAgree
<1>4. Stopped(p)
  BY Ended DEF SettleExec
<1>5. r \in Row /\ SameAttempt(r, row[i]) /\ r.status \in Terminal /\ Wrote(i, r)
  <2>1. CASE Settled(i)
    <3>1. UNCHANGED <<row, revived>>
      BY <2>1 DEF SettleExec
    <3>2. QED
      BY <1>3, <2>1, <3>1 DEF Wrote, SameAttempt, Settled, TypeOK, Active, Terminal
  <2>2. CASE ~Settled(i)
    <3>1. PICK s \in Terminal : SaveRow(i, [row[i] EXCEPT !.status = s])
      BY <2>2 DEF SettleExec
    <3>2. Amends([row[i] EXCEPT !.status = s], row[i], s, row[i].report, row[i].verdict,
          row[i].reaped)
      BY <1>3, Amended DEF TypeOK, Row
    <3>3. Wrote(i, [row[i] EXCEPT !.status = s])
      BY <1>2, <3>1, <3>2, Saved DEF Amends
    <3>4. QED
      BY <3>2, <3>3 DEF Wrote, Amends
  <2>3. QED
    BY <2>1, <2>2
<1> HIDE DEF i, r
<1>6. \A q \in Procs : job[q] # NoJob /\ job[q].id = i => q = p
  BY <1>1 DEF i, CopiesAgree, SameAttempt, OneReserver, Reserving
<1>7. \A e \in Entries : \A receipt \in receipts[e] : receipt[1] # i
  BY <1>3 DEF ReceiptInv, External, SameAttempt
<1>8. TypeOK'
  BY <1>1, <1>4, <1>5 DEF TypeOK, Stopped, Wrote
<1>9. HandoffHeld' /\ LockHeld' /\ OneReserver'
  BY <1>1, <1>4, <1>5, <1>6, <1>7, AttemptsAssumption, JobIsJob
     DEF HandoffHeld, LockHeld, OneReserver, Stopped
<1>10. CopiesAgree'
  BY <1>4, <1>5, <1>6, AttemptsAssumption, JobIsJob DEF CopiesAgree, Mine, Stopped, Wrote
<1>11. StatusInv'
  <2>1. Unexported'
    BY <1>4, <1>5, <1>6, JobIsJob DEF StatusInv, Unexported, Mine, Stopped, Wrote
  <2>2. Underway'
    BY <1>4, <1>5, <1>6, JobIsJob DEF StatusInv, Underway, Mine, Stopped, Wrote
  <2>3. ClaimPinned'
    BY <1>1, <1>2, <1>3, <1>4, <1>5, <1>6, <1>7, AttemptsAssumption, JobIsJob
       DEF StatusInv, ClaimPinned, LiveClaim, SameAttempt, CopiesAgree, HandoffHeld,
           LockHeld, OneReserver, Reserving, UnderHandoff, UnderLock, Mine, Completing,
           Cancelling, Unassigned, Amends, Stopped, Wrote, i
  <2>4. QED
    BY <2>1, <2>2, <2>3 DEF StatusInv
<1>12. ReceiptInv'
  <2>1. ReceiptsAgree'
    BY <1>1, <1>2, <1>3, <1>4, <1>5, <1>6, <1>7, AttemptsAssumption, JobIsJob
       DEF TypeOK, CopiesAgree, HandoffHeld, LockHeld, ReceiptInv, StatusInv, Unexported,
           Underway, SameAttempt, Mine, Unassigned, Completing, Cancelling, UnderHandoff,
           UnderLock, Amends, ReceiptsAgree, External, Unreceipted, Stopped, Wrote, i
  <2>2. External'
    BY <1>1, <1>2, <1>3, <1>4, <1>5, <1>6, <1>7, AttemptsAssumption, JobIsJob
       DEF TypeOK, CopiesAgree, HandoffHeld, LockHeld, ReceiptInv, StatusInv, Unexported,
           Underway, SameAttempt, Mine, Unassigned, Completing, Cancelling, UnderHandoff,
           UnderLock, Amends, External, Stopped, Wrote, i
  <2>3. Unreceipted'
    BY <1>1, <1>2, <1>3, <1>4, <1>5, <1>6, <1>7, AttemptsAssumption, JobIsJob
       DEF TypeOK, CopiesAgree, HandoffHeld, LockHeld, ReceiptInv, StatusInv, Unexported,
           Underway, SameAttempt, Mine, Unassigned, Completing, Cancelling, UnderHandoff,
           UnderLock, Amends, ReceiptsAgree, External, Unreceipted, Stopped, Wrote, i
  <2>4. QED
    BY <2>1, <2>2, <2>3 DEF ReceiptInv
<1>13. SlotsKept
  BY <1>2, <1>3, <1>5, WriteSlots DEF SameAttempt, i
<1>14. KeepsFinal /\ OwnClaims
  BY <1>1, <1>5, <1>6, <1>7, AttemptsAssumption
     DEF StatusInv, Underway, KeepsFinal, OwnClaims, Wrote, i
<1>15. QED
  BY <1>8, <1>9, <1>10, <1>11, <1>12, <1>13, <1>14 DEF Careful

LEMMA PrepareKeeps ==
  ASSUME IInv, NEW p \in Procs, Prepare(p), LiveClaim(Mine(p))
  PROVE  IInv' /\ Careful
<1> USE DEF IInv, StructInv
<1>1. TypeOK /\ job[p] # NoJob /\ job[p].phase = "prepare" /\ lock = Free
      /\ UNCHANGED <<iteration, lock, handoff>>
      /\ UNCHANGED <<claim, verdict, receipts, claimed>>
  BY DEF Prepare, At, KeepEntry, KeepRest
<1>2. job[p].id \in Ids /\ Mine(p) \in Row /\ job[p].outcome \in {None} \union Outcomes
      /\ Mine(p).verdict \in {None} \union Outcomes
  BY <1>1, JobIsJob
<1>3. Moved(p, "setup", Mine(p)) /\ Wrote(job[p].id, Mine(p))
  BY <1>1, <1>2, Gone, Saved DEF Prepare, Phase
<1>4. TypeOK'
  BY <1>1, <1>3 DEF TypeOK, Moved, Wrote
<1>5. HandoffHeld' /\ LockHeld' /\ OneReserver'
  BY <1>1, <1>2, <1>3, AttemptsAssumption, JobIsJob
     DEF HandoffHeld, LockHeld, OneReserver, Reserving, UnderHandoff, UnderLock, Cancelling,
         Moved
<1>6. CopiesAgree'
  BY <1>1, <1>3, JobIsJob DEF CopiesAgree, SameAttempt, Mine, Completing, Moved, Wrote
<1>7. StatusInv'
  BY <1>1, <1>2, <1>3, AttemptsAssumption, JobIsJob
     DEF StatusInv, Unexported, Underway, ClaimPinned, LockHeld, UnderLock, Mine, Completing,
         Cancelling, Unassigned, Amends, Moved, Wrote
<1>8. ReceiptInv'
  BY <1>1, <1>2, <1>3, AttemptsAssumption, JobIsJob
     DEF TypeOK, ReceiptInv, Mine, Unassigned, Cancelling, UnderHandoff, UnderLock, Amends,
         ReceiptsAgree, External, Unreceipted, Moved, Wrote
<1>9. SlotsKept
  BY <1>1, <1>2, <1>3, WriteSlots DEF CopiesAgree, SameAttempt
<1>10. KeepsFinal /\ OwnClaims
  BY <1>1, <1>3, AttemptsAssumption
     DEF StatusInv, Unexported, Unassigned, KeepsFinal, OwnClaims, Wrote
<1>11. QED
  BY <1>4, <1>5, <1>6, <1>7, <1>8, <1>9, <1>10 DEF Careful

LEMMA AbandonKeeps ==
  ASSUME IInv, NEW p \in Procs, Prepare(p), ~LiveClaim(Mine(p))
  PROVE  IInv' /\ Careful
<1> USE DEF IInv, StructInv
<1>1. TypeOK /\ job[p] # NoJob /\ job[p].phase = "prepare" /\ lock = Free
      /\ UNCHANGED <<row, iteration, lock, revived>>
      /\ UNCHANGED <<claim, verdict, receipts, claimed>>
  BY DEF Prepare, At, KeepEntry, KeepRest
<1>2. job[p].id \in Ids /\ Mine(p) \in Row /\ job[p].outcome \in {None} \union Outcomes
      /\ Mine(p).verdict \in {None} \union Outcomes
  BY <1>1, JobIsJob
<1>3. Stopped(p) /\ LeftBy(p)
  BY <1>1, Ended, Left DEF Prepare
<1>4. TypeOK'
  BY <1>1, <1>3 DEF TypeOK, Stopped, LeftBy
<1>5. HandoffHeld' /\ LockHeld' /\ OneReserver'
  BY <1>1, <1>2, <1>3, AttemptsAssumption, JobIsJob
     DEF HandoffHeld, LockHeld, OneReserver, UnderHandoff, Stopped, LeftBy
<1>6. CopiesAgree'
  BY <1>1, <1>3 DEF CopiesAgree, Mine, Stopped
<1>7. StatusInv'
  BY <1>1, <1>2, <1>3, AttemptsAssumption, JobIsJob
     DEF StatusInv, Unexported, Underway, ClaimPinned, LockHeld, UnderLock, Mine, Completing,
         Cancelling, Unassigned, Amends, Stopped, LeftBy
<1>8. ReceiptInv'
  BY <1>1, <1>2, <1>3, AttemptsAssumption, JobIsJob
     DEF ReceiptInv, Mine, ReceiptsAgree, External, Unreceipted, Stopped, LeftBy
<1>9. SlotsKept
  BY <1>1 DEF SlotsKept, Slots, HoldsSlot
<1>10. KeepsFinal /\ OwnClaims
  BY <1>1 DEF KeepsFinal, OwnClaims
<1>11. QED
  BY <1>4, <1>5, <1>6, <1>7, <1>8, <1>9, <1>10 DEF Careful

LEMMA SettleKeeps ==
  ASSUME IInv, NEW p \in Procs, Settle(p)
  PROVE  IInv' /\ Careful
<1> USE DEF IInv, StructInv
<1> DEFINE i == job[p].id
           r == row'[i]
<1>1. TypeOK /\ job[p] # NoJob /\ job[p].phase = "settle" /\ lock = Free
      /\ UNCHANGED <<iteration, lock>>
      /\ UNCHANGED <<claim, verdict, receipts, claimed>>
  BY DEF Settle, At, KeepEntry, KeepRest
<1>2. job[p].id \in Ids /\ Mine(p) \in Row /\ job[p].outcome \in {None} \union Outcomes
      /\ Mine(p).verdict \in {None} \union Outcomes
  BY <1>1, JobIsJob
<1>3. row[i] # NoRow /\ row[i] \in Row
  BY <1>1, <1>2, RowIsRow DEF CopiesAgree
<1>4. Stopped(p) /\ LeftBy(p)
  BY <1>1, Ended, Left DEF Settle
<1>5. /\ r \in Row /\ Wrote(i, r)
      /\ \/ Settled(i) /\ r = row[i]
         \/ ~Settled(i) /\
              Amends(r, row[i], "completed", row[i].report, Mine(p).verdict, row[i].reaped)
  <2>1. CASE Settled(i)
    <3>1. UNCHANGED <<row, revived>>
      BY <2>1 DEF Settle
    <3>2. QED
      BY <1>3, <2>1, <3>1 DEF Wrote, Settled, TypeOK, Active, Terminal
  <2>2. CASE ~Settled(i)
    <3> DEFINE t == [row[i] EXCEPT !.status = "completed", !.verdict = Mine(p).verdict]
    <3>1. SaveRow(i, t)
      BY <2>2 DEF Settle
    <3>2. Amends(t, row[i], "completed", row[i].report, Mine(p).verdict, row[i].reaped)
      BY <1>2, <1>3, Amended DEF Terminal, Row
    <3> HIDE DEF t
    <3>3. Wrote(i, t)
      BY <1>2, <3>1, <3>2, Saved DEF Amends
    <3>4. QED
      BY <2>2, <3>2, <3>3 DEF Wrote, Amends
  <2>3. QED
    BY <2>1, <2>2
<1> HIDE DEF i, r
<1>6. TypeOK'
  BY <1>1, <1>4, <1>5 DEF TypeOK, Stopped, Wrote, LeftBy
<1>7. HandoffHeld' /\ LockHeld' /\ OneReserver'
  BY <1>1, <1>2, <1>3, <1>4, <1>5, AttemptsAssumption, JobIsJob
     DEF HandoffHeld, LockHeld, OneReserver, UnderHandoff, Completing, Stopped, LeftBy, i
<1>8. CopiesAgree'
  BY <1>4, <1>5, JobIsJob DEF CopiesAgree, SameAttempt, Mine, Amends, Stopped, Wrote
<1>9. StatusInv'
  <2>1. Unexported'
    BY <1>1, <1>2, <1>4, <1>5, JobIsJob
       DEF StatusInv, Unexported, Mine, Completing, Stopped, Wrote, i
  <2>2. Underway'
    BY <1>1, <1>2, <1>3, <1>4, <1>5, JobIsJob
       DEF StatusInv, Underway, CopiesAgree, SameAttempt, HandoffHeld, UnderHandoff,
           Mine, Completing, Cancelling, Stopped, Wrote, i
  <2>3. ClaimPinned'
    BY <1>1, <1>2, <1>3, <1>4, <1>5, AttemptsAssumption, JobIsJob
       DEF StatusInv, ClaimPinned, LiveClaim, SameAttempt, CopiesAgree, HandoffHeld,
           LockHeld, OneReserver, Reserving, UnderHandoff, UnderLock, Mine, Completing,
           Cancelling, Unassigned, Amends, Stopped, Wrote, LeftBy, i, Settled, Terminal
  <2>4. QED
    BY <2>1, <2>2, <2>3 DEF StatusInv
<1>10. ReceiptInv'
  <2>1. ReceiptsAgree'
    BY <1>1, <1>3, <1>4, <1>5
       DEF TypeOK, CopiesAgree, HandoffHeld, ReceiptInv, StatusInv, Underway, SameAttempt,
           Mine, Completing, UnderHandoff, Amends, ReceiptsAgree, External, Unreceipted,
           Wrote, i, Settled, Terminal
  <2>2. External'
    BY <1>1, <1>3, <1>5 DEF TypeOK, ReceiptInv, SameAttempt, Amends, ReceiptsAgree, External, Wrote
  <2>3. Unreceipted'
    BY <1>1, <1>4, <1>5 DEF ReceiptInv, Mine, Unreceipted, Stopped
  <2>4. QED
    BY <2>1, <2>2, <2>3 DEF ReceiptInv
<1>11. SlotsKept
  BY <1>2, <1>3, <1>5, WriteSlots DEF SameAttempt, Amends, i
<1>12. KeepsFinal /\ OwnClaims
  BY <1>1, <1>2, <1>3, <1>4, <1>5, AttemptsAssumption
     DEF KeepsFinal, OwnClaims, Settled, Terminal, Wrote, SameAttempt, Settled, Terminal
<1>13. QED
  BY <1>6, <1>7, <1>8, <1>9, <1>10, <1>11, <1>12 DEF Careful

LEMMA ApplyVerdictKeeps ==
  ASSUME IInv, NEW p \in Procs, ApplyVerdict(p)
  PROVE  IInv' /\ Careful
<1> USE DEF IInv, StructInv
<1> DEFINE i == job[p].id
           e == Mine(p).entry
           o == job[p].outcome
<1>1. TypeOK /\ job[p] # NoJob /\ job[p].phase = "apply"
      /\ UNCHANGED <<row, iteration, lock, handoff, revived, claimed>>
  BY DEF ApplyVerdict, At, KeepRest
<1>2. i \in Ids /\ Mine(p) \in Row /\ e \in Entries /\ o \in Outcomes
  BY <1>1, JobIsJob DEF Row, CopiesAgree, Completing
<1>3. PICK v \in Outcomes :
         /\ Go(p, "note", [Mine(p) EXCEPT !.verdict = v])
         /\ \/ UNCHANGED <<claim, verdict, receipts>>
            \/ /\ v = o
               /\ verdict' = [verdict EXCEPT ![e] = IF o \in Verdicts THEN o ELSE None]
               /\ claim' = [claim EXCEPT ![e] = NoClaim]
               /\ receipts' = [receipts EXCEPT ![e] = @ \union {<<i, o>>}]
  <2>1. verdict[e] # None => verdict[e] \in Outcomes
    BY <1>2 DEF TypeOK, Outcomes
  <2> HIDE DEF i, e, o
  <2>2. QED
    BY <1>2, <2>1 DEF ApplyVerdict, KeepEntry, i, e, o, Outcomes
<1> DEFINE r == [Mine(p) EXCEPT !.verdict = v]
<1>4. Amends(r, Mine(p), Mine(p).status, Mine(p).report, v, Mine(p).reaped)
  BY <1>2, Amended DEF Row
<1> HIDE DEF i, e, o, r
<1>5. Moved(p, "note", r)
  BY <1>1, <1>3, <1>4, Gone DEF Phase, Amends, r
<1>6. /\ claim' \in [Entries -> {NoClaim} \union Claim]
      /\ \A f \in Entries : claim'[f] \in {NoClaim, claim[f]}
      /\ \A f \in Entries : claim'[f] # claim[f] => f = e
      /\ verdict' \in [Entries -> {None} \union Verdicts]
  BY <1>3 DEF TypeOK
<1>7. row[i].kind = "external"
  BY <1>1, <1>2 DEF i, CopiesAgree, SameAttempt, Row
<1>8. /\ receipts' \in [Entries -> SUBSET (Ids \X Outcomes)]
      /\ \A f \in Entries, x \in Ids \X Outcomes :
            x \in receipts'[f] => x \in receipts[f] \/ (f = e /\ x = <<i, o>> /\ v = o)
  BY <1>2, <1>3 DEF TypeOK
<1>9. TypeOK'
  BY <1>1, <1>5, <1>6, <1>8 DEF TypeOK, Moved
<1>10. HandoffHeld' /\ LockHeld' /\ OneReserver'
  BY <1>1, <1>4, <1>5, <1>6, <1>7, <1>8, AttemptsAssumption, JobIsJob
     DEF HandoffHeld, LockHeld, OneReserver, Reserving, UnderHandoff, UnderLock, Completing,
         Moved
<1>11. CopiesAgree'
  BY <1>1, <1>4, <1>5, <1>7, <1>8, AttemptsAssumption, JobIsJob
     DEF CopiesAgree, SameAttempt, Mine, Completing, Amends, Moved
<1>12. StatusInv'
  <2>1. Unexported'
    BY <1>1, <1>2, <1>4, <1>5, <1>6, <1>7, <1>8, AttemptsAssumption, JobIsJob
       DEF StatusInv, Unexported, Underway, ClaimPinned, LiveClaim, SameAttempt,
           CopiesAgree, HandoffHeld, LockHeld, OneReserver, Reserving, UnderHandoff,
           UnderLock, Mine, Completing, Cancelling, Unassigned, Amends, Moved, i, e
  <2>2. Underway'
    BY <1>1, <1>2, <1>4, <1>5, <1>6, <1>7, <1>8, AttemptsAssumption, JobIsJob
       DEF StatusInv, Unexported, Underway, ClaimPinned, LiveClaim, SameAttempt,
           CopiesAgree, HandoffHeld, LockHeld, OneReserver, Reserving, UnderHandoff,
           UnderLock, Mine, Completing, Cancelling, Unassigned, Amends, Moved, i, e
  <2>3. ClaimPinned'
    BY <1>1, <1>2, <1>4, <1>5, <1>6, <1>7, <1>8, AttemptsAssumption, JobIsJob
       DEF StatusInv, ClaimPinned, LiveClaim, SameAttempt, CopiesAgree, HandoffHeld,
           LockHeld, OneReserver, Reserving, UnderHandoff, UnderLock, Mine, Completing,
           Cancelling, Unassigned, Amends, Moved, i, e
  <2>4. QED
    BY <2>1, <2>2, <2>3 DEF StatusInv
<1>13. ReceiptInv'
  <2>1. ReceiptsAgree'
    BY <1>1, <1>2, <1>4, <1>5, <1>6, <1>7, <1>8, AttemptsAssumption, JobIsJob
       DEF TypeOK, CopiesAgree, HandoffHeld, LockHeld, ReceiptInv, StatusInv, Unexported,
           Underway, SameAttempt, Mine, Unassigned, Completing, Cancelling, UnderHandoff,
           UnderLock, Amends, ReceiptsAgree, External, Unreceipted, Moved, i, e, o
  <2>2. External'
    BY <1>1, <1>2, <1>4, <1>5, <1>6, <1>7, <1>8, AttemptsAssumption, JobIsJob
       DEF TypeOK, CopiesAgree, HandoffHeld, LockHeld, ReceiptInv, StatusInv, Unexported,
           Underway, SameAttempt, Mine, Unassigned, Completing, Cancelling, UnderHandoff,
           UnderLock, Amends, External, Moved, i, e, o
  <2>3. Unreceipted'
    BY <1>1, <1>2, <1>4, <1>5, <1>6, <1>7, <1>8, AttemptsAssumption, JobIsJob
       DEF TypeOK, CopiesAgree, HandoffHeld, LockHeld, ReceiptInv, StatusInv, Unexported,
           Underway, SameAttempt, Mine, Unassigned, Completing, Cancelling, UnderHandoff,
           UnderLock, Amends, ReceiptsAgree, External, Unreceipted, Moved, i, e, o
  <2>4. QED
    BY <2>1, <2>2, <2>3 DEF ReceiptInv
<1>14. SlotsKept
  BY <1>1 DEF SlotsKept, Slots, HoldsSlot
<1>15. KeepsFinal /\ OwnClaims
  BY <1>1, <1>2, <1>4, <1>5, <1>6, <1>7, <1>8, AttemptsAssumption
     DEF StatusInv, ClaimPinned, KeepsFinal, OwnClaims, Moved, e, LiveClaim
<1>16. QED
  BY <1>9, <1>10, <1>11, <1>12, <1>13, <1>14, <1>15 DEF Careful

LEMMA UnclaimKeeps ==
  ASSUME IInv, NEW p \in Procs, Unclaim(p)
  PROVE  IInv' /\ Careful
<1> USE DEF IInv, StructInv
<1>1. TypeOK /\ job[p] # NoJob /\ job[p].phase = "unclaim"
      /\ UNCHANGED <<row, verdict, receipts, iteration, lock, handoff, revived, claimed>>
  BY DEF Unclaim, At, KeepRest
<1>2. job[p].id \in Ids /\ Mine(p) \in Row /\ job[p].outcome \in {None} \union Outcomes
      /\ Mine(p).verdict \in {None} \union Outcomes
  BY <1>1, JobIsJob
<1>3. Moved(p, "cancel", Mine(p))
  BY <1>1, <1>2, Gone DEF Unclaim, Phase
<1>4. /\ claim' \in [Entries -> {NoClaim} \union Claim]
      /\ \A f \in Entries : claim'[f] \in {NoClaim, claim[f]}
      /\ \A f \in Entries : claim'[f] # claim[f] => f = Mine(p).entry /\ LiveClaim(Mine(p))
  BY <1>2 DEF Unclaim, TypeOK, Row
<1>5. TypeOK'
  BY <1>1, <1>3, <1>4 DEF TypeOK, Moved
<1>6. HandoffHeld' /\ LockHeld' /\ OneReserver'
  BY <1>1, <1>3, <1>4, AttemptsAssumption, JobIsJob
     DEF HandoffHeld, LockHeld, OneReserver, Reserving, UnderHandoff, UnderLock, Cancelling,
         Moved
<1>7. CopiesAgree'
  BY <1>1, <1>3 DEF CopiesAgree, Mine, Completing, Moved
<1>8. StatusInv'
  BY <1>1, <1>2, <1>3, <1>4, AttemptsAssumption, JobIsJob, JobIsJob
     DEF StatusInv, Unexported, Underway, ClaimPinned, LockHeld, UnderLock, Mine, Completing,
         Cancelling, Unassigned, Amends, Moved, Row
<1>9. ReceiptInv'
  BY <1>1, <1>2, <1>3, <1>4, AttemptsAssumption, JobIsJob
     DEF ReceiptInv, Mine, Cancelling, ReceiptsAgree, External, Unreceipted, Moved
<1>10. SlotsKept
  BY <1>1 DEF SlotsKept, Slots, HoldsSlot
<1>11. KeepsFinal /\ OwnClaims
  BY <1>1, <1>3, <1>4 DEF KeepsFinal, OwnClaims, Moved
<1>12. QED
  BY <1>5, <1>6, <1>7, <1>8, <1>9, <1>10, <1>11 DEF Careful

LEMMA CrashKeeps ==
  ASSUME IInv, NEW p \in Procs, Crash(p)
  PROVE  IInv' /\ Careful
<1> USE DEF IInv, StructInv
<1>1. TypeOK /\ job[p] # NoJob /\ UNCHANGED <<row, iteration, revived>>
      /\ lock' = (IF lock = p THEN Free ELSE lock)
      /\ handoff' = [i \in Ids |-> IF handoff[i] = p THEN Free ELSE handoff[i]]
      /\ UNCHANGED <<claim, verdict, receipts, claimed>>
  BY DEF Crash, KeepEntry, KeepRest
<1>2. Stopped(p)
  BY Ended DEF Crash
<1>3. TypeOK'
  BY <1>1, <1>2 DEF TypeOK, Stopped
<1>4. HandoffHeld' /\ LockHeld' /\ OneReserver'
  BY <1>1, <1>2, JobIsJob DEF HandoffHeld, LockHeld, OneReserver, Stopped
<1>5. CopiesAgree'
  BY <1>1, <1>2 DEF CopiesAgree, Mine, Stopped
<1>6. Unexported'
  BY <1>1, <1>2, AttemptsAssumption, JobIsJob DEF StatusInv, Unexported, Mine, Stopped
<1>7. Underway'
  BY <1>1, <1>2 DEF StatusInv, Underway, Mine, Stopped
<1>8. ClaimPinned'
  BY <1>1, <1>2 DEF StatusInv, ClaimPinned, LiveClaim, Mine, Stopped
<1>9. ReceiptInv'
  BY <1>1, <1>2, AttemptsAssumption, JobIsJob
     DEF ReceiptInv, Mine, ReceiptsAgree, External, Unreceipted, Stopped
<1>10. SlotsKept
  BY <1>1 DEF SlotsKept, Slots, HoldsSlot
<1>11. KeepsFinal /\ OwnClaims
  BY <1>1 DEF KeepsFinal, OwnClaims
<1>12. QED
  BY <1>3, <1>4, <1>5, <1>6, <1>7, <1>8, <1>9, <1>10, <1>11 DEF StatusInv, Careful

LEMMA ReserveKeeps ==
  ASSUME IInv, NEW p \in Procs, NEW i \in Ids, NEW e \in Entries,
         NEW kind \in {"exec", "external"}, Reserve(p, i, e, kind)
  PROVE  IInv' /\ Careful
<1> USE DEF IInv, StructInv
<1> DEFINE r == [kind |-> kind, by |-> SessionOf[p], entry |-> e, at |-> claim[e].at,
                 status |-> "reserved", failed |-> FALSE, reaped |-> FALSE,
                 report |-> None, verdict |-> None]
           phase == IF kind = "exec" THEN "launch" ELSE "handoff"
<1>1. TypeOK /\ job[p] = NoJob /\ lock = Free /\ claim[e] # NoClaim /\ row[i] = NoRow
      /\ Cardinality(Slots) < MaxParallel
      /\ UNCHANGED <<iteration, lock, handoff>>
      /\ UNCHANGED <<claim, verdict, receipts, claimed>>
  BY DEF Reserve, KeepEntry, KeepRest, Slots
<1>2. r \in Row /\ r.kind = kind /\ r.status = "reserved"
  BY <1>1, AttemptsAssumption DEF Row, TypeOK, Claim, Active
<1>3. /\ SaveRow(i, r)
      /\ job' = [job EXCEPT ![p] = [phase |-> phase, id |-> i, row |-> r, outcome |-> None]]
  BY DEF Reserve
<1> HIDE DEF r
<1>4. phase \in Phase /\ (kind = "exec" <=> phase = "launch") /\ phase \in {"launch", "handoff"}
  BY DEF Phase
<1> HIDE DEF phase
<1>5. Began(p, phase, i, r, None) /\ Wrote(i, r)
  BY <1>1, <1>2, <1>3, <1>4, Started, Saved
<1>6. \A q \in Procs : job[q] # NoJob => job[q].id # i
  BY <1>1 DEF CopiesAgree
<1>7. \A f \in Entries : \A receipt \in receipts[f] : receipt[1] # i
  BY <1>1 DEF ReceiptInv, ReceiptsAgree
<1>8. TypeOK'
  BY <1>1, <1>5 DEF TypeOK, Began, Wrote
<1>9. HandoffHeld' /\ LockHeld' /\ OneReserver'
  BY <1>1, <1>2, <1>4, <1>5, <1>6, <1>7, AttemptsAssumption, JobIsJob
     DEF HandoffHeld, LockHeld, OneReserver, UnderHandoff, UnderLock, Completing, Cancelling,
         Began
<1>10. CopiesAgree'
  BY <1>2, <1>4, <1>5, <1>6, <1>7, AttemptsAssumption, JobIsJob
     DEF CopiesAgree, SameAttempt, Mine, Completing, Began, Wrote
<1>11. StatusInv'
  BY <1>1, <1>2, <1>4, <1>5, <1>6, <1>7, AttemptsAssumption, JobIsJob
     DEF StatusInv, Unexported, Underway, ClaimPinned, LockHeld, UnderLock, Mine, Completing,
         Cancelling, Unassigned, Amends, Began, Wrote
<1>12. ReceiptInv'
  BY <1>1, <1>2, <1>4, <1>5, <1>6, <1>7, AttemptsAssumption, JobIsJob
     DEF TypeOK, CopiesAgree, HandoffHeld, LockHeld, ReceiptInv, StatusInv, Unexported,
         Underway, SameAttempt, Mine, Unassigned, Completing, Cancelling, UnderHandoff,
    UnderLock, Amends, ReceiptsAgree, External, Unreceipted, Began, Wrote
<1>13. SlotsKept
  BY <1>1, <1>5 DEF SlotsKept, Slots, HoldsSlot, Wrote
<1>14. KeepsFinal /\ OwnClaims
  BY <1>1, <1>5 DEF KeepsFinal, OwnClaims, Wrote
<1>15. QED
  BY <1>8, <1>9, <1>10, <1>11, <1>12, <1>13, <1>14 DEF Careful

LEMMA CompleteKeeps ==
  ASSUME IInv, NEW p \in Procs, NEW i \in Ids, NEW o \in Outcomes, Complete(p, i, o)
  PROVE  IInv' /\ Careful
<1> USE DEF IInv, StructInv
<1>1. TypeOK /\ job[p] = NoJob /\ handoff[i] = Free /\ row[i] # NoRow /\ row[i].kind = "external"
      /\ row[i].status \in {"assigned", "completing"} /\ row[i].report \in {None, o}
      /\ UNCHANGED <<row, iteration, lock, revived>>
      /\ UNCHANGED <<claim, verdict, receipts, claimed>>
  BY DEF Complete, KeepEntry, KeepRest
<1>2. row[i] \in Row
  BY <1>1, RowIsRow
<1>3. PICK phase \in {"harvest", "settle"}, v \in {None} \union Outcomes :
         /\ phase = "settle" => <<i, v>> \in receipts[row[i].entry]
         /\ phase = "harvest" => ~Receipted(i)
         /\ job' = [job EXCEPT ![p] = [phase |-> phase, id |-> i, outcome |-> o,
                                       row |-> [row[i] EXCEPT !.verdict = v]]]
  BY DEF Complete
<1> DEFINE r == [row[i] EXCEPT !.verdict = v]
<1>4. Amends(r, row[i], row[i].status, row[i].report, v, row[i].reaped)
  BY <1>2, Amended DEF Row
<1>5. job' = [job EXCEPT ![p] = [phase |-> phase, id |-> i, row |-> r, outcome |-> o]]
  BY <1>3
<1> HIDE DEF r
<1>6. Began(p, phase, i, r, o)
  BY <1>1, <1>4, <1>5, Started DEF Amends, Phase
<1>7. /\ handoff' \in [Ids -> Procs \union {Free}] /\ handoff'[i] = p
      /\ \A k \in Ids : k # i => handoff'[k] = handoff[k]
  BY DEF Complete, TypeOK
<1>8. \A f \in Entries : \A receipt \in receipts[f] :
         receipt[1] = i => phase = "settle" /\ receipt[2] = v
  <2> SUFFICES ASSUME NEW f \in Entries, NEW w \in Outcomes, <<i, w>> \in receipts[f]
               PROVE  phase = "settle" /\ w = v
    BY DEF TypeOK
  <2>1. f = row[i].entry /\ w = row[i].report
    BY DEF ReceiptInv, ReceiptsAgree
  <2>2. phase = "settle"
    BY <1>3, <2>1 DEF Receipted
  <2>3. v = row[i].report
    BY <1>3, <2>2 DEF ReceiptInv, ReceiptsAgree
  <2>4. QED
    BY <2>1, <2>2, <2>3
<1>9. \A q \in Procs : job[q] # NoJob /\ job[q].id = i => job[q].phase \notin Unassigned
  BY <1>1 DEF StatusInv, Unexported
<1>10. TypeOK'
  BY <1>1, <1>6, <1>7 DEF TypeOK, Began
<1>11. HandoffHeld' /\ LockHeld' /\ OneReserver'
  BY <1>1, <1>3, <1>4, <1>6, <1>7, <1>8, <1>9, AttemptsAssumption, JobIsJob
     DEF HandoffHeld, LockHeld, OneReserver, Reserving, UnderLock, Cancelling
<1>12. CopiesAgree'
  BY <1>1, <1>3, <1>4, <1>6, <1>8, <1>9, AttemptsAssumption, JobIsJob
     DEF CopiesAgree, Mine, Amends, Began
<1>13. StatusInv'
  <2>1. Unexported'
    BY <1>1, <1>2, <1>3, <1>4, <1>6, <1>7, <1>8, <1>9, AttemptsAssumption, JobIsJob
       DEF StatusInv, Unexported, Underway, ClaimPinned, LiveClaim, SameAttempt,
           CopiesAgree, HandoffHeld, LockHeld, OneReserver, Reserving, UnderHandoff,
           UnderLock, Mine, Completing, Cancelling, Unassigned, Amends, Began
  <2>2. Underway'
    BY <1>1, <1>2, <1>3, <1>4, <1>6, <1>7, <1>8, <1>9, AttemptsAssumption, JobIsJob
       DEF StatusInv, Unexported, Underway, ClaimPinned, LiveClaim, SameAttempt,
           CopiesAgree, HandoffHeld, LockHeld, OneReserver, Reserving, UnderHandoff,
           UnderLock, Mine, Completing, Cancelling, Unassigned, Amends, Began
  <2>3. ClaimPinned'
    BY <1>1, <1>2, <1>3, <1>4, <1>6, <1>7, <1>8, <1>9, AttemptsAssumption, JobIsJob
       DEF StatusInv, ClaimPinned, LiveClaim, SameAttempt, CopiesAgree, HandoffHeld,
           LockHeld, OneReserver, Reserving, UnderHandoff, UnderLock, Mine, Completing,
           Cancelling, Unassigned, Amends, Began
  <2>4. QED
    BY <2>1, <2>2, <2>3 DEF StatusInv
<1>14. ReceiptInv'
  <2>1. ReceiptsAgree'
    BY <1>1, <1>2, <1>3, <1>4, <1>6, <1>7, <1>8, <1>9, AttemptsAssumption, JobIsJob
       DEF ReceiptInv, Mine, Unassigned, Cancelling, ReceiptsAgree, External, Unreceipted,
           Began
  <2>2. External'
    BY <1>1, <1>2, <1>3, <1>4, <1>6, <1>7, <1>8, <1>9, AttemptsAssumption, JobIsJob
       DEF ReceiptInv, Mine, Unassigned, Cancelling, External, Began
  <2>3. Unreceipted'
    BY <1>1, <1>2, <1>3, <1>4, <1>6, <1>7, <1>8, <1>9, AttemptsAssumption, JobIsJob
       DEF ReceiptInv, Mine, Unassigned, Cancelling, ReceiptsAgree, External, Unreceipted,
           Began
  <2>4. QED
    BY <2>1, <2>2, <2>3 DEF ReceiptInv
<1>15. SlotsKept
  BY <1>1 DEF SlotsKept, Slots, HoldsSlot
<1>16. KeepsFinal /\ OwnClaims
  BY <1>1 DEF KeepsFinal, OwnClaims
<1>17. QED
  BY <1>10, <1>11, <1>12, <1>13, <1>14, <1>15, <1>16 DEF Careful

LEMMA CancelKeeps ==
  ASSUME IInv, NEW p \in Procs, NEW i \in Ids, Cancel(p, i)
  PROVE  IInv' /\ Careful
<1> USE DEF IInv, StructInv
<1> DEFINE r == [row[i] EXCEPT !.status = "cancelling"]
<1>1. TypeOK /\ job[p] = NoJob /\ handoff[i] = Free /\ lock = Free
      /\ row[i] # NoRow /\ row[i].kind = "external" /\ row[i].status \in Active
      /\ ~Receipted(i) /\ lock' = p /\ UNCHANGED iteration
      /\ UNCHANGED <<claim, verdict, receipts, claimed>>
  BY DEF Cancel, KeepEntry, KeepRest
<1>2. row[i] \in Row
  BY <1>1, RowIsRow
<1>3. Amends(r, row[i], "cancelling", row[i].report, row[i].verdict, row[i].reaped)
  BY <1>2, Amended DEF Row, Active
<1>4. /\ SaveRow(i, r)
      /\ job' = [job EXCEPT ![p] = [phase |-> "unclaim", id |-> i, row |-> r, outcome |-> None]]
  BY DEF Cancel
<1> HIDE DEF r
<1>5. Began(p, "unclaim", i, r, None) /\ Wrote(i, r)
  BY <1>1, <1>3, <1>4, Started, Saved DEF Amends, Phase
<1>6. /\ handoff' \in [Ids -> Procs \union {Free}] /\ handoff'[i] = p
      /\ \A k \in Ids : k # i => handoff'[k] = handoff[k]
  BY DEF Cancel, TypeOK
<1>7. \A f \in Entries : \A receipt \in receipts[f] : receipt[1] # i
  <2> SUFFICES ASSUME NEW f \in Entries, NEW w \in Outcomes, <<i, w>> \in receipts[f]
               PROVE  FALSE
    BY DEF TypeOK
  <2>1. QED
    BY <1>1 DEF ReceiptInv, ReceiptsAgree, Receipted
<1>8. TypeOK'
  BY <1>1, <1>5, <1>6 DEF TypeOK, Began, Wrote
<1>9. HandoffHeld' /\ LockHeld' /\ OneReserver'
  BY <1>1, <1>5, <1>6, <1>7, AttemptsAssumption, JobIsJob
     DEF HandoffHeld, LockHeld, OneReserver, Reserving, Began
<1>10. CopiesAgree'
  BY <1>1, <1>3, <1>5, <1>7, AttemptsAssumption, JobIsJob
     DEF CopiesAgree, SameAttempt, Mine, Completing, Amends, Began, Wrote
<1>11. StatusInv'
  BY <1>1, <1>2, <1>3, <1>5, <1>6, <1>7, AttemptsAssumption, JobIsJob
     DEF StatusInv, Unexported, Underway, ClaimPinned, LockHeld, UnderLock, Mine, Completing,
         Cancelling, Unassigned, Amends, Began, Wrote
<1>12. ReceiptInv'
  BY <1>1, <1>2, <1>3, <1>5, <1>6, <1>7, AttemptsAssumption, JobIsJob
     DEF TypeOK, ReceiptInv, Mine, ReceiptsAgree, External, Unreceipted, Began, Wrote
<1>13. SlotsKept
  BY <1>1, <1>3, <1>5, WriteSlots DEF SameAttempt, Amends
<1>14. KeepsFinal /\ OwnClaims
  BY <1>1, <1>5 DEF KeepsFinal, OwnClaims, Active, Wrote
<1>15. QED
  BY <1>8, <1>9, <1>10, <1>11, <1>12, <1>13, <1>14 DEF Careful

LEMMA CheckpointKeeps ==
  ASSUME IInv, NEW p \in Procs, NEW i \in Ids, Checkpoint(p, i)
  PROVE  IInv' /\ Careful
<1> USE DEF IInv, StructInv
<1> DEFINE r == [row[i] EXCEPT !.status = "cancelled"]
<1>1. TypeOK /\ lock = Free /\ row[i] # NoRow /\ row[i].kind = "exec" /\ row[i].status \in Active
      /\ UNCHANGED <<iteration, job, lock, handoff>>
      /\ UNCHANGED <<claim, verdict, receipts, claimed>>
  BY DEF Checkpoint, KeepEntry, KeepRest
<1>2. row[i] \in Row
  BY <1>1, RowIsRow
<1>3. Amends(r, row[i], "cancelled", row[i].report, row[i].verdict, row[i].reaped)
  BY <1>2, Amended DEF Row, Terminal
<1>4. SaveRow(i, r)
  BY DEF Checkpoint
<1> HIDE DEF r
<1>5. Wrote(i, r)
  BY <1>3, <1>4, Saved DEF Amends
<1>6. TypeOK'
  BY <1>1, <1>5 DEF TypeOK, Wrote
<1>7. HandoffHeld' /\ LockHeld' /\ OneReserver'
  BY <1>1 DEF HandoffHeld, LockHeld, OneReserver
<1>8. CopiesAgree'
  BY <1>1, <1>3, <1>5, JobIsJob DEF CopiesAgree, SameAttempt, Mine, Amends, Wrote
<1>9. StatusInv'
  BY <1>1, <1>2, <1>3, <1>5, AttemptsAssumption, JobIsJob
     DEF StatusInv, Unexported, Underway, ClaimPinned, LockHeld, UnderLock, Mine, Completing,
         Cancelling, Unassigned, Amends, Wrote
<1>10. ReceiptInv'
  BY <1>1, <1>2, <1>3, <1>5, AttemptsAssumption, JobIsJob
     DEF TypeOK, ReceiptInv, Mine, ReceiptsAgree, External, Unreceipted, Wrote
<1>11. SlotsKept
  BY <1>1, <1>3, <1>5, WriteSlots DEF SameAttempt, Amends
<1>12. KeepsFinal /\ OwnClaims
  BY <1>1, <1>5 DEF KeepsFinal, OwnClaims, Active, Wrote
<1>13. QED
  BY <1>6, <1>7, <1>8, <1>9, <1>10, <1>11, <1>12 DEF Careful

LEMMA ReapAssignmentKeeps ==
  ASSUME IInv, NEW p \in Procs, NEW i \in Ids, ReapAssignment(p, i)
  PROVE  IInv' /\ Careful
<1> USE DEF IInv, StructInv
<1> DEFINE r == [row[i] EXCEPT !.status = "cancelled", !.reaped = TRUE]
<1>1. TypeOK /\ lock = Free /\ row[i] # NoRow /\ row[i].kind = "external" /\ ~Settled(i)
      /\ UNCHANGED <<iteration, job, lock, handoff>>
      /\ UNCHANGED <<claim, verdict, receipts, claimed>>
  BY DEF ReapAssignment, KeepEntry, KeepRest
<1>2. row[i] \in Row
  BY <1>1, RowIsRow
<1>3. Amends(r, row[i], "cancelled", row[i].report, row[i].verdict, TRUE)
  BY <1>2, Amended DEF Row, Terminal
<1>4. SaveRow(i, r)
  BY DEF ReapAssignment
<1> HIDE DEF r
<1>5. Wrote(i, r)
  BY <1>3, <1>4, Saved DEF Amends
<1>6. TypeOK'
  BY <1>1, <1>5 DEF TypeOK, Wrote
<1>7. HandoffHeld' /\ LockHeld' /\ OneReserver'
  BY <1>1 DEF HandoffHeld, LockHeld, OneReserver
<1>8. CopiesAgree'
  BY <1>1, <1>3, <1>5, JobIsJob DEF CopiesAgree, SameAttempt, Mine, Amends, Wrote
<1>9. StatusInv'
  BY <1>1, <1>2, <1>3, <1>5, AttemptsAssumption, JobIsJob
     DEF StatusInv, Unexported, Underway, ClaimPinned, LockHeld, UnderLock, Mine, Completing,
         Cancelling, Unassigned, Amends, Wrote
<1>10. ReceiptInv'
  BY <1>1, <1>2, <1>3, <1>5, AttemptsAssumption, JobIsJob
     DEF TypeOK, ReceiptInv, SameAttempt, Mine, Cancelling, UnderLock, Amends, ReceiptsAgree,
         External, Unreceipted, Wrote, Settled, Terminal
<1>11. SlotsKept
  BY <1>1, <1>3, <1>5, WriteSlots DEF SameAttempt, Amends
<1>12. KeepsFinal /\ OwnClaims
  BY <1>1, <1>5 DEF KeepsFinal, OwnClaims, Settled, Terminal, Wrote
<1>13. QED
  BY <1>6, <1>7, <1>8, <1>9, <1>10, <1>11, <1>12 DEF Careful

LEMMA TakeClaimKeeps ==
  ASSUME IInv, NEW p \in Procs, NEW e \in Entries, TakeClaim(p, e)
  PROVE  IInv' /\ Careful
<1> USE DEF IInv, StructInv
<1>1. TypeOK /\ lock = Free /\ claim[e] = NoClaim
      /\ UNCHANGED <<row, verdict, receipts, iteration, job, lock, handoff, revived>>
  BY DEF TakeClaim
<1>2. /\ claim' \in [Entries -> {NoClaim} \union Claim] /\ claimed' \in 0..MaxClaims
      /\ \A f \in Entries : claim[f] # NoClaim => claim'[f] = claim[f]
  <2>1. claimed + 1 \in 1..MaxClaims /\ claimed' = claimed + 1
    BY AttemptsAssumption DEF TakeClaim, TypeOK
  <2>2. [by |-> SessionOf[p], at |-> claimed + 1] \in Claim
    BY <2>1, AttemptsAssumption DEF Claim
  <2>3. QED
    BY <2>2, AttemptsAssumption DEF TakeClaim, TypeOK
<1>3. TypeOK'
  BY <1>1, <1>2 DEF TypeOK
<1>4. HandoffHeld' /\ LockHeld' /\ OneReserver'
  BY <1>1 DEF HandoffHeld, LockHeld, OneReserver
<1>5. CopiesAgree'
  BY <1>1 DEF CopiesAgree, Mine
<1>6. StatusInv'
  BY <1>1, <1>2, AttemptsAssumption, JobIsJob
     DEF StatusInv, Unexported, Underway, ClaimPinned, LockHeld, UnderLock, Mine
<1>7. ReceiptInv'
  BY <1>1, <1>2, AttemptsAssumption, JobIsJob
     DEF ReceiptInv, Mine, ReceiptsAgree, External, Unreceipted
<1>8. SlotsKept
  BY <1>1 DEF SlotsKept, Slots, HoldsSlot
<1>9. KeepsFinal /\ OwnClaims
  BY <1>1 DEF KeepsFinal, OwnClaims
<1>10. QED
  BY <1>3, <1>4, <1>5, <1>6, <1>7, <1>8, <1>9 DEF Careful

LEMMA EntryKeeps ==
  ASSUME IInv, NEW e \in Entries, EndClaim(e) \/ CloseEntry(e) \/ ReopenEntry(e)
  PROVE  IInv' /\ Careful
<1> USE DEF IInv, StructInv
<1>1. TypeOK /\ UNCHANGED <<row, receipts, iteration, job, lock, handoff, claimed, revived>>
  BY DEF EndClaim, CloseEntry, ReopenEntry
<1>2. /\ claim' \in [Entries -> {NoClaim} \union Claim]
      /\ \A f \in Entries : claim'[f] \in {NoClaim, claim[f]}
      /\ verdict' \in [Entries -> {None} \union Verdicts]
  BY DEF TypeOK, EndClaim, CloseEntry, ReopenEntry
<1>3. TypeOK'
  BY <1>1, <1>2 DEF TypeOK
<1>4. HandoffHeld' /\ LockHeld' /\ OneReserver'
  BY <1>1 DEF HandoffHeld, LockHeld, OneReserver
<1>5. CopiesAgree'
  BY <1>1 DEF CopiesAgree, Mine
<1>6. StatusInv'
  BY <1>1, <1>2, AttemptsAssumption, JobIsJob, JobIsJob
     DEF StatusInv, Unexported, Underway, ClaimPinned, LiveClaim, Mine, Row
<1>7. ReceiptInv'
  BY <1>1, <1>2, AttemptsAssumption, JobIsJob
     DEF ReceiptInv, Mine, ReceiptsAgree, External, Unreceipted
<1>8. SlotsKept
  BY <1>1 DEF SlotsKept, Slots, HoldsSlot
<1>9. KeepsFinal /\ OwnClaims
  BY <1>1 DEF KeepsFinal, OwnClaims
<1>10. QED
  BY <1>3, <1>4, <1>5, <1>6, <1>7, <1>8, <1>9 DEF Careful

LEMMA StutterKeeps ==
  ASSUME IInv, UNCHANGED vars
  PROVE  IInv' /\ Careful
<1> USE DEF IInv, StructInv
<1>1. TypeOK /\ UNCHANGED <<row, claim, verdict, receipts, iteration, job, lock, handoff,
      claimed, revived>>
  BY DEF vars
<1>2. TypeOK'
  BY <1>1 DEF TypeOK
<1>3. HandoffHeld' /\ LockHeld' /\ OneReserver'
  BY <1>1 DEF HandoffHeld, LockHeld, OneReserver
<1>4. CopiesAgree'
  BY <1>1 DEF CopiesAgree, Mine
<1>5. StatusInv'
  BY <1>1 DEF StatusInv, Unexported, Underway, ClaimPinned, LiveClaim, Mine
<1>6. ReceiptInv'
  BY <1>1, AttemptsAssumption, JobIsJob
     DEF ReceiptInv, Mine, ReceiptsAgree, External, Unreceipted
<1>7. SlotsKept
  BY <1>1 DEF SlotsKept, Slots, HoldsSlot
<1>8. KeepsFinal /\ OwnClaims
  BY <1>1 DEF KeepsFinal, OwnClaims
<1>9. QED
  BY <1>2, <1>3, <1>4, <1>5, <1>6, <1>7, <1>8 DEF Careful

LEMMA StepKeeps == IInv /\ [Next]_vars => IInv' /\ Careful
<1> SUFFICES ASSUME IInv, [Next]_vars PROVE IInv' /\ Careful
  OBVIOUS
<1>1. ASSUME NEW p \in Procs, NEW i \in Ids, Begin(p, i) PROVE IInv' /\ Careful
  BY <1>1, ReserveKeeps, CompleteKeeps, CheckpointKeeps, CancelKeeps, ReapAssignmentKeeps
     DEF Begin
<1>2. ASSUME NEW p \in Procs, Exec(p) PROVE IInv' /\ Careful
  BY <1>2, LaunchKeeps, SettleExecKeeps DEF Exec
<1>3. ASSUME NEW p \in Procs, Assign(p) PROVE IInv' /\ Careful
  BY <1>3, TakeHandoffKeeps, PrepareKeeps, AbandonKeeps, ExportKeeps, FailSetupKeeps,
     ListAssignedKeeps DEF Assign
<1>4. ASSUME NEW p \in Procs, Completion(p) PROVE IInv' /\ Careful
  BY <1>4, RefuseReportKeeps, HarvestKeeps, ApplyVerdictKeeps, RefuseCloseKeeps,
     NoteVerdictKeeps, FoldKeeps, SettleKeeps DEF Completion
<1>5. ASSUME NEW p \in Procs, Cancellation(p) PROVE IInv' /\ Careful
  BY <1>5, UnclaimKeeps, FinishCancelKeeps, FoldCancelKeeps DEF Cancellation
<1>6. QED
  BY <1>1, <1>2, <1>3, <1>4, <1>5, CrashKeeps, TakeClaimKeeps, EntryKeeps, StutterKeeps DEF Next

LEMMA InitHolds == Init => IInv
<1>1. Init => TypeOK
  <2>1. 0 \in 0..MaxClaims
    BY AttemptsAssumption
  <2>2. QED
    BY <2>1 DEF Init, TypeOK
<1>2. Init => HandoffHeld /\ LockHeld /\ CopiesAgree /\ OneReserver
  BY DEF Init, HandoffHeld, LockHeld, CopiesAgree, OneReserver
<1>3. Init => StatusInv
  BY DEF Init, StatusInv, Unexported, Underway, ClaimPinned
<1>4. Init => ReceiptInv
  BY DEF Init, ReceiptInv, ReceiptsAgree, External, Unreceipted
<1>5. QED
  BY <1>1, <1>2, <1>3, <1>4 DEF IInv, StructInv

LEMMA InvHolds == Spec => []IInv
BY InitHolds, StepKeeps, PTL DEF Spec

-----------------------------------------------------------------------------
(* No record, claim, copy or lock ever leaves its type, however the        *)
(* processes interleave and die (attempts.py, external.py).                *)
THEOREM TypeCorrect == Spec => []TypeOK
BY InvHolds, PTL DEF IInv, StructInv

(* max_parallel bounds the attempts in flight, for every number of         *)
(* processes and attempts (attempts.py reserve).                           *)
THEOREM SlotCeilingHolds == Spec => []SlotCeiling
<1>1. SlotCeiling <=> (revived \/ Cardinality(Slots) <= MaxParallel)
  BY DEF SlotCeiling, Slots, HoldsSlot
<1>2. IsFiniteSet(Slots) /\ Cardinality(Slots) \in Nat /\ IsFiniteSet(Slots')
  BY AttemptsAssumption, FS_Subset, FS_CardinalityType DEF Slots
<1>3. Init => SlotCeiling
  <2>1. Init => Slots = {}
    BY DEF Init, Slots, HoldsSlot
  <2>2. QED
    BY <1>1, <2>1, FS_EmptySet, AttemptsAssumption
<1>4. SlotCeiling /\ SlotsKept => SlotCeiling'
  <2> SUFFICES ASSUME SlotCeiling, SlotsKept, ~revived'
               PROVE  Cardinality(Slots') <= MaxParallel
    BY DEF SlotCeiling, Slots, HoldsSlot
  <2>1. CASE Slots' \subseteq Slots
    <3>1. Cardinality(Slots') \in Nat /\ Cardinality(Slots') <= Cardinality(Slots)
      BY <1>2, <2>1, FS_Subset, FS_CardinalityType
    <3>2. Cardinality(Slots) <= MaxParallel
      BY <1>1 DEF SlotsKept
    <3>3. QED
      BY <1>2, <3>1, <3>2, AttemptsAssumption
  <2>2. ASSUME NEW i \in Ids, Slots' \subseteq Slots \union {i}, Cardinality(Slots) < MaxParallel
        PROVE  Cardinality(Slots') <= MaxParallel
    <3>1. /\ IsFiniteSet(Slots \union {i})
          /\ Cardinality(Slots \union {i}) <= Cardinality(Slots) + 1
      <4>1. /\ IsFiniteSet(Slots \union {i})
            /\ Cardinality(Slots \union {i}) = IF i \in Slots THEN Cardinality(Slots)
                                               ELSE Cardinality(Slots) + 1
        BY <1>2, FS_AddElement
      <4> QED
        BY <1>2, <4>1
    <3>2. /\ Cardinality(Slots') <= Cardinality(Slots \union {i})
          /\ Cardinality(Slots') \in Nat /\ Cardinality(Slots \union {i}) \in Nat
      BY <2>2, <3>1, FS_Subset, FS_CardinalityType
    <3>3. QED
      BY <1>2, <2>2, <3>1, <3>2, AttemptsAssumption
  <2>3. QED
    BY <2>1, <2>2 DEF SlotsKept
<1>5. IInv /\ [Next]_vars => SlotsKept
  BY StepKeeps DEF Careful
<1>6. QED
  BY <1>3, <1>4, <1>5, InvHolds, PTL DEF Spec

(* An assignment's settlement or cancellation ends no claim but its own.   *)
THEOREM EndsOwnClaimOnlyHolds == Spec => EndsOwnClaimOnly
<1>1. IInv /\ [Next]_vars => [OwnClaims]_vars
  BY StepKeeps DEF Careful
<1>2. QED
  BY <1>1, InvHolds, PTL DEF Spec, EndsOwnClaimOnly, OwnClaims

(* No retry, cancel, reap or late copy changes a completed record again.   *)
THEOREM CompletedStaysHolds == Spec => CompletedStays
<1>1. IInv /\ [Next]_vars => [KeepsFinal]_vars
  BY StepKeeps DEF Careful
<1>2. QED
  BY <1>1, InvHolds, PTL DEF Spec, CompletedStays, KeepsFinal

(* The record of an attempt and the receipt on its entry tell one story.   *)
THEOREM ReceiptsAgreeHolds == Spec => []ReceiptsAgree
BY InvHolds, PTL DEF IInv, ReceiptInv
=============================================================================
