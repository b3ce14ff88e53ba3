-------------------------- MODULE EntryStoreProofs --------------------------
(* Proofs about EntryStore: for any set of processes, threads and entries, *)
(* a save never removes an edit as long as no process re-reads an entry it *)
(* holds a changed copy of; and whatever was reported saved stays saved.   *)
EXTENDS EntryStore, TLAPS

(* Whoever is past load()'s first read works on an entry that is there.    *)
TargetExists ==
    \A w \in Writers : pc[w] = "stat" \/ Holding(w) => Exists(at[w])

LEMMA MyEditIsEdit ==
  ASSUME TypeOK, NEW w \in Writers PROVE MyEdit(w) \in Edits
BY DEF TypeOK, MyEdit, Edits

LEMMA InitTypes == Init => TypeOK /\ TargetExists
<1> SUFFICES ASSUME Init PROVE TypeOK /\ TargetExists
  OBVIOUS
<1> USE EntryStoreAssumption DEF Init
<1>1. {} \in Records
  BY DEF Records
<1>2. disk \in [Ids -> {NoRecord} \union Records]
  BY <1>1
<1>3. cache \in [Procs -> [Ids -> {Unread} \union Records]]
  OBVIOUS
<1>4. lock \in [Ids -> Writers \union {Free}] /\ pc \in [Writers -> Phase]
  BY DEF Phase
<1>5. at \in [Writers -> Ids] /\ ops \in [Writers -> 0..MaxOps]
  BY DEF Ids
<1>6. seen \in [Writers -> Records] /\ buf \in [Writers -> Records] /\ acked \in [Ids -> Records]
  BY <1>1
<1>7. TargetExists
  BY DEF TargetExists, Holding
<1>8. QED
  BY <1>2, <1>3, <1>4, <1>5, <1>6, <1>7 DEF TypeOK

LEMMA NextTypes == TypeOK /\ TargetExists /\ [Next]_vars => TypeOK' /\ TargetExists'
<1> SUFFICES ASSUME TypeOK, TargetExists, [Next]_vars PROVE TypeOK' /\ TargetExists'
  OBVIOUS
<1> USE EntryStoreAssumption DEF TypeOK, TargetExists, Phase, Goto, Exists, Holding
<1>1. ASSUME NEW w \in Writers, NEW i \in Ids, Stat(w, i) PROVE TypeOK' /\ TargetExists'
  BY <1>1 DEF Stat
<1>2. ASSUME NEW w \in Writers, ReadBody(w) PROVE TypeOK' /\ TargetExists'
  <2>1. disk[at[w]] \union {MyEdit(w)} \in Records
    BY <1>2, MyEditIsEdit DEF ReadBody, Records
  <2>2. refreshed' \subseteq Writers
    BY <1>2 DEF ReadBody, Restamped
  <2>3. cache' \in [Procs -> [Ids -> {Unread} \union Records]]
    BY <1>2 DEF ReadBody
  <2>4. QED
    BY <1>2, <2>1, <2>2, <2>3 DEF ReadBody
<1>3. ASSUME NEW w \in Writers, Enter(w) PROVE TypeOK' /\ TargetExists'
  BY <1>3 DEF Enter
<1>4. ASSUME NEW w \in Writers, LockTimeout(w) PROVE TypeOK' /\ TargetExists'
  BY <1>4 DEF LockTimeout
<1>5. ASSUME NEW w \in Writers, Check(w) PROVE TypeOK' /\ TargetExists'
  BY <1>5 DEF Check
<1>6. ASSUME NEW w \in Writers, Refuse(w) PROVE TypeOK' /\ TargetExists'
  BY <1>6 DEF Refuse
<1>7. ASSUME NEW w \in Writers, Replace(w) PROVE TypeOK' /\ TargetExists'
  BY <1>7 DEF Replace
<1>8. ASSUME NEW w \in Writers, Finish(w) PROVE TypeOK' /\ TargetExists'
  <2>1. disk[at[w]] \in Records
    BY <1>8 DEF Finish
  <2>2. refreshed' \subseteq Writers
    BY <1>8 DEF Finish, Restamped
  <2>3. cache' \in [Procs -> [Ids -> {Unread} \union Records]]
    BY <1>8, <2>1 DEF Finish
  <2>4. acked' \in [Ids -> Records]
    BY <1>8, MyEditIsEdit DEF Finish, Records
  <2>5. QED
    BY <1>8, <2>2, <2>3, <2>4 DEF Finish
<1>9. ASSUME NEW w \in Writers, Number(w) PROVE TypeOK' /\ TargetExists'
  BY <1>9 DEF Number, Scan, Restamped
<1>10. ASSUME NEW w \in Writers, Link(w) PROVE TypeOK' /\ TargetExists'
  <2>1. {MyEdit(w)} \in Records
    BY MyEditIsEdit DEF Records
  <2>2. acked' \in [Ids -> Records]
    BY <1>10, MyEditIsEdit DEF Link, Records
  <2>3. QED
    BY <1>10, <2>1, <2>2 DEF Link
<1>11. ASSUME NEW w \in Writers, Renumber(w) PROVE TypeOK' /\ TargetExists'
  <2>1. PICK n \in 1..(MaxId + 1) :
           LET next == IF n > at[w] + 1 THEN n ELSE at[w] + 1
           IN  next <= MaxId /\ at' = [at EXCEPT ![w] = next]
    BY <1>11 DEF Renumber
  <2>2. (IF n > at[w] + 1 THEN n ELSE at[w] + 1) \in Nat \ {0}
    BY DEF Ids
  <2>3. at' \in [Writers -> Ids]
    BY <2>1, <2>2 DEF Ids
  <2>4. cache' \in [Procs -> [Ids -> {Unread} \union Records]] /\ refreshed' \subseteq Writers
    BY <1>11 DEF Renumber, Scan, Restamped
  <2>5. QED
    BY <1>11, <2>3, <2>4 DEF Renumber
<1>12. ASSUME NEW w \in Writers, Rescan(w) PROVE TypeOK' /\ TargetExists'
  BY <1>12 DEF Rescan, Scan, Restamped
<1>13. ASSUME NEW p \in Procs, Crash(p) PROVE TypeOK' /\ TargetExists'
  BY <1>13 DEF Crash
<1>14. CASE UNCHANGED vars
  BY <1>14 DEF vars
<1>15. ASSUME NEW w \in Writers, RefuseTaken(w) PROVE TypeOK' /\ TargetExists'
  BY <1>15 DEF RefuseTaken
<1>16. QED
  BY <1>1, <1>2, <1>3, <1>4, <1>5, <1>6, <1>7, <1>8, <1>9, <1>10, <1>11, <1>12,
     <1>13, <1>14, <1>15 DEF Next, Save, File

-----------------------------------------------------------------------------
(* What a copy is worth, while no refreshed writer has replaced a file:    *)
(* the signature of an unrefreshed copy is the one the guard compares, all *)
(* that was on disk when it was taken is in the copy, and from the check to*)
(* the replacement the file still is what the signature says.              *)
CopyInv ==
    \A w \in Writers :
        /\ pc[w] \in {"locked", "checked", "written"} => lock[at[w]] = w
        /\ Holding(w) /\ w \notin refreshed => cache[ProcOf[w]][at[w]] = seen[w]
        /\ Holding(w) => MyEdit(w) \in buf[w]
        /\ ~blind =>
             /\ pc[w] = "stat" => seen[w] \subseteq disk[at[w]]
             /\ Holding(w) => seen[w] \subseteq buf[w]
             /\ pc[w] = "checked" /\ w \notin refreshed => disk[at[w]] = seen[w]
             /\ pc[w] = "written" => disk[at[w]] = buf[w]

IInv == TypeOK /\ TargetExists /\ CopyInv /\ AckedEditsPersist

(* What NoLostUpdateUnrefreshed says of one step.                          *)
KeepsEdits == ~blind' => \A i \in Ids : Exists(i) => disk[i] \subseteq disk'[i]

LEMMA StepKeepsEdits ==
  ASSUME TypeOK, TargetExists, CopyInv, [Next]_vars
  PROVE  KeepsEdits
<1>1. ASSUME NEW w \in Writers, Replace(w) PROVE KeepsEdits
  <2> SUFFICES ASSUME ~blind' PROVE disk[at[w]] \subseteq buf[w]
    BY <1>1 DEF Replace, KeepsEdits, TypeOK
  <2>1. ~blind /\ w \notin refreshed
    BY <1>1 DEF Replace, TypeOK
  <2>2. disk[at[w]] = seen[w] /\ seen[w] \subseteq buf[w]
    BY <1>1, <2>1 DEF Replace, CopyInv, Holding
  <2>3. QED
    BY <2>2
<1>2. ASSUME NEW w \in Writers, Link(w) PROVE KeepsEdits
  BY <1>2 DEF Link, KeepsEdits, TypeOK, Exists
<1>3. CASE UNCHANGED disk
  BY <1>3 DEF KeepsEdits
<1>4. QED
  BY <1>1, <1>2, <1>3 DEF Next, Save, File, Stat, ReadBody, Enter, LockTimeout, Check,
     Refuse, Finish, Number, Renumber, RefuseTaken, Rescan, Crash, vars

LEMMA StepKeepsCopies ==
  ASSUME TypeOK, TargetExists, CopyInv, [Next]_vars
  PROVE  CopyInv'
<1> USE EntryStoreAssumption DEF TypeOK, TargetExists, CopyInv, Holding, Goto, Phase, MyEdit
<1>1. ASSUME NEW w \in Writers, NEW i \in Ids, Stat(w, i) PROVE CopyInv'
  BY <1>1 DEF Stat
<1>2. ASSUME NEW w \in Writers, ReadBody(w) PROVE CopyInv'
  BY <1>2 DEF ReadBody, Restamped
<1>3. ASSUME NEW w \in Writers, Enter(w) PROVE CopyInv'
  BY <1>3 DEF Enter
<1>4. ASSUME NEW w \in Writers, LockTimeout(w) PROVE CopyInv'
  BY <1>4 DEF LockTimeout
<1>5. ASSUME NEW w \in Writers, Check(w) PROVE CopyInv'
  BY <1>5 DEF Check, GuardPasses
<1>6. ASSUME NEW w \in Writers, Refuse(w) PROVE CopyInv'
  <2>1. /\ pc[w] = "locked" /\ lock[at[w]] = w
        /\ pc' = [pc EXCEPT ![w] = "idle"]
        /\ lock' = [lock EXCEPT ![at[w]] = Free]
        /\ UNCHANGED <<disk, cache, at, seen, buf, ops, refreshed, blind>>
    BY <1>6 DEF Refuse
  <2>2. pc'[w] = "idle"
    BY <2>1
  <2>3. ASSUME NEW v \in Writers, v # w
        PROVE  /\ pc'[v] = pc[v]
               /\ lock[at[v]] = v => lock'[at[v]] = v
    BY <2>1, <2>3
  <2>4. QED
    BY <2>1, <2>2, <2>3
<1>7. ASSUME NEW w \in Writers, Replace(w) PROVE CopyInv'
  <2> SUFFICES ASSUME NEW v \in Writers
               PROVE  /\ pc'[v] \in {"locked", "checked", "written"} => lock'[at'[v]] = v
                      /\ Holding(v)' /\ v \notin refreshed'
                            => cache'[ProcOf[v]][at'[v]] = seen'[v]
                      /\ Holding(v)' => MyEdit(v)' \in buf'[v]
                      /\ ~blind'
                            => /\ pc'[v] = "stat" => seen'[v] \subseteq disk'[at'[v]]
                               /\ Holding(v)' => seen'[v] \subseteq buf'[v]
                               /\ pc'[v] = "checked" /\ v \notin refreshed'
                                     => disk'[at'[v]] = seen'[v]
                               /\ pc'[v] = "written" => disk'[at'[v]] = buf'[v]
    OBVIOUS
  <2>1. /\ pc[w] = "checked" /\ lock[at[w]] = w
        /\ pc' = [pc EXCEPT ![w] = "written"]
        /\ disk' = [disk EXCEPT ![at[w]] = buf[w]]
        /\ UNCHANGED <<cache, lock, at, seen, buf, ops, refreshed>>
    BY <1>7 DEF Replace
  <2>2. CASE v = w
    BY <2>1, <2>2, <1>7 DEF Replace
  <2>3. CASE v # w /\ at[v] = at[w]
    <3>1. pc[v] \notin {"locked", "checked", "written"} /\ pc'[v] = pc[v]
      BY <2>1, <2>3
    <3>2. ~blind' => seen[w] = disk[at[w]] /\ disk[at[w]] \subseteq disk'[at[w]]
      BY <2>1, <1>7, ZenonT(60) DEF Replace
    <3>3. ~blind' /\ pc[v] = "stat" => seen[v] \subseteq disk[at[v]]
      BY <1>7 DEF Replace
    <3>4. QED
      BY <2>1, <2>3, <3>1, <3>2, <3>3, <1>7 DEF Replace
  <2>4. CASE v # w /\ at[v] # at[w]
    <3>1. disk'[at[v]] = disk[at[v]] /\ pc'[v] = pc[v]
      BY <2>1, <2>4
    <3>2. QED
      BY <2>1, <2>4, <3>1, <1>7 DEF Replace
  <2>5. QED
    BY <2>2, <2>3, <2>4
<1>8. ASSUME NEW w \in Writers, Finish(w) PROVE CopyInv'
  BY <1>8, ZenonT(60) DEF Finish, Restamped
<1>9. ASSUME NEW w \in Writers, Number(w) PROVE CopyInv'
  BY <1>9 DEF Number, Scan, Restamped
<1>10. ASSUME NEW w \in Writers, Link(w) PROVE CopyInv'
  BY <1>10 DEF Link, Exists
<1>11. ASSUME NEW w \in Writers, Renumber(w) PROVE CopyInv'
  BY <1>11 DEF Renumber, Scan, Restamped
<1>12. ASSUME NEW w \in Writers, Rescan(w) PROVE CopyInv'
  BY <1>12 DEF Rescan, Scan, Restamped
<1>13. ASSUME NEW p \in Procs, Crash(p) PROVE CopyInv'
  BY <1>13 DEF Crash
<1>14. CASE UNCHANGED vars
  BY <1>14 DEF vars
<1>15. ASSUME NEW w \in Writers, RefuseTaken(w) PROVE CopyInv'
  BY <1>15 DEF RefuseTaken
<1>16. QED
  BY <1>1, <1>2, <1>3, <1>4, <1>5, <1>6, <1>7, <1>8, <1>9, <1>10, <1>11, <1>12,
     <1>13, <1>14, <1>15 DEF Next, Save, File

LEMMA StepKeepsAcks ==
  ASSUME TypeOK, TargetExists, CopyInv, AckedEditsPersist, [Next]_vars
  PROVE  AckedEditsPersist'
<1>1. KeepsEdits
  BY StepKeepsEdits
<1>2. blind => blind'
  BY DEF Next, Save, File, Stat, ReadBody, Enter, LockTimeout, Check,
     Refuse, Replace, Finish, Number, Link, Renumber, RefuseTaken, Rescan, Crash, vars
<1> SUFFICES ASSUME ~blind', NEW i \in Ids, acked'[i] # {}
             PROVE  Exists(i)' /\ acked'[i] \subseteq disk'[i]
  BY DEF AckedEditsPersist
<1>3. ASSUME NEW w \in Writers, Finish(w) PROVE Exists(i)' /\ acked'[i] \subseteq disk'[i]
  BY <1>2, <1>3 DEF Finish, TypeOK, TargetExists, CopyInv, AckedEditsPersist, Holding, Exists
<1>4. ASSUME NEW w \in Writers, Link(w) PROVE Exists(i)' /\ acked'[i] \subseteq disk'[i]
  <2>1. /\ at[w] \in Ids /\ ~Exists(at[w])
        /\ disk' = [disk EXCEPT ![at[w]] = {MyEdit(w)}]
        /\ acked' = [acked EXCEPT ![at[w]] = @ \union {MyEdit(w)}]
    BY <1>4 DEF Link, TypeOK
  <2>2. disk'[at[w]] = {MyEdit(w)}
    BY <2>1 DEF TypeOK
  <2>3. {MyEdit(w)} # NoRecord
    BY EntryStoreAssumption, MyEditIsEdit DEF Records
  <2>4. acked[at[w]] = {}
    BY <1>2, <2>1 DEF AckedEditsPersist
  <2>5. acked'[at[w]] = {MyEdit(w)}
    BY <2>1, <2>4 DEF TypeOK
  <2>6. i # at[w] => disk'[i] = disk[i] /\ acked'[i] = acked[i]
    BY <2>1 DEF TypeOK
  <2>7. CASE i = at[w]
    BY <2>2, <2>3, <2>5, <2>7 DEF Exists
  <2>8. CASE i # at[w]
    BY <1>2, <2>6, <2>8 DEF AckedEditsPersist, Exists
  <2>9. QED
    BY <2>7, <2>8
<1>5. CASE UNCHANGED acked
  <2>1. Exists(i) /\ acked[i] \subseteq disk[i]
    BY <1>2, <1>5 DEF AckedEditsPersist
  <2>2. disk[i] \subseteq disk'[i]
    BY <1>1, <2>1 DEF KeepsEdits
  <2>3. Exists(i)'
    BY <2>1, NextTypes, EntryStoreAssumption, ZenonT(60)
       DEF Exists, TypeOK, TargetExists, Next, Save, File, Stat, ReadBody, Enter, LockTimeout,
           Check, Refuse, Replace, Finish, Number, Link, Renumber, RefuseTaken, Rescan, Crash, vars
  <2>4. QED
    BY <1>5, <2>1, <2>2, <2>3
<1>6. QED
  BY <1>3, <1>4, <1>5 DEF Next, Save, File, Stat, ReadBody, Enter, LockTimeout, Check,
     Refuse, Replace, Number, Renumber, RefuseTaken, Rescan, Crash, vars

LEMMA InvHolds == Spec => []IInv
<1>1. Init => IInv
  BY InitTypes DEF Init, IInv, CopyInv, Holding, AckedEditsPersist
<1>2. IInv /\ [Next]_vars => IInv'
  BY NextTypes, StepKeepsCopies, StepKeepsAcks DEF IInv
<1>3. QED
  BY <1>1, <1>2, PTL DEF Spec

(* No interleaving of saves, renumberings and crashes leaves a copy, a name*)
(* or the disk outside its type: a writer that saves holds a copy of a     *)
(* record, under an id (entries.py Store.save).                            *)
THEOREM TypeCorrect == Spec => []TypeOK
BY InitTypes, NextTypes, PTL DEF Spec

(* A save by a writer whose process has not re-read the entry since it was *)
(* loaded removes no edit, whatever else happens and whoever crashes.      *)
THEOREM NoLostUpdateHolds == Spec => NoLostUpdateUnrefreshed
<1>1. IInv /\ [Next]_vars
      => [~blind' => \A i \in Ids : Exists(i) => disk[i] \subseteq disk'[i]]_vars
  BY StepKeepsEdits DEF IInv, KeepsEdits
<1>2. QED
  BY <1>1, InvHolds, PTL DEF Spec, NoLostUpdateUnrefreshed

(* Whatever a writer was told is saved is in the record from then on.      *)
THEOREM AckedEditsPersistHolds == Spec => []AckedEditsPersist
BY InvHolds, PTL DEF IInv

(* A refused copy was read before the file was what it is now: what its    *)
(* process has registered for the file is the signature it was read under. *)
THEOREM RefusalIsRealHolds == Spec => RefusalIsReal
<1>1. ASSUME IInv, NEW w \in Writers, Refuse(w), w \notin refreshed
      PROVE  disk[at[w]] # seen[w]
  <2>1. pc[w] = "locked" /\ ~GuardPasses(w)
    BY <1>1 DEF Refuse
  <2>2. cache[ProcOf[w]][at[w]] = seen[w]
    BY <1>1, <2>1 DEF IInv, CopyInv, Holding
  <2>3. seen[w] # Unread
    BY <1>1, EntryStoreAssumption DEF IInv, TypeOK
  <2>4. QED
    BY <2>1, <2>2, <2>3 DEF GuardPasses
<1>2. IInv => \A w \in Writers : Refuse(w) /\ w \notin refreshed => disk[at[w]] # seen[w]
  BY <1>1
<1>3. QED
  BY <1>2, InvHolds, PTL DEF RefusalIsReal
=============================================================================
