----------------------------- MODULE Workspaces -----------------------------
(***************************************************************************)
(* The pool of workspaces (workspaces.py): a directory per worker, a marker*)
(* beside it that says who holds it and why it must be kept, and recovery, *)
(* which archives what a dead holder left.                                 *)
(*                                                                         *)
(* Every operation runs under a kernel lock that death releases, so two of *)
(* them never interleave; but each one touches the disk several times, and *)
(* a process may die between any two.  A pool's memory of its slots dies   *)
(* with it; the name it holds them under does not, because the coordinator *)
(* that is started again runs the same iteration under the same name.      *)
(***************************************************************************)
EXTENDS Naturals

CONSTANTS
    Names,      \* of slots
    Pools,      \* processes
    Holder,     \* the name each process holds its slots under
    MaxWork,    \* bound: workers started
    None, Idle

VARIABLES
    tree,       \* the evidence in each directory, or None where there is none
    marker,     \* beside it: [holder, kept], or None
    pending,    \* names whose recovery was announced
    archive,    \* the evidence that was moved away
    slots,      \* what each process remembers: name -> kept?
    seen,       \* the marker a recovering person inspected
    job,        \* the operation that holds the kernel lock
    worked,     \* how many workers were started
    harvested   \* evidence that is safe in the ledger

workspaceVars == <<tree, marker, pending, archive, slots, seen, job, worked, harvested>>

(* Evidence is numbered by the worker that made it; 0 is an empty slot.    *)
Evidence == 0..MaxWork

Mark == [holder : {Holder[p] : p \in Pools}, kept : BOOLEAN]

WorkspacesTypeOK ==
    /\ tree \in [Names -> {None} \union Evidence]
    /\ marker \in [Names -> {None} \union Mark]
    /\ pending \subseteq Names /\ archive \subseteq Evidence /\ harvested \subseteq Evidence
    /\ \A p \in Pools : DOMAIN slots[p] \subseteq Names
    /\ job = Idle \/ job.name \in Names
    /\ worked \in Evidence

WorkspacesInit ==
    /\ tree = [n \in Names |-> None] /\ marker = [n \in Names |-> None]
    /\ pending = {} /\ archive = {} /\ harvested = {}
    /\ slots = [p \in Pools |-> [n \in {} |-> TRUE]]
    /\ seen = [n \in Names |-> None]
    /\ job = Idle /\ worked = 0

Forget(f, n) == [m \in DOMAIN f \ {n} |-> f[m]]

Remember(f, n, kept) == [m \in DOMAIN f \union {n} |-> IF m = n THEN kept ELSE f[m]]

Lock(p, op, n) == job = Idle /\ job' = [by |-> p, op |-> op, name |-> n]

Step(p, op) == job # Idle /\ job.by = p /\ job.op = op

Then(op) == job' = [job EXCEPT !.op = op]

-----------------------------------------------------------------------------
(* _acquire(): never a name that has a directory, a marker or an announced *)
(* recovery.  The directory is made ...                                    *)
Acquire(p, n) ==
    /\ Lock(p, "mark", n)
    /\ n \notin pending /\ tree[n] = None /\ marker[n] = None
    /\ tree' = [tree EXCEPT ![n] = 0]
    /\ UNCHANGED <<marker, pending, archive, slots, seen, worked, harvested>>

(* ... and then its marker.                                                *)
MarkSlot(p) ==
    /\ Step(p, "mark")
    /\ marker' = [marker EXCEPT ![job.name] = [holder |-> Holder[p], kept |-> FALSE]]
    /\ slots' = [slots EXCEPT ![p] = Remember(@, job.name, FALSE)]
    /\ job' = Idle
    /\ UNCHANGED <<tree, pending, archive, seen, worked, harvested>>

(* retain(): before a worker starts, and again with the harvest's problems.*)
Retain(p, n, kept) ==
    /\ job = Idle /\ n \in DOMAIN slots[p]
    /\ slots' = [slots EXCEPT ![p] = Remember(@, n, kept)]
    /\ marker' = [marker EXCEPT ![n] = [holder |-> Holder[p], kept |-> kept]]
    /\ UNCHANGED <<tree, pending, archive, seen, job, worked, harvested>>

(* Fault: the slot is handed to the worker before it is kept.              *)
StartWorkerUnkept(p, n) ==
    /\ n \in DOMAIN slots[p] /\ tree[n] = 0 /\ worked < MaxWork
    /\ worked' = worked + 1 /\ tree' = [tree EXCEPT ![n] = worked']
    /\ UNCHANGED <<marker, pending, archive, slots, seen, job, harvested>>

(* A worker runs in a slot that is kept until it is harvested.             *)
StartWorker(p, n) ==
    /\ n \in DOMAIN slots[p] /\ slots[p][n] /\ tree[n] = 0 /\ worked < MaxWork
    /\ worked' = worked + 1 /\ tree' = [tree EXCEPT ![n] = worked']
    /\ UNCHANGED <<marker, pending, archive, slots, seen, job, harvested>>

Harvest(p, n) ==
    /\ n \in DOMAIN slots[p] /\ tree[n] \in 1..MaxWork
    /\ harvested' = harvested \union {tree[n]}
    /\ UNCHANGED <<tree, marker, pending, archive, slots, seen, job, worked>>

(* The coordinator un-keeps a slot only after a harvest without problems.  *)
Unkeep(p, n) ==
    /\ tree[n] = 0 \/ tree[n] \in harvested
    /\ Retain(p, n, FALSE)

(* _release(): not another holder's, not one that is kept.  The directory  *)
(* goes ...                                                                *)
Release(p, n) ==
    /\ Lock(p, "unmark", n) /\ n \in DOMAIN slots[p] /\ ~slots[p][n]
    /\ marker[n] # None => marker[n].holder = Holder[p]
    /\ tree' = [tree EXCEPT ![n] = None]
    /\ UNCHANGED <<marker, pending, archive, slots, seen, worked, harvested>>

(* ... and then its marker.                                                *)
Unmark(p) ==
    /\ Step(p, "unmark")
    /\ marker' = [marker EXCEPT ![job.name] = None]
    /\ slots' = [slots EXCEPT ![p] = Forget(@, job.name)]
    /\ job' = Idle
    /\ UNCHANGED <<tree, pending, archive, seen, worked, harvested>>

-----------------------------------------------------------------------------
(* inspect(): the marker as it is now; its hash is the token.              *)
Inspect(n) ==
    /\ marker[n] # None /\ seen' = [seen EXCEPT ![n] = marker[n]]
    /\ UNCHANGED <<tree, marker, pending, archive, slots, job, worked, harvested>>

(* A person attests that every process of that name is gone.               *)
Inactive(n) == \A p \in Pools : n \notin DOMAIN slots[p]

(* recover(): the token must still be the marker's.  The archive is        *)
(* announced before anything moves ...                                     *)
Recover(p, n) ==
    /\ Lock(p, "move", n) /\ Inactive(n)
    /\ n \notin pending /\ marker[n] # None /\ seen[n] = marker[n]
    /\ pending' = pending \union {n}
    /\ UNCHANGED <<tree, marker, archive, slots, seen, worked, harvested>>

(* ... the evidence moves, if a release had not removed it ...             *)
MoveEvidence(p) ==
    /\ Step(p, "move")
    /\ archive' = IF tree[job.name] = None THEN archive
                  ELSE archive \union {tree[job.name]}
    /\ tree' = [tree EXCEPT ![job.name] = None]
    /\ Then("unlink")
    /\ UNCHANGED <<marker, pending, slots, seen, worked, harvested>>

(* ... the marker goes, and the announcement last.                         *)
UnlinkMarker(p) ==
    /\ Step(p, "unlink")
    /\ marker' = [marker EXCEPT ![job.name] = None]
    /\ Then("finish")
    /\ UNCHANGED <<tree, pending, archive, slots, seen, worked, harvested>>

FinishRecovery(p) ==
    /\ Step(p, "finish")
    /\ pending' = pending \ {job.name} /\ job' = Idle
    /\ UNCHANGED <<tree, marker, archive, slots, seen, worked, harvested>>

(* Death: the memory of the slots goes, and the kernel frees the lock.     *)
PoolDies(p) ==
    /\ slots' = [slots EXCEPT ![p] = [n \in {} |-> TRUE]]
    /\ job' = IF job # Idle /\ job.by = p THEN Idle ELSE job
    /\ UNCHANGED <<tree, marker, pending, archive, seen, worked, harvested>>

WorkspacesNext ==
    \E p \in Pools :
        \/ MarkSlot(p) \/ Unmark(p) \/ MoveEvidence(p) \/ UnlinkMarker(p)
        \/ FinishRecovery(p) \/ PoolDies(p)
        \/ \E n \in Names : \/ Acquire(p, n) \/ Retain(p, n, TRUE) \/ StartWorker(p, n)
                            \/ Harvest(p, n) \/ Unkeep(p, n) \/ Release(p, n)
                            \/ Inspect(n) \/ Recover(p, n)

WorkspacesSpec == WorkspacesInit /\ [][WorkspacesNext]_workspaceVars

-----------------------------------------------------------------------------
(* What a worker made is never destroyed before it is in the ledger: it is *)
(* in its slot or in an archive, whoever died and whoever released or      *)
(* recovered under the same name since (workspaces.py retain, _release,    *)
(* recover).                                                               *)
EvidenceKept ==
    \A w \in 1..worked : \/ w \in harvested \/ w \in archive
                         \/ \E n \in Names : tree[n] = w
=============================================================================
