------------------------------ MODULE FileLock ------------------------------
(***************************************************************************)
(* The named lock file of claims.py (class Lock), on which the claims lock,*)
(* the per-entry write lock and the filing lock are all built.             *)
(*                                                                         *)
(* The file is created with O_CREAT|O_EXCL and its payload is written in a *)
(* second step.  A waiter that reads a payload older than stale_after      *)
(* unlinks the file and tries again: reading and unlinking are two steps,  *)
(* and so are reading and unlinking in release().                          *)
(*                                                                         *)
(* Time is counted in units of one poll.  Each timer is relative: the      *)
(* seconds a caller has waited, the seconds it has held the lock, and the  *)
(* age the payload's `at` shows.                                           *)
(***************************************************************************)
EXTENDS Naturals

CONSTANTS
    Procs,        \* calls to Lock.acquire/release, in processes or threads
    Names,        \* holder names recorded in the payload
    HolderName,   \* the name each call records: two calls may share one
    Timeout,      \* Lock.timeout
    StaleAfter,   \* Lock.stale_after
    MaxHold,      \* bound: a live caller is out of the lock this soon
    MaxCrashes,   \* bound: how many callers may die
    NoFile        \* no file at the lock's path

ASSUME FileLockAssumption ==
    /\ HolderName \in [Procs -> Names]
    /\ Timeout \in Nat
    /\ StaleAfter \in Nat
    /\ MaxHold \in Nat
    /\ MaxCrashes \in Nat
    /\ NoFile \notin [owner : Procs, written : BOOLEAN, age : Nat]

(* The shipped settings: 30 s against 900 s for the claims lock, 10 s and  *)
(* 30 s against 120 s for the others, so that 90 s of work fit in.         *)
ASSUME TimingAssumption == Timeout + MaxHold <= StaleAfter

VARIABLES
    file,     \* NoFile, or who created the file, whether the payload is in it,
              \* and the age its `at` shows
    pc,       \* where each call is
    waited,   \* how long each call has been in acquire()
    held,     \* how long each call has been between create and release
    crashes   \* how many callers have died

vars == <<file, pc, waited, held, crashes>>

Phase == {"idle", "trying", "stealing", "writing", "critical", "releasing", "dead"}

LockFile == [owner : Procs, written : BOOLEAN, age : Nat]

TypeOK ==
    /\ file \in LockFile \union {NoFile}
    /\ pc \in [Procs -> Phase]
    /\ waited \in [Procs -> Nat]
    /\ held \in [Procs -> Nat]
    /\ crashes \in Nat

Init ==
    /\ file = NoFile
    /\ pc = [p \in Procs |-> "idle"]
    /\ waited = [p \in Procs |-> 0]
    /\ held = [p \in Procs |-> 0]
    /\ crashes = 0

Goto(p, phase) == pc' = [pc EXCEPT ![p] = phase]

(* _read(): an unreadable or empty file reads as None. *)
Readable == file # NoFile /\ file.written

(* Fault: a lock at exactly stale_after already counts as abandoned.       *)
StaleAtLimit == Readable /\ file.age >= StaleAfter

Stale == Readable /\ file.age > StaleAfter

-----------------------------------------------------------------------------
(* Fault: the file says nothing of whether its payload is complete.        *)
CreateUntagged(p) ==
    /\ pc[p] = "trying"
    /\ file = NoFile
    /\ file' = [owner |-> p, age |-> waited[p]]
    /\ held' = [held EXCEPT ![p] = 0]
    /\ Goto(p, "writing")
    /\ UNCHANGED <<waited, crashes>>

(* acquire(): the deadline and the payload, with its `at`, are computed    *)
(* before the first attempt.                                               *)
Begin(p) ==
    /\ pc[p] = "idle"
    /\ Goto(p, "trying")
    /\ waited' = [waited EXCEPT ![p] = 0]
    /\ UNCHANGED <<file, held, crashes>>

(* Fault: the file is created without O_EXCL, over whatever is there.      *)
CreateNotExclusive(p) ==
    /\ pc[p] = "trying"
    /\ file' = [owner |-> p, written |-> FALSE, age |-> waited[p]]
    /\ held' = [held EXCEPT ![p] = 0]
    /\ Goto(p, "writing")
    /\ UNCHANGED <<waited, crashes>>

(* os.open(O_CREAT | O_EXCL) succeeds: the file exists and is still empty. *)
Create(p) ==
    /\ pc[p] = "trying"
    /\ file = NoFile
    /\ file' = [owner |-> p, written |-> FALSE, age |-> waited[p]]
    /\ held' = [held EXCEPT ![p] = 0]
    /\ Goto(p, "writing")
    /\ UNCHANGED <<waited, crashes>>

(* fh.write(payload): if the path was unlinked meanwhile, the bytes land in*)
(* an inode nobody can open again.                                         *)
WritePayload(p) ==
    /\ pc[p] = "writing"
    /\ file' = IF file # NoFile /\ file.owner = p
               THEN [file EXCEPT !.written = TRUE] ELSE file
    /\ Goto(p, "critical")
    /\ UNCHANGED <<waited, held, crashes>>

(* The create failed and the payload read is stale: the caller will unlink.*)
FindStale(p) ==
    /\ pc[p] = "trying"
    /\ Stale
    /\ Goto(p, "stealing")
    /\ UNCHANGED <<file, waited, held, crashes>>

(* Fault: the stale lock is noted in `stole` and never unlinked.           *)
StealWithoutUnlink(p) ==
    /\ pc[p] = "stealing"
    /\ Goto(p, "trying")
    /\ UNCHANGED <<file, waited, held, crashes>>

(* path.unlink(missing_ok=True): whatever is at the path by now.           *)
Steal(p) ==
    /\ pc[p] = "stealing"
    /\ file' = NoFile
    /\ Goto(p, "trying")
    /\ UNCHANGED <<waited, held, crashes>>

(* Fault: the deadline is never compared with the clock.                   *)
GiveUpNever(p) ==
    /\ pc[p] = "trying"
    /\ waited[p] > Timeout
    /\ Goto(p, "idle")
    /\ UNCHANGED <<file, waited, held, crashes>>

(* The deadline passes with a lock in place that cannot be stolen: acquire *)
(* raises.  (For an unreadable file the message itself fails, and what     *)
(* escapes is an AttributeError; the caller is out either way.)            *)
GiveUp(p) ==
    /\ pc[p] = "trying"
    /\ file # NoFile
    /\ ~Stale
    /\ waited[p] >= Timeout
    /\ Goto(p, "idle")
    /\ UNCHANGED <<file, waited, held, crashes>>

(* release(): refuse when the file read names another holder, else unlink. *)
Release(p) ==
    /\ pc[p] = "critical"
    /\ Goto(p, IF Readable /\ HolderName[file.owner] # HolderName[p]
               THEN "idle" ELSE "releasing")
    /\ UNCHANGED <<file, waited, held, crashes>>

Unlink(p) ==
    /\ pc[p] = "releasing"
    /\ file' = NoFile
    /\ Goto(p, "idle")
    /\ UNCHANGED <<waited, held, crashes>>

(* The process dies wherever it is; the file stays.                        *)
Crash(p) ==
    /\ crashes < MaxCrashes
    /\ pc[p] \notin {"idle", "dead"}
    /\ crashes' = crashes + 1
    /\ Goto(p, "dead")
    /\ UNCHANGED <<file, waited, held>>

-----------------------------------------------------------------------------
Acquiring(p) == pc[p] \in {"trying", "stealing"}

Holding(p) == pc[p] \in {"writing", "critical", "releasing"}

(* One unit of time.  A caller at its deadline makes its attempt, and a    *)
(* live holder leaves, before the clock moves on: the poll interval (50 ms)*)
(* is far below a unit.  Ages saturate just past the threshold.            *)
Tick ==
    /\ \A p \in Procs : Acquiring(p) => waited[p] < Timeout
    /\ \A p \in Procs : Holding(p) => held[p] < MaxHold
    /\ file' = IF file # NoFile /\ file.age <= StaleAfter
               THEN [file EXCEPT !.age = @ + 1] ELSE file
    /\ waited' = [p \in Procs |-> IF Acquiring(p) THEN waited[p] + 1 ELSE waited[p]]
    /\ held' = [p \in Procs |-> IF Holding(p) THEN held[p] + 1 ELSE held[p]]
    /\ UNCHANGED <<pc, crashes>>

Step(p) ==
    \/ Create(p)
    \/ WritePayload(p)
    \/ FindStale(p)
    \/ Steal(p)
    \/ GiveUp(p)
    \/ Release(p)
    \/ Unlink(p)

Next ==
    \/ \E p \in Procs : Begin(p) \/ Step(p) \/ Crash(p)
    \/ Tick

Spec == Init /\ [][Next]_vars

(* A live caller keeps running, callers come back for the lock, and time   *)
(* passes.                                                                 *)
Fairness ==
    /\ \A p \in Procs : WF_vars(Begin(p)) /\ WF_vars(Step(p))
    /\ WF_vars(Tick)

FairSpec == Spec /\ Fairness

-----------------------------------------------------------------------------
(* Never two callers between a successful acquire() and the end of         *)
(* release(): what `with lock:` promises the claim and save paths.         *)
MutualExclusion ==
    \A p, q \in Procs : Holding(p) /\ Holding(q) => p = q

(* While no caller has died, the lock excludes, although waiters break     *)
(* locks by their age alone: the `at` a caller records is taken before it  *)
(* waits, so stale_after has to cover the wait as well as the work.        *)
ExcludesBeforeCrash == crashes = 0 => MutualExclusion

(* While no caller has died, a holder's own file stays at the path: nobody *)
(* unlinks it early, and release() never removes a stranger's lock.        *)
HolderKeepsFile ==
    crashes = 0 => \A p \in Procs : Holding(p) => file # NoFile /\ file.owner = p

(* Every acquire() ends, with the lock or with an error, unless its process*)
(* dies: no caller waits forever behind the others.                        *)
EveryAcquireEnds ==
    \A p \in Procs : pc[p] = "trying" ~> pc[p] \in {"critical", "idle", "dead"}

LeftBehind == file # NoFile /\ pc[file.owner] = "dead"

Revived == file = NoFile \/ pc[file.owner] # "dead"

(* A lock whose holder died after writing its payload does not wedge the   *)
(* others: someone who keeps trying eventually takes it over.              *)
NamedLockRecovers == (LeftBehind /\ file.written) ~> Revived

(* The same for every lock a dead process leaves, as the class docstring   *)
(* has it: one crashed session must not wedge every other agent, and a lock*)
(* is stealable once stale.                                                *)
CrashedLockRecovers == LeftBehind ~> Revived
=============================================================================
