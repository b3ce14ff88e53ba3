----------------------------- MODULE EntryStore -----------------------------
(***************************************************************************)
(* The entry store of entries.py (class Store): one file per entry, read   *)
(* with its signature, written back under a per-entry lock only while the  *)
(* signature the process last registered still matches the file, and filed *)
(* new by hard-linking a complete record onto a free name.                 *)
(*                                                                         *)
(* A record is the set of edits it carries: every writer of the store      *)
(* appends an event to the history, so two different writes never leave the*)
(* same bytes, and the signature (size, mtime and digest) is modelled by   *)
(* the record itself.  _ENTRY_CACHE is shared by the threads of a process, *)
(* and what it holds for a file is replaced by any later read of that file *)
(* in the process, load() and all() alike.                                 *)
(*                                                                         *)
(* The per-entry lock is exclusive here: what that takes is the subject of *)
(* FileLock.                                                               *)
(***************************************************************************)
EXTENDS Naturals, FiniteSets

CONSTANTS
    Writers,    \* calls that load and save an entry, or file a new one
    Procs,      \* operating-system processes
    ProcOf,     \* the process each call runs in
    MaxId,      \* bound: entry numbers 1..MaxId
    MaxOps,     \* bound: operations per writer
    Filed,      \* the entry numbers that exist at the start
    NoRecord,   \* no file under that name
    Unread,     \* the process has nothing cached for the file
    Free        \* nobody holds the entry's lock

Ids == 1..MaxId

Edits == Writers \X (0..MaxOps)

Records == SUBSET Edits

ASSUME EntryStoreAssumption ==
    /\ ProcOf \in [Writers -> Procs]
    /\ MaxId \in Nat \ {0} /\ MaxOps \in Nat
    /\ Filed \subseteq Ids
    /\ \A r \in Records : r # NoRecord /\ r # Unread
    /\ NoRecord # Unread
    /\ Free \notin Writers

VARIABLES
    disk,       \* the record under each name
    cache,      \* per process: the signature registered for each file
    lock,       \* per entry: who is inside save()
    pc,         \* where each writer is
    at,         \* the entry each writer is working on
    seen,       \* the signature a load took before it read the body
    buf,        \* the changed record the writer holds
    ops,        \* how many operations each writer has started
    refreshed,  \* ghost: writers whose process re-read their entry since they loaded it
    acked,      \* ghost: per entry, the edits whose writer was told they are saved
    blind       \* ghost: a refreshed writer has replaced a file

vars == <<disk, cache, lock, pc, at, seen, buf, ops, refreshed, acked, blind>>

Phase == {"idle", "stat", "loaded", "locked", "checked", "written", "filing"}

TypeOK ==
    /\ disk \in [Ids -> {NoRecord} \union Records]
    /\ cache \in [Procs -> [Ids -> {Unread} \union Records]]
    /\ lock \in [Ids -> Writers \union {Free}]
    /\ pc \in [Writers -> Phase]
    /\ at \in [Writers -> Ids]
    /\ seen \in [Writers -> Records]
    /\ buf \in [Writers -> Records]
    /\ ops \in [Writers -> 0..MaxOps]
    /\ refreshed \subseteq Writers
    /\ acked \in [Ids -> Records]
    /\ blind \in BOOLEAN

Init ==
    /\ disk = [i \in Ids |-> IF i \in Filed THEN {} ELSE NoRecord]
    /\ cache = [p \in Procs |-> [i \in Ids |-> Unread]]
    /\ lock = [i \in Ids |-> Free]
    /\ pc = [w \in Writers |-> "idle"]
    /\ at = [w \in Writers |-> 1]
    /\ seen = [w \in Writers |-> {}]
    /\ buf = [w \in Writers |-> {}]
    /\ ops = [w \in Writers |-> 0]
    /\ refreshed = {}
    /\ acked = [i \in Ids |-> {}]
    /\ blind = FALSE

Exists(i) == disk[i] # NoRecord

Goto(w, phase) == pc' = [pc EXCEPT ![w] = phase]

MyEdit(w) == <<w, ops[w]>>

Holding(w) == pc[w] \in {"loaded", "locked", "checked", "written"}

(* Writers whose copy of an entry this step separates from the signature   *)
(* their process has registered for it.                                    *)
Restamped ==
    {w \in Writers : Holding(w) /\ cache'[ProcOf[w]][at[w]] # cache[ProcOf[w]][at[w]]}

-----------------------------------------------------------------------------
(* load(): the signature is taken before the body is read ...              *)
Stat(w, i) ==
    /\ pc[w] = "idle"
    /\ ops[w] < MaxOps
    /\ Exists(i)
    /\ at' = [at EXCEPT ![w] = i]
    /\ seen' = [seen EXCEPT ![w] = disk[i]]
    /\ ops' = [ops EXCEPT ![w] = @ + 1]
    /\ Goto(w, "stat")
    /\ UNCHANGED <<disk, cache, lock, buf, refreshed, acked, blind>>

(* Fault: load() parses the body and registers nothing for it.             *)
ReadBodyUnregistered(w) ==
    /\ pc[w] = "stat"
    /\ buf' = [buf EXCEPT ![w] = disk[at[w]] \union {MyEdit(w)}]
    /\ refreshed' = refreshed \ {w}
    /\ Goto(w, "loaded")
    /\ UNCHANGED <<disk, cache, lock, at, seen, ops, acked, blind>>

(* Fault: the signature registered is the file's at some later moment.     *)
ReadBodyUnstamped(w) ==
    /\ pc[w] = "stat"
    /\ buf' = [buf EXCEPT ![w] = seen[w] \union {MyEdit(w)}]
    /\ cache' = [cache EXCEPT ![ProcOf[w]][at[w]] = disk[at[w]]]
    /\ refreshed' = (refreshed \ {w}) \union Restamped
    /\ Goto(w, "loaded")
    /\ UNCHANGED <<disk, lock, at, seen, ops, acked, blind>>

(* ... and registered once the body is parsed; the caller then changes its *)
(* copy.  The registration is news to every other copy in the process.     *)
ReadBody(w) ==
    /\ pc[w] = "stat"
    /\ buf' = [buf EXCEPT ![w] = disk[at[w]] \union {MyEdit(w)}]
    /\ cache' = [cache EXCEPT ![ProcOf[w]][at[w]] = seen[w]]
    /\ refreshed' = (refreshed \ {w}) \union Restamped
    /\ Goto(w, "loaded")
    /\ UNCHANGED <<disk, lock, at, seen, ops, acked, blind>>

(* _scan(): every file is read again unless the cache still matches it, and*)
(* the names that are gone are dropped.                                    *)
Scan(w) ==
    /\ cache' = [cache EXCEPT ![ProcOf[w]] =
                    [i \in Ids |-> IF Exists(i) THEN disk[i] ELSE Unread]]
    /\ refreshed' = refreshed \union Restamped

(* all(), which a verb may call between its load and its save, as          *)
(* noise_problems and check_branch do, or another thread at any time.      *)
Rescan(w) ==
    /\ pc[w] \in {"idle", "loaded"}
    /\ Scan(w)
    /\ cache' # cache
    /\ UNCHANGED <<disk, lock, pc, at, seen, buf, ops, acked, blind>>

(* save() enters the per-entry lock, or its ten seconds run out.           *)
Enter(w) ==
    /\ pc[w] = "loaded"
    /\ lock[at[w]] = Free
    /\ lock' = [lock EXCEPT ![at[w]] = w]
    /\ Goto(w, "locked")
    /\ UNCHANGED <<disk, cache, at, seen, buf, ops, refreshed, acked, blind>>

LockTimeout(w) ==
    /\ pc[w] = "loaded"
    /\ lock[at[w]] # Free
    /\ Goto(w, "idle")
    /\ UNCHANGED <<disk, cache, lock, at, seen, buf, ops, refreshed, acked, blind>>

(* Fault: any file the process has read at all may be replaced.            *)
GuardPassesIfRead(w) == cache[ProcOf[w]][at[w]] # Unread

GuardPasses(w) ==
    /\ Exists(at[w]) => cache[ProcOf[w]][at[w]] # Unread
    /\ Exists(at[w]) => cache[ProcOf[w]][at[w]] = disk[at[w]]

Check(w) ==
    /\ pc[w] = "locked"
    /\ GuardPasses(w)
    /\ Goto(w, "checked")
    /\ UNCHANGED <<disk, cache, lock, at, seen, buf, ops, refreshed, acked, blind>>

(* The guard refuses: the lock is released and the caller gets an error.   *)
Refuse(w) ==
    /\ pc[w] = "locked"
    /\ ~GuardPasses(w)
    /\ lock' = [lock EXCEPT ![at[w]] = Free]
    /\ Goto(w, "idle")
    /\ UNCHANGED <<disk, cache, at, seen, buf, ops, refreshed, acked, blind>>

(* os.replace: the whole record lands in one step.                         *)
Replace(w) ==
    /\ pc[w] = "checked"
    /\ disk' = [disk EXCEPT ![at[w]] = buf[w]]
    /\ blind' = (blind \/ w \in refreshed)
    /\ Goto(w, "written")
    /\ UNCHANGED <<cache, lock, at, seen, buf, ops, refreshed, acked>>

(* The bytes now on disk are registered, the lock released, and success is *)
(* reported.                                                               *)
Finish(w) ==
    /\ pc[w] = "written"
    /\ cache' = [cache EXCEPT ![ProcOf[w]][at[w]] = disk[at[w]]]
    /\ refreshed' = refreshed \union Restamped
    /\ lock' = [lock EXCEPT ![at[w]] = Free]
    /\ acked' = [acked EXCEPT ![at[w]] = @ \union {MyEdit(w)}]
    /\ Goto(w, "idle")
    /\ UNCHANGED <<disk, at, seen, buf, ops, blind>>

-----------------------------------------------------------------------------
(* next_id(): one past the highest number on file.                         *)
IsNextId(n) ==
    /\ \A i \in Ids : Exists(i) => i < n
    /\ n = 1 \/ Exists(n - 1)

(* Filing reads the store and computes a number ...                        *)
Number(w) ==
    /\ pc[w] = "idle"
    /\ ops[w] < MaxOps
    /\ \E n \in Ids : IsNextId(n) /\ at' = [at EXCEPT ![w] = n]
    /\ Scan(w)
    /\ ops' = [ops EXCEPT ![w] = @ + 1]
    /\ Goto(w, "filing")
    /\ UNCHANGED <<disk, lock, seen, buf, acked, blind>>

(* Fault: the record is renamed into place, over a name taken meanwhile.   *)
LinkOver(w) ==
    /\ pc[w] = "filing"
    /\ disk' = [disk EXCEPT ![at[w]] = {MyEdit(w)}]
    /\ cache' = [cache EXCEPT ![ProcOf[w]][at[w]] = {MyEdit(w)}]
    /\ acked' = [acked EXCEPT ![at[w]] = @ \union {MyEdit(w)}]
    /\ Goto(w, "idle")
    /\ UNCHANGED <<lock, at, seen, buf, ops, refreshed, blind>>

(* ... and create() links the record under it: a link never replaces.      *)
Link(w) ==
    /\ pc[w] = "filing"
    /\ ~Exists(at[w])
    /\ disk' = [disk EXCEPT ![at[w]] = {MyEdit(w)}]
    /\ cache' = [cache EXCEPT ![ProcOf[w]][at[w]] = {MyEdit(w)}]
    /\ acked' = [acked EXCEPT ![at[w]] = @ \union {MyEdit(w)}]
    /\ Goto(w, "idle")
    /\ UNCHANGED <<lock, at, seen, buf, ops, refreshed, blind>>

(* Fault: the next number is tried without asking whether it can be one.   *)
RenumberPastTheEnd(w) ==
    /\ pc[w] = "filing"
    /\ Exists(at[w])
    /\ at' = [at EXCEPT ![w] = @ + 1]
    /\ Scan(w)
    /\ UNCHANGED <<disk, lock, pc, seen, buf, ops, acked, blind>>

(* The name is taken: an id the store allocated moves to the next free     *)
(* number, past the one just tried.                                        *)
Renumber(w) ==
    /\ pc[w] = "filing"
    /\ Exists(at[w])
    /\ \E n \in 1..(MaxId + 1) :
          /\ IsNextId(n)
          /\ LET next == IF n > at[w] + 1 THEN n ELSE at[w] + 1
             IN  next <= MaxId /\ at' = [at EXCEPT ![w] = next]
    /\ Scan(w)
    /\ UNCHANGED <<disk, lock, pc, seen, buf, ops, acked, blind>>

(* The name is taken, and was the caller's own choice: refused.            *)
RefuseTaken(w) ==
    /\ pc[w] = "filing"
    /\ Exists(at[w])
    /\ Goto(w, "idle")
    /\ UNCHANGED <<disk, cache, lock, at, seen, buf, ops, refreshed, acked, blind>>

(* The process dies: its copies and its cache are gone, and its locks are  *)
(* taken over once stale.                                                  *)
Crash(p) ==
    LET dead == {w \in Writers : ProcOf[w] = p}
    IN  /\ \E w \in dead : pc[w] # "idle"
        /\ pc' = [w \in Writers |-> IF w \in dead THEN "idle" ELSE pc[w]]
        /\ cache' = [cache EXCEPT ![p] = [i \in Ids |-> Unread]]
        /\ lock' = [i \in Ids |-> IF lock[i] \in dead THEN Free ELSE lock[i]]
        /\ UNCHANGED <<disk, at, seen, buf, ops, refreshed, acked, blind>>

-----------------------------------------------------------------------------
Save(w) ==
    \/ \E i \in Ids : Stat(w, i)
    \/ ReadBody(w)
    \/ Enter(w)
    \/ LockTimeout(w)
    \/ Check(w)
    \/ Refuse(w)
    \/ Replace(w)
    \/ Finish(w)

File(w) == Number(w) \/ Link(w) \/ Renumber(w) \/ RefuseTaken(w)

Next ==
    \/ \E w \in Writers : Save(w) \/ File(w) \/ Rescan(w)
    \/ \E p \in Procs : Crash(p)

Spec == Init /\ [][Next]_vars

-----------------------------------------------------------------------------
(* The guard's promise: a file another session wrote in between is refused,*)
(* never merged away.  An edit on disk is never removed.                   *)
NoLostUpdate == [][\A i \in Ids : Exists(i) => disk[i] \subseteq disk'[i]]_vars

(* The part of it the code keeps: no edit is removed by a writer whose copy*)
(* is as old as the signature the guard compares, crashes included.        *)
NoLostUpdateUnrefreshed ==
    [][~blind' => \A i \in Ids : Exists(i) => disk[i] \subseteq disk'[i]]_vars

(* An edit, or a filing, its writer was told is saved stays in the record. *)
AckedEditsPersist ==
    blind \/ \A i \in Ids : acked[i] # {} => Exists(i) /\ acked[i] \subseteq disk[i]

(* A save is refused only when somebody else's edit has landed since the   *)
(* writer began its load: the guard never turns away a lone writer.        *)
RefusalIsReal ==
    [][\A w \in Writers : Refuse(w) /\ w \notin refreshed => disk[at[w]] # seen[w]]_vars
=============================================================================
