----------------------------- MODULE Relocation -----------------------------
(***************************************************************************)
(* `ar relocate`: a file leaves the inbox and every pointer to it follows  *)
(* (relocate.py).                                                          *)
(*                                                                         *)
(* It looks whether the destination is free, reads the entries, moves the  *)
(* file and rewrites entry by entry, with no lock.  A save is refused when *)
(* its entry has changed since it was read, which ends the command there,  *)
(* as a death does.  Meanwhile entries are closed, reopened and amended,   *)
(* and new memos put into the inbox.  A path of the inbox is a pair of a   *)
(* directory and a name; its default destination has the name alone.       *)
(***************************************************************************)
EXTENDS Naturals, FiniteSets

CONSTANTS
    Dirs, Files,    \* of the inbox: directories, and names of files in them
    Entries,
    Movers,         \* processes that relocate
    Overlap,        \* whether two of them may run at once
    MaxMemos,       \* bound: memos ever written
    MaxRev,         \* bound: changes of one entry
    None, Idle

VARIABLES
    disk,       \* by path: the memo whose bytes are there, or None
    memos,      \* memos written so far
    entry,      \* by entry: [memo, source, rev]: two pointers, and its changes
    meant,      \* ghost, by entry: the memo its verdict was closed on
    job         \* by mover: [at, src, dest, seen, todo], or Idle

relocVars == <<disk, memos, entry, meant, job>>

Inbox == Dirs \X Files
Findings == {"data"} \X Files
Paths == Inbox \union Findings
Memos == {None} \union 1..MaxMemos

Default(path) == <<"data", path[2]>>

Records == [memo : {None} \union Paths, source : {None} \union Paths, rev : 0..MaxRev]
Jobs == [at : {"free", "move", "rewrite"}, src : Inbox, dest : Findings,
         seen : [Entries -> {None} \union Records], todo : SUBSET Entries]

RelocTypeOK ==
    /\ disk \in [Paths -> Memos] /\ memos \in 0..MaxMemos
    /\ \A e \in Entries : entry[e] \in Records /\ meant[e] \in Memos
    /\ \A m \in Movers : job[m] # Idle => job[m] \in Jobs

RelocInit ==
    /\ disk = [p \in Paths |-> None] /\ memos = 0
    /\ entry = [e \in Entries |-> [memo |-> None, source |-> None, rev |-> 0]]
    /\ meant = [e \in Entries |-> None] /\ job = [m \in Movers |-> Idle]

-----------------------------------------------------------------------------
(* The others: a memo handed in, `ar close` on one that exists, `--reopen`,*)
(* `ar entry amend --source`, which does not look whether it does.         *)
HandIn(p) ==
    /\ p \in Inbox /\ disk[p] = None /\ memos < MaxMemos
    /\ memos' = memos + 1 /\ disk' = [disk EXCEPT ![p] = memos']
    /\ UNCHANGED <<entry, meant, job>>

Edit(e, memo, source) ==
    /\ entry[e].rev < MaxRev
    /\ entry' = [entry EXCEPT ![e] = [memo |-> memo, source |-> source, rev |-> @.rev + 1]]

Close(e, p) ==
    /\ entry[e].memo = None /\ disk[p] # None /\ Edit(e, p, entry[e].source)
    /\ meant' = [meant EXCEPT ![e] = disk[p]] /\ UNCHANGED <<disk, memos, job>>

Reopen(e) ==
    /\ entry[e].memo # None /\ Edit(e, None, entry[e].source)
    /\ meant' = [meant EXCEPT ![e] = None] /\ UNCHANGED <<disk, memos, job>>

Cite(e, p) ==
    /\ entry[e].source # p /\ Edit(e, entry[e].memo, p)
    /\ UNCHANGED <<disk, memos, meant, job>>

-----------------------------------------------------------------------------
Goto(m, where) == job' = [job EXCEPT ![m] = [@ EXCEPT !.at = where]]

Unread == [e \in Entries |-> None]

(* Fault: the destination is not looked at.                                *)
StartAnyway(m, p) ==
    /\ job[m] = Idle /\ disk[p] # None
    /\ Overlap \/ \A o \in Movers : job[o] = Idle
    /\ job' = [job EXCEPT ![m] = [at |-> "free", src |-> p, dest |-> Default(p),
                                  seen |-> Unread, todo |-> {}]]
    /\ UNCHANGED <<disk, memos, entry, meant>>

(* Every refusal comes first: the file is there, the destination is not.   *)
Start(m, p) ==
    /\ job[m] = Idle /\ disk[p] # None /\ disk[Default(p)] = None
    /\ Overlap \/ \A o \in Movers : job[o] = Idle
    /\ job' = [job EXCEPT ![m] = [at |-> "free", src |-> p, dest |-> Default(p),
                                  seen |-> Unread, todo |-> {}]]
    /\ UNCHANGED <<disk, memos, entry, meant>>

Touched(p) == {e \in Entries : p \in {entry[e].memo, entry[e].source}}

(* store.all(): the entries that cite the file, changed in memory.         *)
ReadEntries(m) ==
    /\ job[m] # Idle /\ job[m].at = "free"
    /\ job' = [job EXCEPT ![m] = [@ EXCEPT
           !.at = "move", !.todo = Touched(job[m].src),
           !.seen = [e \in Entries |-> IF e \in Touched(job[m].src) THEN entry[e] ELSE None]]]
    /\ UNCHANGED <<disk, memos, entry, meant>>

(* shutil.move(): it replaces what has come to the destination since, and  *)
(* fails when the source has gone.                                         *)
MoveFile(m) ==
    /\ job[m] # Idle /\ job[m].at = "move" /\ disk[job[m].src] # None
    /\ disk' = [disk EXCEPT ![job[m].src] = None, ![job[m].dest] = disk[job[m].src]]
    /\ Goto(m, "rewrite") /\ UNCHANGED <<memos, entry, meant>>

Follow(pointer, m) == IF pointer = job[m].src THEN job[m].dest ELSE pointer

(* store.save(), entry by entry in the order they were read.               *)
Rewrite(m, e) ==
    /\ job[m] # Idle /\ job[m].at = "rewrite" /\ e \in job[m].todo
    /\ \A other \in job[m].todo : e <= other
    /\ job[m].seen[e] = entry[e] /\ Edit(e, Follow(entry[e].memo, m), Follow(entry[e].source, m))
    /\ job' = [job EXCEPT ![m].todo = @ \ {e}, ![m].seen[e] = None]
    /\ UNCHANGED <<disk, memos, meant>>

(* All rewritten, a save refused, the file gone, or a death; what is left  *)
(* then cites the old path, as a memo (which validate names) or a source.  *)
Stop(m) ==
    /\ job[m] # Idle /\ job' = [job EXCEPT ![m] = Idle]
    /\ UNCHANGED <<disk, memos, entry, meant>>

RelocNext ==
    \/ \E p \in Paths : HandIn(p)
    \/ \E e \in Entries : Reopen(e) \/ \E p \in Paths : Close(e, p) \/ Cite(e, p)
    \/ \E m \in Movers : \/ \E p \in Inbox : Start(m, p)
                         \/ ReadEntries(m) \/ MoveFile(m) \/ Stop(m)
                         \/ \E e \in Entries : Rewrite(m, e)

RelocSpec == RelocInit /\ [][RelocNext]_relocVars

-----------------------------------------------------------------------------
(* No evidence is destroyed: the memo each standing verdict was closed on  *)
(* is on disk (relocate.py, 14-15: it "changes location, never content").  *)
(* It holds while relocations do not overlap.  Two that do, of files of    *)
(* one name, both find the destination free, and the second replaces what  *)
(* the first brought.                                                      *)
EvidenceMoved ==
    \A e \in Entries : meant[e] # None => \E p \in Paths : disk[p] = meant[e]
=============================================================================
