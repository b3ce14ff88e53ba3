------------------------------ MODULE Sessions ------------------------------
(***************************************************************************)
(* Session worktrees (session.py): `ar session create`, `destroy`, `prune` *)
(* and the work done in a worktree while it lives.                         *)
(*                                                                         *)
(* A session's evidence is in its worktree until a destroy harvests it.    *)
(* Create and destroy are several writes to several places, and either can *)
(* die between any two of them; people go on working in the worktree and in*)
(* the primary meanwhile.  A person who finds a destroy refused or dead    *)
(* runs it again.                                                          *)
(***************************************************************************)
EXTENDS Naturals, FiniteSets

CONSTANTS
    Names,      \* session names
    Rows,       \* run ids
    Files,      \* entries and memos
    Memos,      \* the files that are memos: never harvested
    MaxEdits,   \* bound: edits of files and of domain.toml, and torn lines
    Gone, Idle, Nobody

VARIABLES
    tree,       \* the worktree of each session, or Gone
    record,     \* the session's record: the domain.toml it was created under, or Gone
    config,     \* domain.toml, numbered by edit
    primary,    \* the files of the primary
    ledger,     \* how often each row stands in the primary's lanes
    receipt,    \* which session a row was measured in, or Nobody
    archive,    \* rows kept beside the archived records
    job,        \* the create or destroy under way in each session, or Idle
    proposed,   \* what the last prune found eligible
    edits,      \* what MaxEdits counts
    dropped     \* what removed worktrees held when they were scanned: [rows, files]

sessionVars == <<tree, record, config, primary, ledger, receipt, archive, job, proposed, edits,
                 dropped>>

Versions == 0..MaxEdits

Worktree == [rows : SUBSET Rows, file : [Files -> {Gone} \union Versions],
             garbled : BOOLEAN, holdout : BOOLEAN]

SessionsTypeOK ==
    /\ \A n \in Names : tree[n] = Gone \/ tree[n] \in Worktree
    /\ record \in [Names -> {Gone} \union Versions] /\ config \in Versions
    /\ primary \in [Files -> {Gone} \union Versions]
    /\ ledger \in [Rows -> 0..Cardinality(Names)] /\ receipt \in [Rows -> {Nobody} \union Names]
    /\ archive \subseteq Rows /\ proposed \subseteq Names /\ edits \in 0..MaxEdits
    /\ \A n \in Names : job[n] = Idle \/ job[n].at \in {"strip", "record", "harvest", "rows", "unlink"}
    /\ dropped \in [rows : SUBSET (Names \X Rows), files : SUBSET Files]

SessionsInit ==
    /\ tree = [n \in Names |-> Gone] /\ record = [n \in Names |-> Gone] /\ config = 0
    /\ primary = [f \in Files |-> Gone] /\ ledger = [r \in Rows |-> 0]
    /\ receipt = [r \in Rows |-> Nobody] /\ archive = {} /\ job = [n \in Names |-> Idle]
    /\ proposed = {} /\ edits = 0 /\ dropped = [rows |-> {}, files |-> {}]

Standing == {n \in Names : tree[n] # Gone}

At(n, where) == job[n] # Idle /\ job[n].at = where

Goto(n, where) == job' = [job EXCEPT ![n] = [@ EXCEPT !.at = where]]

KeepWork == UNCHANGED <<config, receipt, edits>>

KeepEvidence == UNCHANGED <<primary, ledger, archive, dropped>>

-----------------------------------------------------------------------------
(* create(): the worktree of HEAD, then the holdout stripped from it, then *)
(* the record.  A name whose worktree or record exists is refused.         *)
Create(n) ==
    /\ job[n] = Idle /\ tree[n] = Gone /\ record[n] = Gone
    /\ tree' = [tree EXCEPT ![n] =
           [rows |-> {}, file |-> primary, garbled |-> FALSE, holdout |-> TRUE]]
    /\ job' = [job EXCEPT ![n] = [at |-> "strip"]]
    /\ UNCHANGED <<record, proposed>> /\ KeepWork /\ KeepEvidence

Strip(n) ==
    /\ At(n, "strip") /\ tree' = [tree EXCEPT ![n].holdout = FALSE] /\ Goto(n, "record")
    /\ UNCHANGED <<record, proposed>> /\ KeepWork /\ KeepEvidence

WriteRecord(n) ==
    /\ At(n, "record")
    /\ record' = [record EXCEPT ![n] = config] /\ job' = [job EXCEPT ![n] = Idle]
    /\ UNCHANGED <<tree, proposed>> /\ KeepWork /\ KeepEvidence

-----------------------------------------------------------------------------
(* Work in the worktree and beside it.                                     *)
KeepSession == UNCHANGED <<record, archive, job, proposed, dropped>>

Edit == edits < MaxEdits /\ edits' = edits + 1

Fresh(r) ==
    /\ receipt[r] = Nobody /\ \A n \in Names : <<n, r>> \notin dropped.rows
    /\ \A n \in Standing : r \notin tree[n].rows

(* `ar --domain <primary> measure --candidate <worktree>`: the receipt is  *)
(* the primary's, the row the worktree's.                                  *)
MeasureIn(n, r) ==
    /\ tree[n] # Gone /\ Fresh(r)
    /\ receipt' = [receipt EXCEPT ![r] = n]
    /\ tree' = [tree EXCEPT ![n].rows = @ \union {r}]
    /\ UNCHANGED <<config, primary, ledger, edits>> /\ KeepSession

(* A row somebody wrote, or copied from another session.                   *)
WriteRow(n, r) ==
    /\ n \in Standing /\ (Fresh(r) \/ receipt[r] \notin {Nobody, n})
    /\ tree' = [tree EXCEPT ![n].rows = @ \union {r}]
    /\ UNCHANGED <<config, primary, ledger, receipt, edits>> /\ KeepSession

EditFile(n, f) ==
    /\ Edit /\ tree[n] # Gone
    /\ tree' = [tree EXCEPT ![n].file[f] = edits']
    /\ UNCHANGED <<config, primary, ledger, receipt>> /\ KeepSession

(* A line the core reader does not recognise.                              *)
Garble(n) ==
    /\ Edit /\ tree[n] # Gone
    /\ tree' = [tree EXCEPT ![n].garbled = TRUE]
    /\ UNCHANGED <<config, primary, ledger, receipt>> /\ KeepSession

EditPrimary(f) ==
    /\ Edit
    /\ \E v \in ({edits'} \union {tree[n].file[f] : n \in Standing}) \ {Gone} :
        primary' = [primary EXCEPT ![f] = v]
    /\ UNCHANGED <<tree, config, ledger, receipt>> /\ KeepSession

EditConfig ==
    /\ Edit /\ config' = config + 1
    /\ UNCHANGED <<tree, primary, ledger, receipt>> /\ KeepSession

-----------------------------------------------------------------------------
(* _scan(): rows whose id the primary does not have, files it lacks and    *)
(* files that differ.  A domain.toml edit may have moved the lanes, and a  *)
(* scan then looks elsewhere.                                              *)
Unseen(n) ==
    IF tree[n] = Gone \/ record[n] # config THEN {} ELSE {r \in tree[n].rows : ledger[r] = 0}

Missing(n) ==
    IF tree[n] = Gone THEN {}
    ELSE {f \in Files \ Memos : tree[n].file[f] # Gone /\ primary[f] = Gone}

Differing(n) ==
    IF tree[n] = Gone THEN {}
    ELSE {f \in Files : tree[n].file[f] \notin {Gone, primary[f]}} \ Missing(n)

Unreceipted(n) == {r \in Unseen(n) : receipt[r] # n}

Drifted(n) == record[n] # config

(* Fault: only rows are evidence.                                          *)
RefusedRowsOnly(n, harvest, discard) ==
    \/ Drifted(n)
    \/ harvest /\ ~discard /\ Unreceipted(n) # {}
    \/ ~harvest /\ Unseen(n) # {}

(* destroy()'s checks, all before its first write: a drifted domain.toml,  *)
(* an unreadable row, a file that differs, a memo, an unreceipted row      *)
(* nobody said to discard; and without --harvest anything the primary      *)
(* lacks.  (--accept-drift, a person's word that the evidence is not on the*)
(* moved path, is not modelled.)                                           *)
Refused(n, harvest, discard) ==
    \/ Drifted(n)
    \/ tree[n] # Gone /\ tree[n].garbled
    \/ Differing(n) # {}
    \/ harvest /\ ~discard /\ Unreceipted(n) # {}
    \/ ~harvest /\ Unseen(n) \union Missing(n) # {}

Destroy(n, harvest, discard) ==
    /\ job[n] = Idle /\ record[n] # Gone /\ ~Refused(n, harvest, discard)
    /\ job' = [job EXCEPT ![n] =
           [at |-> "harvest", rows |-> Unseen(n) \ Unreceipted(n), files |-> Missing(n),
            unreceipted |-> Unreceipted(n),
            held |-> IF tree[n] = Gone THEN [rows |-> {}, files |-> {}]
                     ELSE [rows |-> {n} \X tree[n].rows,
                           files |-> {f \in Files : tree[n].file[f] # Gone}]]]
    /\ UNCHANGED <<tree, record>> /\ KeepWork /\ KeepEvidence

AppendRow(n) ==
    /\ At(n, "harvest")
    /\ \E r \in job[n].rows :
        /\ ledger' = [ledger EXCEPT ![r] = @ + 1] /\ job' = [job EXCEPT ![n].rows = @ \ {r}]
    /\ UNCHANGED <<tree, record, primary, archive, proposed, dropped>> /\ KeepWork

CopyEntry(n) ==
    /\ At(n, "harvest") /\ job[n].rows = {} /\ tree[n] # Gone
    /\ \E f \in job[n].files :
        /\ primary' = [primary EXCEPT ![f] = tree[n].file[f]]
        /\ job' = [job EXCEPT ![n].files = @ \ {f}]
    /\ UNCHANGED <<tree, record, ledger, archive, proposed, dropped>> /\ KeepWork

(* `git worktree remove --force`: whatever the worktree holds by now.      *)
RemoveTree(n) ==
    /\ At(n, "harvest") /\ job[n].rows = {} /\ job[n].files = {}
    /\ tree' = [tree EXCEPT ![n] = Gone] /\ Goto(n, "unlink")
    /\ dropped' = [rows |-> dropped.rows \union job[n].held.rows,
                   files |-> dropped.files \union job[n].held.files]
    /\ UNCHANGED <<record, primary, ledger, archive, proposed>> /\ KeepWork

UnlinkRecord(n) ==
    /\ At(n, "unlink") /\ record' = [record EXCEPT ![n] = Gone] /\ Goto(n, "rows")
    /\ UNCHANGED <<tree, proposed>> /\ KeepWork /\ KeepEvidence

(* The rows left out of the ledger are written beside the record, last.    *)
ArchiveRows(n) ==
    /\ At(n, "rows") /\ job' = [job EXCEPT ![n] = Idle]
    /\ archive' = archive \union job[n].unreceipted
    /\ UNCHANGED <<tree, record, primary, ledger, proposed, dropped>> /\ KeepWork

Dies(n) ==
    /\ job[n] # Idle /\ job' = [job EXCEPT ![n] = Idle]
    /\ UNCHANGED <<tree, record, proposed>> /\ KeepWork /\ KeepEvidence

(* prune(): what could go, were it destroyed now without --harvest.        *)
Eligible(n) ==
    /\ record[n] # Gone /\ tree[n] # Gone /\ ~tree[n].garbled
    /\ Unseen(n) = {} /\ Missing(n) = {} /\ Differing(n) = {}

Prune ==
    /\ proposed' = {n \in Names : Eligible(n)}
    /\ UNCHANGED <<tree, record, job>> /\ KeepWork /\ KeepEvidence

(* `prune --destroy` goes through destroy() and its checks.                *)
DestroyProposed(n) ==
    /\ n \in proposed /\ proposed' = proposed \ {n} /\ Destroy(n, FALSE, FALSE)

SessionsNext ==
    \/ EditConfig \/ Prune \/ \E f \in Files : EditPrimary(f)
    \/ \E n \in Names :
        \/ Create(n) \/ Strip(n) \/ WriteRecord(n)
        \/ \E r \in Rows : MeasureIn(n, r) \/ WriteRow(n, r)
        \/ \E f \in Files : EditFile(n, f)
        \/ Garble(n)
        \/ \E h, d \in BOOLEAN : Destroy(n, h, d) /\ UNCHANGED proposed
        \/ AppendRow(n) \/ CopyEntry(n) \/ RemoveTree(n) \/ UnlinkRecord(n) \/ ArchiveRows(n)
        \/ DestroyProposed(n) \/ Dies(n)

SessionsSpec == SessionsInit /\ [][SessionsNext]_sessionVars

-----------------------------------------------------------------------------
(* A vanished worktree takes no evidence with it: every row it held when it*)
(* was scanned and was measured in it is in the primary's ledger, exactly  *)
(* once, every file it held has a version in the primary, and nothing      *)
(* unmeasured got into the ledger; wherever the destroys before it died,   *)
(* and although prune's report is stale by the time it is acted on         *)
(* (session.py destroy, _scan, prune).                                     *)
SessionEvidenceKept ==
    /\ \A p \in dropped.rows : receipt[p[2]] = p[1] => ledger[p[2]] = 1
    /\ \A f \in dropped.files : primary[f] # Gone
    /\ \A r \in Rows : ledger[r] > 0 => receipt[r] # Nobody /\ ledger[r] = 1
=============================================================================
