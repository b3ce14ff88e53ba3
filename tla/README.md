# A TLA+ model of auto-research-toolkit

The toolkit lets several sessions -- people, agents, coordinator loops -- work
through one corpus of *entries* (hypotheses and defects, one YAML file each) in
one checkout. There is no server: the sessions are processes that read and
write files, and everything that keeps them out of each other's way is in lock
files, in signatures of what was read, and in who is recorded as holding what.
That part is what this project models. Source paths below are relative to
`src/src/autoresearch/`.

## The system and its parts

| Part (source) | State it keeps | Operations | What is hard about it |
|---|---|---|---|
| Named locks (`claims.py`, `Lock`) | one file per lock: holder name, pid, `at` | `acquire` (create, write payload, steal when stale, give up), `release` | every file operation is a step of its own; a holder can die between any two |
| Entry store (`entries.py`, `Store`) | a file per entry; a process-wide cache of signatures | `load`, `all`, `save`, `create`, `next_id` | optimistic concurrency: the evidence a save is checked against is shared by all the threads of a process |
| Entry lifecycle (`entries.py`, `states.py`) | status, claim, result, history of an entry | `Entry.apply` over a declared machine | reopening must keep the verdict it withdraws |
| Claims (`claims.py`) | the claim on the record, tokens handed out | `claim`, `release`, `reap`, `mutate`, `require_owner` | load, decide, save: sessions interleave between; liveness of a holder is inferred |
| Verbs (`cli.py`) | -- | `close`, `close --reopen`, `--relabel`, `entry amend`, `reprice`, gates | most of them do not take the claims lock |
| Execution attempts (`attempts.py`) | a record per attempt, tombstones | `reserve`, `settle`, `checkpoint`, `execute`, `reap_assignment`, `reconcile` | concurrency and run ceilings; a crash never refunds |
| External assignments (`external.py`) | the same records, a handoff lock, a receipt in the entry's history | `assign`, `complete`, `cancel` | two files have to change together and a crash can come in between |
| Coordinator (`driver/loop.py`) | iteration records, the claims it took | seven phases; `_apply_verdict` | parallel workers with tool access of their own; `kill -9` at any point |
| Workspaces (`workspaces.py`) | a directory or worktree, a marker, a recovery link | `acquire`, `retain`, `release`, `inspect`, `recover` | markers and directories change one at a time; a restarted loop holds slots under the same name |
| Sessions (`session.py`) | a worktree, a record, archived rows | `create`, `destroy`, `prune` | people go on working in what a destroy has scanned |
| Run ledger (`runs.py`, `evaluator.py`) | append-only JSONL, receipts, audit copies | `measure`, `harvest` | a worker owns the slot its evidence is made in |
| Frontier (`noise.py`, `epochs.py`, `holdout.py`, `gates.py`, `runs.py`, `budget.py`) | ledger rows, promotions, the held-out ledger | best row, suspicion and release, `consult`, `should_stop` | the decision to stop reads for minutes while all of that moves |
| Budgets (`budget.py`, `usage.py`) | meters derived from ledger, attempts, iterations and tombstones | `total_runs`, `claim_runs`, `recorded_usage`, `reconcile` | one run may be on disk four times |
| Lineage (`tree.py`, `cli.py`) | `parent`, `derived_from`, `supersedes` | `check_branch`, file, amend, supersede | checked on one reading, written on another |
| Ranking (`rank.py`, `scoring.py`) | -- | filters, scores, vetoes, shortlist | the board moves between the reading and the pick |
| Model seam (`driver/brain.py`) | one cost ledger for all backends | `ask`, timeouts, posts and retries | several asks at once under one ceiling, costs never learned |
| Leaderboards (`challenge.py`, `goal.py`) | a snapshot file, the target's cache | `pull`, `target_value`, `resolve` | two caches, a site that goes down, a page that changes under a fetch |
| Upgrades (`upstream.py`) | the installed core, memos | plan, install, verify, roll back | pip can fail anywhere; the domain moves meanwhile |
| Views and UI (`render.py`, `ui/`) | generated views, a document cache, a change log | verbs' rendering, watcher, stream, page | builds, events and responses overtake each other |
| Escalation (`escalate.py`, `hardware.py`) | -- | `recommend` | zero, missing and unmeasured figures |
| Skills (`skills.py`) | a prose file per skill, its citations and stamp | `write`, `retire`, `check`, `stale_report` | what is cited moves while the prose is being written |
| Relocation (`relocate.py`) | a memo's path, and the pointers to it | `relocate` | one file move and several saves, with no lock |
| Field defects (`defects.py`) | defects, bundles in circulation, the receiver's record | export, `ingest_bundle` | bundles arrive often, late, and from other cores |
| Evidence bundles (`bundles.py`) | a tree at the address its manifest hashes to | `import_bundle` | deaths while publishing; a lock people remove |
| Members (`members.py`, `inherit.py`, `policy.py`) | -- | the merge of an umbrella's rules into a member | what is left out, or is of the wrong kind |
| Configuration (`config.py`, `expr.py`, `preflight.py`, `plugins.py`, `lanes.py`) | constants of a domain | parse | -- |
| Everything else: `board`, `validate`, `merge`, `scaffold`, `kits`, `migrate` | one-off file writes, reports | -- | sequential, or only readers |

How they meet: a verb takes the claims lock (a named lock), loads an entry
through the store, changes its copy, and saves it through the store, which
takes the entry's own named lock for the compare-and-replace. The coordinator
does the same from several threads of one process. Attempts are pinned to a
claim by its timestamp and check it again before they spend; a settled
assignment leaves a receipt in the entry's history, the same file its verdict
goes to, so that a retry can tell it was applied.

PROJECT.json lists, under "hazards", the places in the code where this can go
wrong, and which property speaks of each.

## The modules

### FileLock

Class `Lock`. `file` is the lock file -- absent, or its creator, whether its
payload has been written, and the age its `at` shows -- and each call has a
program counter. One action per file operation: `Create` is
`os.open(O_CREAT|O_EXCL)`, `WritePayload` the write that follows, `FindStale`
and `Steal` the read and the unlink of a stale lock, `Release` and `Unlink` the
two of `release()`. `Crash` kills a caller anywhere. Time moves in units far
longer than the 50 ms poll, so a caller whose deadline has come makes its last
attempt before the clock moves on, and a live holder is out within `MaxHold`.
The `at` in the payload is computed before the wait, which is why a new file's
age starts at `waited[p]` and why `TimingAssumption` asks for
`Timeout + MaxHold <= StaleAfter`; the shipped settings leave 90 s or more.

### EntryStore

Class `Store`. A record is the set of edits in it; as every writer appends to
the history, no two writes leave the same bytes, so a record is its own
signature. `cache` is `_ENTRY_CACHE`, one per process and shared by its
threads. `load()` is two steps (signature, then body), `save()` four (lock,
compare, replace, register), filing two (number, link). `refreshed` is a ghost:
the writers whose process has read their entry again since they loaded it.
The per-entry lock is exclusive here; FileLock says when it is.

### Claims and ClaimLease

The verbs that move an entry. A verb is two steps: `ClaimEntry`, `Release`,
`Reap`, `Close`, `Reopen`, `Mutate`, `Annotate` read the record, check what
the code checks and leave a changed copy in `op`; `Save` writes it back unless
another save came first (`stale`), or it is `Refused`. That guard is what
EntryStore is about, and its refreshed-signature failure is not repeated here.
`LockExclusive` says whether the claims lock lets in one caller at a time; the
safety run sets it to FALSE, since FileLock shows that the lock can fail, and
nothing it checks depends on it. Time is two saturating timers: the age of an
entry's claim, and how long a session has been quiet.

ClaimLease is the abstract specification: an entry is held by one lease at a
time, one with a verdict by nobody, and a withdrawn verdict is kept.
`Claims!LeaseSpec` is its specification under the mapping of `holder` to the
claim, `settled` to the result and `withdrawn` to the archive.

### Attempts

`attempts.py` and `external.py`, with `_apply_verdict_locked` of the
coordinator, which `external complete` calls. Three files have to tell one
story: the attempt's record (`row`), the entry (`claim`, `verdict`,
`receipts`) and the record of the iteration that dispatched the assignment
(`iteration`). An action is what a process does up to and including its next
write, so `Crash` falls between any two of them; what the process holds in
between is in `job`, with the copy of the record it will write back. That copy
matters: `save()` replaces whatever is there, and `complete` and `assign` load
theirs before they take the claims lock, while `reap_assignment` takes the
claims lock only.

| Code | Actions |
|---|---|
| `ar exec` | `Reserve`, `Launch`, `SettleExec`; `Checkpoint` |
| `external assign` | `Reserve`, `TakeHandoff`, `Prepare`, `Export` or `FailSetup`, `ListAssigned` for a coordinator |
| `external complete` | `Complete`, `Harvest` or `RefuseReport`, `ApplyVerdict` or `RefuseClose`, `NoteVerdict`, `Fold`, `Settle` |
| `external cancel` | `Cancel`, `Unclaim`, `FinishCancel`, `FoldCancel` |
| `external reap` | `ReapAssignment` |
| the rest of the system | `TakeClaim`, `EndClaim` (under the claims lock), `CloseEntry`, `ReopenEntry` (without it) |

Both locks exclude here, and the entry is read and written in one step (what
that takes is FileLock's and EntryStore's subject); a save that meets a changed
entry is part of `RefuseClose`. The checks that can refuse a report -- evidence,
usage, evaluator drift, the deadline, the gates of a close -- are a refusal that
may happen. The ghost `revived` records that a settled record was written over
with an active one, which a reap across sessions, or a checkpoint, of an attempt
that still moves can lead to.
Time is not counted: an attempt may be past the TTL, and so be reaped, at any
time, as a shorter `--ttl-hours` allows.

### Coordinator

`driver/loop.py`. An iteration is `BeginIteration`, `Orient` (which reaps),
`Generate`, `RankCards`, then per card `BlockCard`, `PassOver` or
`DispatchCard`, and per dispatched worker an answer and what the loop makes of
it: `RefuseEvidence`, `RefuseVerdict`, `ApplyVerdict`, or `ClaimChanged`, which
is the error that ends the iteration; then `Curate`, `Distil`, `Qc`, `Record`.
`held` is `dispatched_claims`: the claim each worker was sent out under, which
`_apply_verdict` compares with the one it finds. Around it `WorkerCloses` is a
worker running `ar close`, `PersonReaps`, `PersonClaims` and `PersonEnds` are
everybody else, `OutOfBand` and `Scout` the command line's single phases that
record under the same numbers, and `CoordDies` a death anywhere. `native` is
`coordinator.dispatch = "native"`, where the cards stay assigned.

### Lineage

The tree under `ar entry new` and the generator's `_file` (`FileBranch` checks
and `CreateBranch` writes, inside the store's filing lock), `ar entry amend`
(`AmendParent`, `SaveAmend`, with no lock) and a superseding close (`Supersede`,
`SaveReplacement`, `SaveRetired`: two records, two writes). `CheckBranch` is
`check_branch`, its walk up the parents a recursive function. An amendment can
close a cycle, since the walk is not told which entry moves; no document
promises otherwise, and the module states nothing about it.

### Ranking

`Rank` is `rank()`: hard filters (`Excluded`), calibration, the score as an
exact fraction, the cut to what budget is left; `SeamRank` the domain's own
order; `Veto` `apply_veto`; `Shortlist` the cut with its share for long shots.
Before `Rank`, `Hold`, `Close`, `Relabel` and `Reprice` move the board, in any
order; from then on all is said of the reading the ranking was made from, as
the code's claim checks the entry again.

### Meters

A run on disk as a charge on an attempt, a row of the ledger, a figure in an
iteration record and a tombstone, and the readers `total_runs`, `claim_runs`
and `recorded_usage` (`TotalRuns`, `ClaimRuns`, `Money`) that reconcile them
between any two writes of a dispatch (`Reserve`, `Charge`, `Retain`,
`Attribute`, `Settle`, `Record`), after the coordinator died there, and after
`Archive` and `UnlinkRecord` of `reconcile`. `usage.jsonl` is appended to by
several sessions that number their rows first (`NumberRow`, `WriteRow`).

### Workspaces and Sessions

Every operation of the pool holds a kernel lock, so two never interleave, but
each is several file operations with a death possible between any two:
`Acquire` and `MarkSlot`; `Release` and `Unmark`; `Recover`, `MoveEvidence`,
`UnlinkMarker`, `FinishRecovery`. Two pools of one holder name are the loop
before and after a restart. Sessions does the same for `ar session`: `Create`,
`Strip`, `WriteRecord`; `Destroy` (scan and guards), `AppendRow`, `CopyEntry`,
`RemoveTree`, `UnlinkRecord`, `ArchiveRows`; `Prune` and `DestroyProposed`. The
worktree and the primary go on being edited until the tree is gone, so the
module speaks of what the scan saw; what appears after it and before
`git worktree remove --force` is lost, and the code has nothing against that.

### RunLedger

`ar measure` in a slot (`Measure`, `Score`, `Stamp`, `WriteReceipt`,
`AppendRow`) and the harvest (`BeginHarvest`, per row `PassOver` or `TakeRow`,
the audit copy `OpenOutput`, `FillOutput`, `KeepOutput` or `Collide`,
`LinkRow`). The worker of a slot may edit its evaluator, rewrite inherited rows,
copy a neighbour's row or write one by hand; a person may edit the primary's
evaluator during the run. A digest is the value it digests.

### Frontier

`Measure`, `Promote`, `Confirm` and `NewEpoch` move the ledger; a process
decides to stop by `ReadBest`, perhaps `UseCached`, `Peek` and `RecordPeek` of
the held-out data, then `Win` or `GoOn`, each on what it reads then.
`Representative`, `ClearsNoise`, `Suspicious`, `Excluded` are `noise.py`'s,
with the statistic replaced by a floor. `held` picks between a declared
held-out check and `goal.confirm_independently`.

### Upgrade, Spending, Leaderboard, Escalation

Upgrade is `ar harness update`, one action per step and outcome of it, with
validation as the set of lines it prints. Spending is the brain seam: `Dispatch`
checks `Room`, then a command answers, exits, or is killed at its timeout, and a
post is answered, refused, tried again or fails. `paid` is what asks cost,
`unseen` what the code has no means to learn or drops. Leaderboard is
`challenge.py` with the loop's and people's pulls over one snapshot file,
written in place, and `Target.resolve`'s cache above it; `fell` marks a number
the probe announced as a fallback. Escalation is an algorithm and not a
protocol: every question of the instance is asked once, `Recommend` follows
the code's loop and early returns, and the property states the answer without
them.

### Pages

`Save`, `ReadStore`, `WriteViews` or `LeaveStale` are a verb and its rendering.
`Poll`, `Settle`, `Tick`, `Invalidate`, `Publish` are the watcher's thread,
`Refresh`, `Read`, `Keep`, `Draw` a request from the page to the picture, and
`Connect` and `Hear` the event stream. The module shows one gap that
no property excludes: the first `hello` does not refetch (`app.js`, 148), so a
change between the first fetch and the opening of the stream is not drawn until
the next one; `since` is there because of it.

### Skills and Relocation

Two commands that read the entries once and write on what they read. In Skills
a distillation is `Brief` (the entries, `stale_report`, `undistilled`), then per
skill `Draft` (the stamp, and `check` against the entries read before the
question) and `Put`; a death in `Put` leaves a file that does not parse
(`Torn`). `Close` and `Move` are the verbs that settle, withdraw and relabel
what is cited, `Tick` the second a timestamp shows. `stood` is a ghost: what
stood at the stamp. What moves while the librarian is asked is older than that,
and no check tells.
In Relocation the command is `Start` (the refusals), `ReadEntries`, `MoveFile`,
`Rewrite` per entry, and `Stop`, which is its end, a refused save or a death;
`HandIn`, `Close`, `Reopen`, `Cite` go on beside it. `Overlap` says whether two
relocations may run at once. The run assumes that they do not, though nothing
forbids it: of two that move files of one name both find the destination free
(`relocate.py`, 61), and the second replaces the memo the first brought there.
What a relocation cut short leaves behind cites the old path; `ar validate`
names it where it is an entry's memo, and not where it is a source.

### Defects and Bundles

Defects is the road a defect takes from a project to the toolkit: `File`,
`Amend`, `Fix`, `Export` at the project, and at the receiver `Begin`, `Acquire`
(the filing lock), `ReadTags`, `Skip` or `Ingest` per defect, `Finish`, `Leave`.
`bundles` is a set, so a bundle may be ingested again, late or by two at once;
one of them was written by hand or by an older core, and `Ingest` takes a core
of "auto" from it, which an export refuses. Bundles is `ar evidence
import`: `Stage` validates the archive, and under the lock `Look`, `Copy`,
`Publish` or `Clean`, `Release`. `RemoveLock` is a person taking the lock for
left behind -- the only way out of one that is, as it never goes stale
(`bundles.py`, 310) -- and `Touch` a person changing what was imported.

### Inherit

What a member domain takes from its umbrella: `Merged` is `inherit.merge` and
the loader after it, for the tables with rules of their own, over values that
may be missing or of the wrong kind. Ceilings are compared as numbers: a member
that sets a currency and no ceiling has its umbrella's number in its own. Like
Escalation an algorithm, asked every question of the instance once.

### The suite of the other components, and the MC modules

Eighteen of those modules, from Coordinator on, share nothing that their own
modules leave out; side by side their states would only multiply. A behaviour of
the suite is therefore one of one component, its `subject`. ToolkitRow declares
`subject` and a common row of variables, of which each component takes the first
few, and four modules give the row to groups of them and state, under one name,
what several promise alike:

| Module | Components | Properties |
|---|---|---|
| Evidence | RunLedger, Workspaces, Sessions, Relocation, Bundles | `EvidenceKept`, `LedgerProven` |
| Records | Lineage, Defects, Skills, Pages | `SiblingCapHeld`, `RetirementNamed`, `IngestedOnce`, `ReadersCurrent` |
| Decisions | Ranking, Frontier, Escalation, Leaderboard, Upgrade, Spending, Inherit | `NoDeadWork`, `ReproducedStands`, `PeeksMetered`, `WinsBacked`, `RentsTheCheapestThatPays`, `TargetFollowsBoard`, `UpgradeSafe`, `CeilingHolds` |
| Coordination | Coordinator, Meters | `NoSquat`, `OneVerdict`, `TotalsExact` |

MCToolkit extends the four and has the constants given in Toolkit.cfg. Where two
components have a constant of one name, or one is named like a definition of
another, the group has a name of its own for it (`MaxTouches` is RunLedger's
`MaxEdits`, `MayOverlap` Relocation's `Overlap`). Coordination runs two sizes of
one instance: one coordinator over every card (`OneRuns`), or several over fewer
cards and iterations (`SeveralRun`). MCProgress does the same for the two liveness
properties of Claims and Attempts.

## The runs

| Run | What it checks | What it shows |
|---|---|---|
| `file_lock` | `TypeOK`, `ExcludesBeforeCrash`, `HolderKeepsFile`, `EveryAcquireEnds`, `NamedLockRecovers` | the lock works as long as nobody dies, every acquire ends, a lock left with its payload is taken over |
| `file_lock_wedge` | `CrashedLockRecovers` (violated) | a process that dies before it writes the payload leaves a lock that is never stale |
| `file_lock_steal` | `MutualExclusion` (violated) | after a crash, two waiters both steal: the slower one removes the faster one's lock |
| `entry_store` | `TypeOK`, `AckedEditsPersist`, `NoLostUpdateUnrefreshed`, `RefusalIsReal` | no acknowledged edit or filing is lost unless a signature was refreshed under a loaded copy; no save is refused without another's edit |
| `entry_store_rescan` | `NoLostUpdate` (violated) | reading the store between load and save defeats the guard |
| `claims` | `TypeOK`, `RecordCoherent`, `VerdictsKept`, `NoNewOrphans`, `ClaimsEndRightfully`, `LeaseSpec` | claims and verdicts survive every interleaving of the verbs and deaths of two sessions |
| `attempts` | `TypeOK`, `SlotCeiling`, `ReceiptsAgree`, `EndsOwnClaimOnly`, `CompletedStays` | attempt records, receipts and claims agree through every interleaving of reservations, completions, cancels, reaps and deaths |
| `attempts_record` | `IterationsTold` (violated) | a reap across sessions never tells the iteration that dispatched the assignment |
| `progress` | `AbandonedClaimsFreed`, `AppliedSettles` | a claim whose holder is gone is freed, under a shared default name too; a verdict that reached the entry is settled by a retry in the end |
| `toolkit` | the properties below | the other components keep what they promise on an instance each |
| `coordinator_close` | `WorkerCloseHarmless` (violated) | a worker that closes its own card ends the iteration with an error |
| `coordinator_record` | `RecordsKept` (violated) | two processes write one iteration number, and one record is gone |

| In `toolkit` | Module | What could break it |
|---|---|---|
| `TypeOK` | all | among them the spawn pool: an iteration never asks more models than it has |
| `SiblingCapHeld` | Lineage | two filings that count the siblings before either is written |
| `RetirementNamed` | Lineage | a death or an amendment between the two writes of a retirement |
| `NoDeadWork` | Ranking | a veto, a relabel or a scope that brings back what a refutation closed |
| `TotalsExact` | Meters | one run on disk in four places, and a death between any two |
| `EvidenceKept` | Workspaces, Sessions | a directory that goes with evidence nobody took |
| | RunLedger (`AuditKept`) | a harvest that died, two slots with one output path |
| | Relocation (`EvidenceMoved`) | a destination that is taken, a move cut short, memos handed in beside it |
| | Bundles (`ImportedWhole`) | a death or a second import while the tree is copied or published |
| `NoSquat`, `OneVerdict` | Coordinator | a claim reaped, taken anew, or a card closed while its worker was out |
| `LedgerProven` | RunLedger | forged, drifted, duplicated rows |
| `ReproducedStands`, `PeeksMetered`, `WinsBacked` | Frontier | rows, epochs, gates and held-out answers that move under a decision |
| `UpgradeSafe` | Upgrade | an install that fails half-way, or trades one problem for another |
| `CeilingHolds` | Spending | asks that pass the ceiling check together, costs never learned |
| | Inherit (`MemberNeverLoosens`) | a rule left out, emptied or set to nonsense below an umbrella |
| `TargetFollowsBoard` | Leaderboard | a snapshot of another page, or older than it says |
| `ReadersCurrent` | Pages | invalidations, events and responses out of order; overlapping verbs |
| | Skills (`MovedIsTold`) | a citation that moves in the second of the stamp, or before the file is there |
| `RentsTheCheapestThatPays` | Escalation | the cheapest class misses the deadline and a dearer one fits |
| `IngestedOnce` | Defects | two ingests of one bundle, a death between two defects |

Bounds. `file_lock`: three callers (two of one name), `Timeout` 1, one crash:
every race in the module needs at most two waiters and one holder. `entry_store`:
three writers in two processes, so that one pair shares a cache and one pair does
not; one filed entry and two free numbers, so that a filer that lost its number
has another; one operation each is enough for a write to land in any gap of
another. `claims`: one entry (the verbs touch one each), a session under the
shared default name and one under its own, two claims ever begun, so that an
earlier claim's token, pin and late save can meet its successor; `TTL` 1.
`attempts`: two processes of one session (they meet in the handoff lock and hold
copies of one record) and one of another, two attempts on one entry with
`MaxParallel` 1, so that the second reservation meets the ceiling, and two claims,
so that an assignment can outlive its own; one verdict besides "inconclusive", as
only the difference of the two is used. `progress`: one entry or one attempt, two
actors, no symmetry. `toolkit`: every component has two actors where it has actors
(but for Relocation, above), so that one can overtake the other, and its bounds
are in Toolkit.cfg: three entries so that a lineage has a grandchild and a cycle;
two attempts with two runs on one of them and one by hand; two pools of one name;
one coordinator with two cards and two with one; one slot that owes harness debt
and one that does not; two evaluators; two configurations with a value below, at
and outside the target, in two epochs; three commits of which the later two break
different things; two asks and a ceiling of two; two boards, one of each kind; a
log of one generation, so that a page falls out of it; one entry, one skill and
two distillers over two seconds; two inbox directories with one file name, so that
destinations collide, and two entries, so that a rewrite can stop between them;
one project with two defects, one bundle made by hand and two ingests; a bundle of
two files, two imports, one change by people; every pair of files over two rule
lists, two ceilings, two currencies and two floors. `coordinator_close` and
`coordinator_record`: two coordinators, two cards, two numbers.

Fairness. `file_lock`: live callers keep running and time passes.
`progress`: a coordinator reaps at the start of every iteration
(`driver/loop.py`, 663-675, inside `orient`), which is strong fairness of
`Reap` and of its save -- it retries for as long as it runs, and what refuses
one attempt is another session's save, which does not repeat forever; verbs in
progress end; time passes. `Mortal` leaves one actor alive to do that.
For the attempts, whoever has the report runs `ar external complete` again
until it goes through, as the command's own error messages ask, and a process at
work goes on or dies. `Settle` is strongly fair, because every retry may be
killed on the way to it but not every one is. The other modules state no
liveness: what they do is a person's or a scheduler's to start, and nothing in
the code promises that it will be.

Deadlock is not checked in `entry_store` (every writer ends after `MaxOps`), in
the runs of Attempts and `progress` (no claim is taken after `MaxClaims`), and
in `toolkit` and the coordinator runs, where every component stops at its bound.

## The proofs

TLAPS proves every safety property that the passing runs check, the types of
every component among them, for every value of the constants. Hardly one is
inductive as it stands. What each invariant adds, and so the argument of the
proof:

* **FileLockProofs** -- `ExclusionHolds`, `HolderKeepsFileHolds`, from
  `TimingAssumption`. While nobody has died the file at the path is the holder's
  own and no older than it has waited and held, hence never stale.
* **EntryStoreProofs** -- `NoLostUpdateHolds`, `AckedEditsPersistHolds`,
  `RefusalIsRealHolds`. `CopyInv` says what a copy is worth: the cache still
  holds the signature an unrefreshed copy was loaded under, all that was on disk
  then is in the copy, and from the compare to the replace the file has not
  changed. The last is the first read the other way: what the guard compares is
  the signature the copy was loaded under.
* **ClaimsProofs** -- `RecordCoherentHolds`, `VerdictsKeptHolds`,
  `NoNewOrphansHolds`, `ClaimsEndRightfullyHolds` and `ImplementsLease`. Every
  copy a verb holds is a sound successor of the record it was loaded from,
  unless another save has overtaken it (`CopiesSound`, `ClaimCopies`).
* **AttemptsProofs** -- `SlotCeilingHolds`, `ReceiptsAgreeHolds`,
  `EndsOwnClaimOnlyHolds`, `CompletedStaysHolds`. Who is in a phase of a lock
  has it (`StructInv`); a copy in hand may be old, but not about what identifies
  the attempt (`CopiesAgree`), and the phases under the claims lock see the
  record as it is (`Underway`); and until the last write nobody else has left a
  receipt (`Unreceipted`). The ceiling is about a cardinality: a step takes no
  slot, or one while one is free (`SlotsKept`).
* **CoordinatorProofs** -- `ToolkitNoSquat`, `ToolkitOneVerdict`. What a worker
  is out under is the claim on the card, or that claim is gone; and a claim that
  is gone never comes back, as stamps only grow (`GoneForGood`).
  `ToolkitTotalsExact` (and `MetersTypes`): what an attempt is charged, with the
  rows it does not link, covers the figure it reported and the rows it appended
  (`Covered`), and an iteration accounts for the attempts whose workers are
  through, which are in no other (`Accounts`, `RecordsAccount`). So what is
  discounted is all that the reports say of attempts that have a charge
  (`DiscountIsAll`), the overlap is the rows those reports count (`OverlapIsTold`),
  and of the four places a run may be in, one remains, attempt by attempt
  (`TotalIs`, `CoversOne`).
* **EvidenceProofs** -- `ToolkitLedgerProven`: every stage of a measurement
  agrees with what core measured until it is stamped, and a receipt states the
  row as it was then (`MeasureRight`, `ReceiptRight`). `ToolkitEvidenceKept`, five
  arguments: a row enters the ledger when its audit is there (`EntryRight`); a
  slot's marker or its archive vouches for what is in it at every step of a
  release or a recovery (`SlotsRight`); a destroy has kept what its scan saw
  before the tree goes (`RowsRight`, `FilesRight`); between the move of a memo
  and the last rewriting the old path is free and the new one is the memo's
  (`MoverRight`); and what lies at a bundle's address is nothing or the whole of
  it until people touch it (`BundlesInv`).
* **RecordProofs** -- `ToolkitSiblingCap`: a filing that has counted finds the
  same room when it writes, since it has the lock (`FilingSafe`).
  `ToolkitRetirementNamed`: a retirement is linked before it is written, and
  what else saves the replacement keeps the link (`LinksKept`).
  `ToolkitIngestedOnce`: the tags an ingest has read are those of the record
  while it holds the lock, and what it has in hand is not among them.
  `ToolkitReadersCurrent`, two arguments. What moves after a stamp is no older
  than it, in a draft and on disk (`ToldOf`). And a version travels from the disk
  to the page by stations, each as new as the next but for what is still to be
  told (`PagesInv`): a cached document, or one being built with nothing
  invalidated since, is as new as what the watcher told of (`CacheRight`,
  `RequestRight`); the newest request and the picture miss only what the page
  has not heard (`AskedRight`, `DrawnRight`); and what it has not heard the log
  tells it, whatever it forgot (`PublishTells`).
* **DecisionProofs** -- eight properties of seven components.
  `ToolkitNoDeadWork`: what is in the ranking passed the filters of the reading
  it was made from, a veto or a price of the domain's only reorders it, and the
  picks are cut from it (`RankingInv`).
  `ToolkitPeeksMetered` counts the peeks that are under way and not recorded;
  `ToolkitCeilingHolds` the asks that are (`SpendingInv`), and shows that a
  merge takes the lower of two ceilings whatever the member's file holds.
  `ToolkitWinsBacked`: what a deciding process has in hand was so when it read
  it, and rows and epochs only grow. `ToolkitReproducedStands`: a result of two
  sources is released by whichever row comes last. `ToolkitRentsTheCheapest`
  goes from the loop over the classes to the cheapest that pays.
  `ToolkitTargetFollows`: a number is as old as its snapshot and its cache, and
  from the declared page (`PullRight`, `TargetRight`). `ToolkitUpgradeSafe`: from
  the install to the memo the core is the one that was verified.

Each component of the suite has a theorem of its own on each property,
`LedgerProvenHolds` for instance, on its instance in the row. The theorems named
Toolkit... state the properties as the run checks them. Those in EvidenceProofs,
RecordProofs and DecisionProofs are on the specification of the group
(EvidenceSpec and so on) and take one step more: a behaviour with that subject is
one of the component's. CoordinatorProofs extends the other three and MCToolkit,
and ends with the suite as a whole. A behaviour of MCToolkit's `Spec` is one of
one group (`OneGroup`), and outside a group its promises are not at stake
(`NotAtStake`). So `ToolkitTypes` states `Spec => []TypeOK`, and `ToolkitPromises`
the rest of what Toolkit.cfg checks, all of it at once. In these modules the row's
variables go by the components' names for them, or near them where two components
share one (`memoDisk` is Relocation's `disk`).

Most of the types follow from the invariants above. These needed more:

* Coordinator: an iteration's number is one past a number in use
  (`LastRecordedIsNumber`), and a claim's stamp is the clock's when it was made;
  so neither passes its bound, nor does a phase ask more models than the pool
  has (`PhasesTyped`).
* Pages: the bound is on all writes together, the type on one resource. One
  version is no more than the sum (`OneOfMany`), and none that is cached, drawn
  or under way is newer than the record's (`PagesTyped`).
* Sessions: a row is in the ledger once at most, and then it has a receipt of
  some session, so no more often than there are sessions (`RowsCounted`); every
  version of the configuration was an edit (`DeskTyped`).
* Upgrade: the core that is installed is at or behind the head, so an update goes
  forward (`CoreBehind`).
* Relocation: the types hold also while two relocations overlap (`RelocTyped`).
* Ranking, Frontier, Escalation, Leaderboard: what a step picks (a cut of the
  ranking, a consultation's candidate, a class, a value off a board) is one of
  what it picks among.

What is assumed of the constants is in the modules that declare them, as ASSUMEs
that TLC evaluates: that bounds are numbers, that what is counted is finite, and
that what stands for "nothing" is none of the values it stands beside (in
Evidence, Records, Decisions and Coordination, a named part per component:
`LedgerHyp`, `MetersHyp`). Two say more. `TimingAssumption` is FileLock's, above.
`ToolkitEvidenceKept`, and so `ToolkitPromises`, has the hypothesis `~MayOverlap`,
that memos are relocated one at a time: nothing in the code forbids two, and of
two the second can replace what the first brought. `SpendingHyp` leaves out the
case of a ceiling of 0 with asks that cost nothing, where nothing can be asked.

The meters are sums over sets, folds of the community modules. The theory they
need (`SumTake`, `SumAdd`, `SumOrder`, `SumWithin`, `SumPlus`, `CountByParts`) is
proved by induction over the subsets of a finite set, in the form the provers can
use: a set of subsets that has every set whose smaller ones it has, has them all
(`SmallerFirst`, `OneMore`).

Two definitions of Frontier are recursive functions. The proofs need of them that
there is a function that satisfies the equation (`RecursionOf`) and what holds of
it up to every bound (`AllUpTo`), both from the least number of a set of numbers
(`LeastOf`), which the library's theorem on well-founded orders gives without an
operator for a parameter.

Model-checked only: the liveness properties (`EveryAcquireEnds`,
`NamedLockRecovers`, `AbandonedClaimsFreed`, `AppliedSettles`), which are out of
the prover's reach. The runs that expect a violation have nothing to prove.

## The plan

The modules of the inventory are written, and their safety properties proved. What
a change of the code would call for next: the handlers that "Not modelled" lists,
first among them evidence that lets a close through, in Claims, and two updates at
once, in Upgrade; each with its property checked before it is proved.

## Not modelled

What a message, a prompt or a view says; parsing and validation of a malformed
file; `force=True` and, for claims, `--ttl-hours`, which let a person override a
guard; custom transition tables; which evidence lets a close through
(replication, noise, receipts), a refusal that may happen in Claims and
Coordinator, its parts being in RunLedger and Frontier; the statistics behind a
noise floor; wall-clock budgets; the tamper scan, which decides nothing; two
updates at once; the configuration of a domain (`config`, `expr`, `preflight`,
`plugins`, `lanes`), constant once parsed, but for what Inherit says of
`policy`; which member a directory belongs to and the tables a member overrides
key by key; a skill's name, length and neighbours, and its linking into the
tree; what makes an archive invalid, and packing one; `board`, `validate`,
`merge` and the scaffold, which read the records or write files once.
Coverage ends where the text does: argument parsing, rendering, prompts and the
reports of the read-only verbs are most of the lines that no definition maps.
