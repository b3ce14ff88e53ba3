------------------------------ MODULE Upgrade ------------------------------
(***************************************************************************)
(* `ar harness update` (upstream.py): the core a domain runs on is replaced*)
(* by upstream's head, and put back when that made validation worse.       *)
(*                                                                         *)
(* The install is pip's and can fail before, in the middle of or after the *)
(* replacement; the command can die at any step; people go on editing the  *)
(* domain, so problems come and go that the core has no part in.  One      *)
(* update at a time; upstream only moves forward.                          *)
(***************************************************************************)
EXTENDS Naturals, FiniteSets

CONSTANTS
    MaxPush,    \* bound: commits pushed upstream
    Problems,   \* lines `ar validate` can print
    Faults,     \* by commit: what its validation says of this domain
    Named,      \* whether pip recorded the commit of the first install
    MaxEdits,   \* bound: edits of the domain and reinstalls by hand
    Partial,    \* an install that does not import
    Fork,       \* a commit upstream does not contain
    Idle

VARIABLES
    head,       \* upstream's commit
    core,       \* the commit installed, Fork or Partial
    named,      \* whether pip knows the commit
    own,        \* the domain's own problems
    memos,      \* commits a memo says the core moved to
    job,        \* the update under way, or Idle
    last,       \* how the last one ended: [said, job, core], or Idle
    edits

upgradeVars == <<head, core, named, own, memos, job, last, edits>>

Commits == 0..MaxPush
Lines == Problems \union {Partial}

UpgradeTypeOK ==
    /\ head \in Commits /\ core \in {Partial, Fork} \union Commits /\ named \in BOOLEAN
    /\ own \subseteq Problems /\ memos \subseteq Commits /\ edits \in 0..MaxEdits
    /\ job = Idle \/ (job.base < job.head /\ job.before \subseteq Lines)
    /\ last = Idle \/ last.said \in {"updated", "rolled back", "stranded"}

UpgradeInit ==
    /\ head = 0 /\ core = 0 /\ named = Named /\ own = {} /\ memos = {} /\ job = Idle
    /\ last = Idle /\ edits = 0

(* _verify(): a fresh interpreter renders, then validates; it never raises.*)
Verify ==
    IF core = Partial THEN {Partial}
    ELSE own \union IF core = Fork THEN {} ELSE Faults[core]

(* _pull_status(): only `behind` has anything to pull, only `same` is up to*)
(* date; a commit upstream has never seen is neither.                      *)
PullStatus ==
    IF core = Fork THEN "unpushed" ELSE IF core = head THEN "same" ELSE "behind"

At(where) == job # Idle /\ job.at = where

Goto(where) == job' = [job EXCEPT !.at = where]

KeepWorld == UNCHANGED <<head, own, edits>>

KeepInstall == UNCHANGED <<core, named>>

(* The command ends and says so.                                           *)
End(said) == job' = Idle /\ last' = [said |-> said, job |-> job, core |-> core']

-----------------------------------------------------------------------------
Push ==
    /\ head < MaxPush /\ head' = head + 1
    /\ KeepInstall /\ UNCHANGED <<own, memos, job, last, edits>>

EditDomain ==
    /\ edits < MaxEdits /\ edits' = edits + 1
    /\ \E p \in Problems : own' = IF p \in own THEN own \ {p} ELSE own \union {p}
    /\ KeepInstall /\ UNCHANGED <<head, memos, job, last>>

(* "Reinstall it by hand": when `ar` no longer starts, only a person can.  *)
Reinstall ==
    /\ job = Idle /\ edits < MaxEdits /\ edits' = edits + 1
    /\ core' \in {Fork} \union 0..head /\ named' = TRUE
    /\ UNCHANGED <<head, own, memos, job, last>>

-----------------------------------------------------------------------------
(* plan_update() and cmd_harness_update's guard: there is something to pull*)
(* only when upstream has moved past the installed commit.  The plan is    *)
(* what the rest goes by.                                                  *)
PlanUpdate ==
    /\ job = Idle /\ core # Partial /\ PullStatus = "behind"
    /\ job' = [at |-> "check", base |-> core, head |-> head, named |-> named, before |-> {}]
    /\ KeepInstall /\ KeepWorld /\ UNCHANGED <<memos, last>>

(* apply_update(): the problems there are before.                          *)
CheckBefore ==
    /\ At("check") /\ job' = [job EXCEPT !.at = "install", !.before = Verify]
    /\ KeepInstall /\ KeepWorld /\ UNCHANGED <<memos, last>>

Install ==
    /\ At("install") /\ core' = job.head /\ named' = TRUE /\ Goto("verify")
    /\ KeepWorld /\ UNCHANGED <<memos, last>>

(* pip fails or times out, or what it installed does not import.           *)
InstallFails ==
    /\ At("install") /\ Goto("rollback")
    /\ \/ KeepInstall
       \/ core' \in {Partial, job.head} /\ named' = TRUE
    /\ KeepWorld /\ UNCHANGED <<memos, last>>

(* Fault: more problems, not other problems.                               *)
WorseByCount == Cardinality(Verify) > Cardinality(job.before)

(* A problem line that was not there before.                               *)
Worse == Verify \ job.before # {}

CheckAfter ==
    /\ At("verify") /\ Goto(IF Worse THEN "rollback" ELSE "memo")
    /\ KeepInstall /\ KeepWorld /\ UNCHANGED <<memos, last>>

WriteMemo ==
    /\ At("memo") /\ memos' = memos \union {job.head} /\ KeepInstall /\ End("updated")
    /\ KeepWorld

(* _rollback(): the previous commit is installed again, if pip knew one.   *)
RollBack ==
    /\ At("rollback") /\ job.named
    /\ core' = job.base /\ named' = TRUE /\ End("rolled back")
    /\ KeepWorld /\ UNCHANGED memos

RollBackFails ==
    /\ At("rollback")
    /\ \/ KeepInstall
       \/ job.named /\ core' = Partial /\ named' = TRUE
    /\ End("stranded")
    /\ KeepWorld /\ UNCHANGED memos

Dies ==
    /\ job # Idle /\ job' = Idle
    /\ KeepInstall /\ KeepWorld /\ UNCHANGED <<memos, last>>

UpgradeNext ==
    \/ Push \/ EditDomain \/ Reinstall
    \/ PlanUpdate \/ CheckBefore \/ Install \/ InstallFails \/ CheckAfter \/ WriteMemo
    \/ RollBack \/ RollBackFails \/ Dies

UpgradeSpec == UpgradeInit /\ [][UpgradeNext]_upgradeVars

-----------------------------------------------------------------------------
(* An update that says it went well left the core it planned, recorded,    *)
(* with nothing to say against the domain that was not said before; one    *)
(* that says it rolled back left the core it found; and a core that does   *)
(* not import is never left behind without a word, unless the command died *)
(* (upstream.py apply_update, _rollback, _write_memo).                     *)
UpgradeSafe ==
    last # Idle =>
        /\ last.said = "updated" =>
            /\ last.core = last.job.head /\ last.core \in memos
            /\ Faults[last.core] \subseteq last.job.before
        /\ last.said = "rolled back" => last.core = last.job.base
        /\ last.core = Partial => last.said = "stranded"
=============================================================================
