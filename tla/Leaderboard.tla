---------------------------- MODULE Leaderboard ----------------------------
(***************************************************************************)
(* A moving target: the record of a public challenge, pulled into a cached *)
(* snapshot (challenge.py) and probed by the loop, which caches the number *)
(* it got once more (goal.py Target.resolve).                              *)
(*                                                                         *)
(* The site goes down, its page changes, its record moves; domain.toml may *)
(* be pointed at another board while a probe runs; the loop's probe and a  *)
(* person's `ar challenge pull` write the same file, in place, and either  *)
(* can die while it does.                                                  *)
(***************************************************************************)
EXTENDS Naturals

CONSTANTS
    Boards,     \* pages that can be declared: a source and its url
    Yukon,      \* of them, pages of Yukon; the others are provably.fast's
    Bar,        \* the bar a provably.fast page publishes
    Loop,       \* the loop's probe
    People,     \* people who pull by hand
    Refresh,    \* [challenge] refresh_seconds
    Ttl,        \* the goal's target refresh_seconds
    MaxClock,   \* bound: clock
    MaxMoves,   \* bound: changes of the site and of domain.toml
    None, Torn, Idle

VARIABLES
    clock, moves,
    site,       \* by board: [up, readable, record], record None before the first
    declared,   \* the board domain.toml names
    snapshot,   \* state/challenge/snapshot.json: [board, record, bar, at], None or Torn
    pull,       \* what each puller is doing: [at, asked, since, got], or Idle
    target      \* Target._cached: [value, board, fetched, asked, at, fell], or None

boardVars == <<clock, moves, site, declared, snapshot, pull, target>>

Pullers == People \union {Loop}
Times == 0..MaxClock
Figures == {None} \union 0..MaxMoves
Snapshots == [board : Boards, record : Figures, bar : {None, Bar}, at : Times]
Targets == [value : {Bar} \union 0..MaxMoves, board : Boards, fetched : Times, asked : Boards, at : Times,
            fell : BOOLEAN]

BoardTypeOK ==
    /\ clock \in Times /\ moves \in 0..MaxMoves /\ declared \in Boards
    /\ site \in [Boards -> [up : BOOLEAN, readable : BOOLEAN, record : Figures]]
    /\ snapshot \in {None, Torn} \union Snapshots /\ target \in {None} \union Targets
    /\ pull \in [Pullers -> {Idle} \union
           [at : {"fetch", "open", "write"}, asked : Boards, since : Times, got : {None} \union Snapshots]]

BoardInit ==
    /\ clock = 0 /\ moves = 0 /\ declared \in Boards
    /\ site = [b \in Boards |-> [up |-> TRUE, readable |-> TRUE, record |-> None]]
    /\ snapshot = None /\ pull = [p \in Pullers |-> Idle] /\ target = None

-----------------------------------------------------------------------------
KeepPulls == UNCHANGED <<snapshot, pull, target>>

Tick == clock < MaxClock /\ clock' = clock + 1 /\ UNCHANGED <<moves, site, declared>> /\ KeepPulls

Change == moves < MaxMoves /\ moves' = moves + 1 /\ UNCHANGED clock /\ KeepPulls

SiteChanges(b) ==
    /\ Change /\ UNCHANGED declared
    /\ \/ site' = [site EXCEPT ![b].record = IF @ = None THEN 0 ELSE @ + 1]
       \/ site' = [site EXCEPT ![b].up = ~@]
       \/ site' = [site EXCEPT ![b].readable = ~@]

Redeclare(b) == Change /\ b # declared /\ declared' = b /\ UNCHANGED site

-----------------------------------------------------------------------------
KeepWorld == UNCHANGED <<clock, moves, site, declared>>

Whole == snapshot \notin {None, Torn}

(* Snapshot.target_value(): the standing record or, with none, the bar.    *)
TargetValue(shot) == IF shot.record # None THEN shot.record ELSE shot.bar

(* What the adapters make of a page.  A Yukon page that shows no record    *)
(* yields nothing to chase; a provably.fast page always publishes its bar. *)
FromYukon(b) == [board |-> b, record |-> site[b].record, bar |-> None, at |-> clock]

FromProvablyfast(b) == [board |-> b, record |-> site[b].record, bar |-> Bar, at |-> clock]

Parse(b) == IF b \in Yukon THEN FromYukon(b) ELSE FromProvablyfast(b)

(* Fault: the page is not compared.                                        *)
FreshAnyPage(b) == Whole /\ clock - snapshot.at < Refresh

(* pull(): a snapshot of the declared page, younger than refresh_seconds.  *)
Fresh(b) == Whole /\ snapshot.board = b /\ clock - snapshot.at < Refresh

(* Target.resolve() probes only when its own number is old enough.         *)
Due == target # None => clock - target.at >= Ttl

(* What the probe prints becomes the target, stamped with the time before  *)
(* it ran.                                                                 *)
Settle(p, shot, asked, since, fell) ==
    target' = IF p # Loop THEN target
              ELSE [value |-> TargetValue(shot), board |-> shot.board, fetched |-> shot.at,
                    asked |-> asked, at |-> since, fell |-> fell]

Starts(p) == pull[p] = Idle /\ (p = Loop => Due)

(* A snapshot that cannot be parsed fails every pull, --force included.    *)
Serve(p) ==
    /\ Starts(p) /\ Fresh(declared)
    /\ Settle(p, snapshot, declared, clock, FALSE)
    /\ UNCHANGED <<snapshot, pull>> /\ KeepWorld

BeginFetch(p) ==
    /\ Starts(p) /\ snapshot # Torn /\ (Fresh(declared) => p # Loop)
    /\ pull' = [pull EXCEPT ![p] =
           [at |-> "fetch", asked |-> declared, since |-> clock, got |-> None]]
    /\ UNCHANGED <<snapshot, target>> /\ KeepWorld

At(p, where) == pull[p] # Idle /\ pull[p].at = where

(* _fetch() got an answer, the adapter could read it, and it has a target. *)
Answers(b) == site[b].up /\ site[b].readable /\ TargetValue(Parse(b)) # None

Fetch(p) ==
    /\ At(p, "fetch") /\ Answers(pull[p].asked)
    /\ pull' = [pull EXCEPT ![p].at = "open", ![p].got = Parse(pull[p].asked)]
    /\ UNCHANGED <<snapshot, target>> /\ KeepWorld

(* It does not: nothing is cached, and the probe falls back on whatever    *)
(* snapshot there is, of whatever page.                                    *)
FetchFails(p) ==
    /\ At(p, "fetch") /\ ~Answers(pull[p].asked)
    /\ IF Whole THEN Settle(p, snapshot, pull[p].asked, pull[p].since, TRUE)
       ELSE UNCHANGED target
    /\ pull' = [pull EXCEPT ![p] = Idle] /\ UNCHANGED snapshot /\ KeepWorld

(* write_text(): truncated ...                                             *)
OpenSnapshot(p) ==
    /\ At(p, "open") /\ snapshot' = Torn /\ pull' = [pull EXCEPT ![p].at = "write"]
    /\ UNCHANGED target /\ KeepWorld

(* ... then written; two writers at once can leave a mixture.              *)
WriteSnapshot(p) ==
    /\ At(p, "write")
    /\ snapshot' \in {pull[p].got} \union
           IF snapshot = Torn /\ \A q \in Pullers \ {p} : ~At(q, "write") THEN {} ELSE {Torn}
    /\ Settle(p, pull[p].got, pull[p].asked, pull[p].since, FALSE)
    /\ pull' = [pull EXCEPT ![p] = Idle] /\ KeepWorld

Dies(p) ==
    /\ pull[p] # Idle /\ pull' = [pull EXCEPT ![p] = Idle]
    /\ UNCHANGED <<snapshot, target>> /\ KeepWorld

(* "Delete state/challenge/ and re-pull".                                  *)
DeleteSnapshot ==
    /\ snapshot # None /\ snapshot' = None /\ UNCHANGED <<pull, target>> /\ KeepWorld

BoardNext ==
    \/ Tick \/ DeleteSnapshot \/ \E b \in Boards : SiteChanges(b) \/ Redeclare(b)
    \/ \E p \in Pullers :
        \/ Serve(p) \/ BeginFetch(p) \/ Fetch(p) \/ FetchFails(p)
        \/ OpenSnapshot(p) \/ WriteSnapshot(p) \/ Dies(p)

BoardSpec == BoardInit /\ [][BoardNext]_boardVars

-----------------------------------------------------------------------------
(* A number the loop still takes for fresh was read off the page that was  *)
(* declared when it asked, less than refresh_seconds plus the target's own *)
(* refresh ago, unless the probe said that it fell back; two caches over   *)
(* one page, a slow fetch and a changed domain.toml add no more than that  *)
(* (challenge.py pull, target_value; goal.py Target.resolve).              *)
TargetFollowsBoard ==
    target # None /\ clock - target.at < Ttl /\ ~target.fell =>
        target.board = target.asked /\ clock - target.fetched < Refresh + Ttl
=============================================================================
