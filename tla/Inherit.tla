------------------------------- MODULE Inherit --------------------------------
(***************************************************************************)
(* What a member domain takes from its umbrella (inherit.py merge,         *)
(* members.py umbrella_raw, config.py DomainConfig.load, policy.py         *)
(* from_dict).  Two files are merged once; every pair of the instance is.  *)
(*                                                                         *)
(* Of the inherited tables, the two with rules of their own are modelled:  *)
(* [policy] and [upstream].  The rest, and policy.forbidden_paths, are the *)
(* member's key by key.  human_only stands for never_push_remotes too.     *)
(***************************************************************************)
EXTENDS Naturals

CONSTANTS
    RuleLists,      \* human_only: sets of patterns
    Amounts,        \* spend_ceiling
    Currencies, Default,    \* and the one Policy has when none is set
    Releases,       \* min_core, as numbers; 0 is the empty text
    None,           \* a key or a table that is not there
    Broken,         \* one of the wrong kind: false, {}, a text for a number
    Refused         \* a load that is

VARIABLES umbrella, member, loaded

inheritVars == <<umbrella, member, loaded>>

Optional(S) == S \union {None, Broken}

Policies == [human_only : Optional(RuleLists), spend_ceiling : Optional(Amounts),
             currency : Currencies \union {None}]

(* The umbrella's file may be whole; not TOML, but with a [domains] header *)
(* to be seen; or not to be known for an umbrella's, whatever it held.     *)
Files == [file : {"whole", "garbled", "unknown"}, policy : Optional(Policies),
          min_core : Optional(Releases \union {0})]

InheritTypeOK ==
    /\ umbrella \in Files /\ member \in Files
    /\ loaded \notin {None, Refused} => loaded.human_only \subseteq UNION RuleLists

InheritInit ==
    /\ umbrella \in Files /\ member \in {f \in Files : f.file = "whole"} /\ loaded = None
    /\ umbrella.file # "whole" => umbrella.policy = None /\ umbrella.min_core = None

-----------------------------------------------------------------------------
Table(side) == side.policy
IsTable(side) == Table(side) \notin {None, Broken}
Get(side, key) == IF IsTable(side) THEN Table(side)[key] ELSE None
Listed(side) == IF Get(side, "human_only") \in RuleLists THEN Get(side, "human_only") ELSE {}

Theirs(key) == Get(umbrella, key)
Ours(key) == Get(member, key)
Wins(key) == IF Ours(key) # None THEN Ours(key) ELSE Theirs(key)

(* Fault: these two keys are the member's like any other.                  *)
MemberWins == IF Ours("human_only") # None THEN Listed(member) ELSE Listed(umbrella)

(* _accumulate(): the umbrella's rules, then the member's.                 *)
Accumulated == Listed(umbrella) \union Listed(member)

TheirCurrency == IF Theirs("currency") = None THEN Default ELSE Theirs("currency")
OurCurrency == IF Ours("currency") = None THEN TheirCurrency ELSE Ours("currency")

BothCeilings == Theirs("spend_ceiling") # None /\ Ours("spend_ceiling") # None

(* The smaller, where both set one; what Policy then reads.                *)
Ceiling ==
    IF BothCeilings /\ Theirs("spend_ceiling") <= Ours("spend_ceiling")
    THEN Theirs("spend_ceiling") ELSE Wins("spend_ceiling")

Currency == IF Wins("currency") = None THEN Default ELSE Wins("currency")

(* What would take away what the umbrella sets, or cannot be compared.     *)
MergeRefused ==
    \/ IsTable(umbrella) /\ Table(member) = Broken
    \/ Theirs("human_only") \in RuleLists /\ Ours("human_only") = Broken
    \/ BothCeilings /\ (Broken \in {Theirs("spend_ceiling"), Ours("spend_ceiling")}
                        \/ TheirCurrency # OurCurrency)
    \/ /\ umbrella.min_core \notin {None, 0} /\ member.min_core \notin {None, 0}
       /\ Broken \in {umbrella.min_core, member.min_core}

(* _higher_floor(): an empty one of the member's lowers nothing.           *)
Floor ==
    IF umbrella.min_core \in {None, 0} THEN
        IF member.min_core # None THEN member.min_core ELSE umbrella.min_core
    ELSE IF member.min_core \in {None, 0} \/ umbrella.min_core >= member.min_core
    THEN umbrella.min_core ELSE member.min_core

(* merge(), and the loader on what comes of it.                            *)
Merged ==
    IF MergeRefused \/ Wins("spend_ceiling") = Broken THEN Refused
    ELSE [human_only |-> Accumulated, spend_ceiling |-> Ceiling,
          currency |-> Currency, min_core |-> Floor]

(* No umbrella was seen: the member as it is.                              *)
Alone ==
    IF Ours("spend_ceiling") = Broken THEN Refused
    ELSE [human_only |-> Listed(member), spend_ceiling |-> Ours("spend_ceiling"),
          currency |-> IF Ours("currency") = None THEN Default ELSE Ours("currency"),
          min_core |-> member.min_core]

Load ==
    /\ loaded = None
    /\ loaded' = CASE umbrella.file = "whole" -> Merged
                   [] umbrella.file = "garbled" -> Refused
                   [] umbrella.file = "unknown" -> Alone
    /\ UNCHANGED <<umbrella, member>>

InheritNext == Load

InheritSpec == InheritInit /\ [][InheritNext]_inheritVars

-----------------------------------------------------------------------------
Inherited == loaded \notin {None, Refused} /\ umbrella.file # "unknown"

(* A member that loads below an umbrella is bound by every rule of the     *)
(* umbrella's, by no higher ceiling and no lower floor, whatever of its own*)
(* it leaves out or sets to nonsense (inherit.py: the keys where a member  *)
(* winning "would let it weaken a safety rule by omission or override").   *)
(* Ceilings are compared as numbers: a member that sets a currency and no  *)
(* ceiling has its umbrella's number in its own.                           *)
MemberNeverLoosens ==
    Inherited =>
        /\ Listed(umbrella) \subseteq loaded.human_only
        /\ Theirs("spend_ceiling") \in Amounts =>
              loaded.spend_ceiling \in Amounts /\ loaded.spend_ceiling <= Theirs("spend_ceiling")
        /\ umbrella.min_core \in Releases =>
              loaded.min_core \in Releases /\ loaded.min_core >= umbrella.min_core
=============================================================================
