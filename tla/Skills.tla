------------------------------- MODULE Skills -------------------------------
(***************************************************************************)
(* Skills: prose distilled from closed entries, and the check that it has  *)
(* not outlived them (skills.py, driver/loop.py distil).                   *)
(*                                                                         *)
(* A distillation reads the entries, asks a librarian for minutes, and     *)
(* stamps and writes what comes back, while verdicts are withdrawn and     *)
(* relabelled.  The loop's and `ar skill distil` may run at once.  What a  *)
(* verdict says is how often it has been withdrawn or relabelled; wording, *)
(* names and lengths are left out.  Two moves no check finds: one while the  *)
(* librarian is asked, which is older than the stamp, and the correction   *)
(* of a closure's own text (Entry.correct_result_text).                    *)
(***************************************************************************)
EXTENDS Naturals

CONSTANTS
    Entries, Names, Distillers,
    MaxClock,   \* bound: clock, in the seconds a timestamp shows
    MaxMoves,   \* bound: verdicts withdrawn or relabelled, by entry
    Missing, Torn, Idle

VARIABLES
    clock,
    entry,      \* by entry: [open, moves, moved], moved 0 or when it last was
    skill,      \* by name: [cites, stood, at], Missing or Torn
    distil      \* by distiller: [at, seen, name, draft], or Idle

skillVars == <<clock, entry, skill, distil>>

Times == 1..MaxClock
Boards == [Entries -> [open : BOOLEAN, moves : 0..MaxMoves, moved : {0} \union Times]]
Versions(cites) == [cites -> 0..MaxMoves]

(* On disk there are the citations and the stamp; stood is a ghost, what    *)
(* stood when it was stamped.                                              *)
Skill == UNION {[cites : {c}, stood : Versions(c), at : Times] :
                    c \in (SUBSET Entries) \ {{}}}

SkillsTypeOK ==
    /\ clock \in Times /\ entry \in Boards
    /\ \A n \in Names : skill[n] \in {Missing, Torn} \/ skill[n] \in Skill
    /\ \A d \in Distillers : distil[d] # Idle =>
          /\ distil[d].at \in {"ask", "put"} /\ distil[d].seen \in Boards
          /\ IF distil[d].at = "ask" THEN distil[d].name = Missing /\ distil[d].draft = Missing
             ELSE distil[d].name \in Names /\ distil[d].draft \in Skill

SkillsInit ==
    /\ clock = 1 /\ entry \in [Entries -> [open : BOOLEAN, moves : {0}, moved : {0}]]
    /\ skill = [n \in Names |-> Missing] /\ distil = [d \in Distillers |-> Idle]

-----------------------------------------------------------------------------
(* The record: `ar close`, `--reopen` (result-archived), `--relabel`.      *)
Close(e) ==
    /\ entry[e].open /\ entry' = [entry EXCEPT ![e].open = FALSE]
    /\ UNCHANGED <<clock, skill, distil>>

Move(e, open) ==
    /\ ~entry[e].open /\ entry[e].moves < MaxMoves
    /\ entry' = [entry EXCEPT ![e] = [open |-> open, moves |-> @.moves + 1, moved |-> clock]]
    /\ UNCHANGED <<clock, skill, distil>>

Tick == clock < MaxClock /\ clock' = clock + 1 /\ UNCHANGED <<entry, skill, distil>>

-----------------------------------------------------------------------------
(* Fault: an event in the second of the distillation is before it.         *)
MovedAfter(board, e, when) == board[e].moved > when

(* _moved_since(): archived or relabelled at or after the stamp.           *)
MovedSince(board, e, when) == board[e].moved >= when

(* check(), as far as citations go: terminal, and unmoved.                 *)
Refused(s, board) ==
    \E e \in s.cites : board[e].open \/ MovedSince(board, e, s.at)

OnDisk(n) == skill[n] \notin {Missing, Torn}

(* stale_report() and undistilled(): the librarian's two lists.            *)
Stale == {n \in Names : OnDisk(n) /\ \E e \in skill[n].cites : MovedSince(entry, e, skill[n].at)}

Undistilled == {e \in Entries : ~entry[e].open /\ \A n \in Names : OnDisk(n) => e \notin skill[n].cites}

-----------------------------------------------------------------------------
(* distil(): the entries are read once, and the librarian asked.           *)
Brief(d) ==
    /\ distil[d] = Idle /\ ~(Stale = {} /\ Undistilled = {})
    /\ distil' = [distil EXCEPT ![d] =
           [at |-> "ask", seen |-> entry, name |-> Missing, draft |-> Missing]]
    /\ UNCHANGED <<clock, entry, skill>>

Drafted(cites) ==
    [cites |-> cites, stood |-> [e \in cites |-> entry[e].moves], at |-> clock]

(* write(): stamped now, and checked against the entries read before the   *)
(* question.  What that refuses is noted and left out.                     *)
Draft(d, n, cites) ==
    /\ distil[d] # Idle /\ distil[d].at = "ask" /\ cites # {}
    /\ ~Refused(Drafted(cites), distil[d].seen)
    /\ distil' = [distil EXCEPT ![d] =
           [@ EXCEPT !.at = "put", !.name = n, !.draft = Drafted(cites)]]
    /\ UNCHANGED <<clock, entry, skill>>

Put(d) ==
    /\ distil[d] # Idle /\ distil[d].at = "put"
    /\ skill' = [skill EXCEPT ![distil[d].name] = distil[d].draft]
    /\ distil' = [distil EXCEPT ![d] = [@ EXCEPT !.at = "ask", !.name = Missing, !.draft = Missing]]
    /\ UNCHANGED <<clock, entry>>

(* The end of the phase, or a death; in the middle of a write it leaves a  *)
(* file that does not parse.                                               *)
Leave(d) ==
    /\ distil[d] # Idle /\ distil' = [distil EXCEPT ![d] = Idle]
    /\ skill' \in {skill} \union
           IF distil[d].at = "put" THEN {[skill EXCEPT ![distil[d].name] = Torn]} ELSE {}
    /\ UNCHANGED <<clock, entry>>

(* retire(), by the librarian's word or `ar skill retire`.                 *)
Retire(n) ==
    /\ skill[n] # Missing /\ skill' = [skill EXCEPT ![n] = Missing]
    /\ UNCHANGED <<clock, entry, distil>>

SkillsNext ==
    \/ Tick
    \/ \E e \in Entries : Close(e) \/ \E open \in BOOLEAN : Move(e, open)
    \/ \E d \in Distillers : \/ Brief(d) \/ Put(d) \/ Leave(d)
                             \/ \E n \in Names, cites \in SUBSET Entries : Draft(d, n, cites)
    \/ \E n \in Names : Retire(n)

SkillsSpec == SkillsInit /\ [][SkillsNext]_skillVars

-----------------------------------------------------------------------------
(* A skill `ar skill check` passes rests on settled verdicts, none of them *)
(* withdrawn or relabelled since it was stamped: whether the move came in  *)
(* the same second, or between the stamp and the file (skills.py           *)
(* _moved_since, check, write).                                            *)
MovedIsTold ==
    \A n \in Names : OnDisk(n) /\ ~Refused(skill[n], entry) =>
        \A e \in skill[n].cites : ~entry[e].open /\ entry[e].moves = skill[n].stood[e]
=============================================================================
