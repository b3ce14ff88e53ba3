----------------------------- MODULE ClaimLease -----------------------------
(***************************************************************************)
(* What the claim paths promise of an entry, whatever interleaving of      *)
(* sessions gets it there: it is held by one lease at a time, an entry with*)
(* a verdict is held by nobody, and a verdict that stops standing is kept. *)
(***************************************************************************)
CONSTANTS
    Entries,
    Leases,     \* every claim a session can hold
    Verdicts,   \* every verdict an entry can be closed with
    Nobody,
    Open

VARIABLES
    holder,     \* the lease each entry is under
    settled,    \* the verdict that stands
    withdrawn   \* the verdicts that stood once

vars == <<holder, settled, withdrawn>>

Init ==
    /\ holder \in [Entries -> Leases \union {Nobody}]
    /\ settled = [e \in Entries |-> Open]
    /\ withdrawn = [e \in Entries |-> {}]

Take(e) ==
    /\ holder[e] = Nobody
    /\ settled[e] = Open
    /\ \E l \in Leases : holder' = [holder EXCEPT ![e] = l]
    /\ UNCHANGED <<settled, withdrawn>>

HandBack(e) ==
    /\ holder[e] # Nobody
    /\ holder' = [holder EXCEPT ![e] = Nobody]
    /\ UNCHANGED <<settled, withdrawn>>

Settle(e) ==
    /\ settled[e] = Open
    /\ \E v \in Verdicts : settled' = [settled EXCEPT ![e] = v]
    /\ holder' = [holder EXCEPT ![e] = Nobody]
    /\ UNCHANGED withdrawn

Reopen(e) ==
    /\ settled[e] # Open
    /\ withdrawn' = [withdrawn EXCEPT ![e] = @ \union {settled[e]}]
    /\ settled' = [settled EXCEPT ![e] = Open]
    /\ UNCHANGED holder

Next == \E e \in Entries : Take(e) \/ HandBack(e) \/ Settle(e) \/ Reopen(e)

Spec == Init /\ [][Next]_vars
=============================================================================
