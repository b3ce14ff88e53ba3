-------------------------- MODULE CoordinatorProofs --------------------------
(* Proofs about Coordinator and about Meters, on their instances in the    *)
(* row MCToolkit runs: for any number of coordinators and cards, any       *)
(* fan-out and any pool; for any attempts, measurements and iterations.    *)
(* The last part takes the groups together: what MCToolkit checks on small *)
(* instances holds for every value of the constants.                       *)
EXTENDS MCToolkit, EvidenceProofs, RecordProofs, DecisionProofs, Sequences,
        SequenceTheorems, FiniteSetTheorems, WellFoundedInduction, TLAPS

(* The row, by the names of the modules.                                   *)
native == x1
claim == x2
aged == x3
closed == x4
stamp == x5
pc == x6
n == x7
short == x8
held == x9
reply == x10
verdict == x11
spawns == x12
record == x13

USE DEF native, claim, aged, closed, stamp, pc, n, short, held, reply, verdict,
    spawns, record

Shapes ==
    /\ DOMAIN pc = Coords /\ DOMAIN held = Coords /\ DOMAIN reply = Coords
    /\ DOMAIN verdict = Coords /\ DOMAIN short = Coords /\ DOMAIN record = 1..MaxN

(* A closed card carries no claim, and no claim is younger than the clock. *)
BoardRight ==
    /\ claim \in [Cards -> {None} \union Claims]
    /\ closed \in [Cards -> {None} \union Coord!Terminal]
    /\ stamp \in Nat
    /\ \A e \in Cards : claim[e] # None => claim[e].at <= stamp /\ closed[e] = None

HeldOf(e, at) == e \in Cards /\ at \in Nat /\ at <= stamp

(* The card is off the coordinator's hands.                                *)
GivenBack(c, e) == verdict[c][e] = "assigned" \/ ~Coord!SameClaim(c, e)

HeldDated(c) == \A e \in DOMAIN held[c] : HeldOf(e, held[c][e])

Undispatched(c) ==
    pc[c] \in {"orient", "generate", "rank", "scout"} =>
        DOMAIN held[c] = {} /\ DOMAIN reply[c] = {} /\ DOMAIN verdict[c] = {}

(* While cards are dispatched: each is an assignment, or a worker's.       *)
Dispatched(c) ==
    pc[c] = "dispatch" =>
        /\ \A e \in DOMAIN held[c] :
              /\ e \notin short[c]
              /\ native => e \in DOMAIN verdict[c] /\ verdict[c][e] = "assigned"
              /\ ~native => e \in DOMAIN reply[c] /\ e \notin DOMAIN verdict[c]
        /\ DOMAIN reply[c] \subseteq DOMAIN held[c]
        /\ \A e \in DOMAIN verdict[c] :
              e \notin short[c] /\ (verdict[c][e] = "assigned" => native)

Collected(c) ==
    pc[c] = "work" =>
        /\ DOMAIN reply[c] = DOMAIN held[c]
        /\ \A e \in DOMAIN held[c] : e \in DOMAIN verdict[c] => GivenBack(c, e)

Cleared(c) ==
    pc[c] \in {"curate", "distil", "qc", "record"} =>
        \A e \in DOMAIN held[c] : e \in DOMAIN verdict[c] /\ GivenBack(c, e)

Coordinated(c) ==
    HeldDated(c) /\ Undispatched(c) /\ Dispatched(c) /\ Collected(c) /\ Cleared(c)

RecordRight(i) ==
    record[i] # None =>
        /\ record[i].by \in Coords
        /\ \A e \in DOMAIN record[i].held :
              /\ HeldOf(e, record[i].held[e])
              /\ record[i].verdict[e] # "assigned" =>
                    claim[e] # [by |-> record[i].by, at |-> record[i].held[e]]

CoordInv ==
    /\ Shapes /\ BoardRight
    /\ \A c \in Coords : Coordinated(c)
    /\ \A i \in 1..MaxN : RecordRight(i)

(* A claim that is gone never comes back: a new one has a later stamp.     *)
GoneForGood ==
    /\ stamp <= stamp'
    /\ \A e \in Cards, c \in Coords, at \in 0..stamp :
          claim[e] # [by |-> c, at |-> at] => claim'[e] # [by |-> c, at |-> at]

(* What a step does to the board.                                          *)
BoardKept == UNCHANGED <<claim, closed, stamp>>

BoardMoves == BoardRight' /\ Coord!VerdictStands /\ GoneForGood

(* Coordinator c is not the one who moves.                                 *)
Waits(c) ==
    /\ pc'[c] = pc[c] /\ held'[c] = held[c] /\ reply'[c] = reply[c]
    /\ verdict'[c] = verdict[c] /\ short'[c] = short[c]

LEMMA ClaimsAreClaims ==
  ASSUME NoneIsNone, NEW by \in Coords \union {Coord!Person}, NEW at \in Nat
  PROVE  [by |-> by, at |-> at] \in Claims /\ [by |-> by, at |-> at] # None
BY DEF NoneIsNone, Claims

(* One field of one coordinator's table is written.                        *)
LEMMA SetFields ==
  ASSUME NEW f, NEW c \in Coords, NEW e, NEW v, DOMAIN f = Coords
  PROVE  /\ DOMAIN Coord!Set(f, c, e, v) = Coords
         /\ \A d \in Coords : d # c => Coord!Set(f, c, e, v)[d] = f[d]
         /\ DOMAIN Coord!Set(f, c, e, v)[c] = DOMAIN f[c] \union {e}
         /\ Coord!Set(f, c, e, v)[c][e] = v
         /\ \A x \in DOMAIN f[c] : x # e => Coord!Set(f, c, e, v)[c][x] = f[c][x]
<1>1. PICK g : g = Coord!Put(f[c], e, v)
  OBVIOUS
<1>2. Coord!Set(f, c, e, v) = [f EXCEPT ![c] = g]
  BY <1>1 DEF Coord!Set
<1>3. /\ DOMAIN g = DOMAIN f[c] \union {e} /\ g[e] = v
      /\ \A x \in DOMAIN f[c] : x # e => g[x] = f[c][x]
  BY <1>1 DEF Coord!Put
<1>4. QED
  BY <1>2, <1>3

LEMMA KeptMoves == ASSUME BoardRight, BoardKept PROVE BoardMoves
BY DEF BoardMoves, BoardKept, BoardRight, Coord!VerdictStands, GoneForGood

(* Claims are dropped, and their cards closed or not.                      *)
LEMMA DroppedMoves ==
  ASSUME NoneIsNone, BoardRight, NEW S \in SUBSET Cards, stamp' = stamp,
         claim' = [e \in Cards |-> IF e \in S THEN None ELSE claim[e]],
         closed' \in [Cards -> {None} \union Coord!Terminal],
         \A e \in Cards : closed'[e] # closed[e] => e \in S /\ claim[e] # None
  PROVE  BoardMoves
<1>1. BoardRight'
  BY DEF BoardRight
<1>2. Coord!VerdictStands
  BY DEF BoardRight, Coord!VerdictStands
<1>3. ASSUME NEW e \in Cards, NEW c \in Coords, NEW at \in 0..stamp,
             claim[e] # [by |-> c, at |-> at]
      PROVE  claim'[e] # [by |-> c, at |-> at]
  <2>1. [by |-> c, at |-> at] # None
    BY ClaimsAreClaims DEF BoardRight
  <2>2. QED
    BY <1>3, <2>1
<1>4. QED
  BY <1>1, <1>2, <1>3 DEF BoardMoves, GoneForGood, BoardRight

(* A free card is claimed, at a time nobody has seen.                      *)
LEMMA ClaimedMoves ==
  ASSUME NoneIsNone, BoardRight, NEW e \in Cards, NEW by \in Coords \union {Coord!Person},
         Coord!Free(e),
         stamp' = stamp + 1, claim' = [claim EXCEPT ![e] = [by |-> by, at |-> stamp + 1]],
         closed' = closed
  PROVE  BoardMoves
<1>1. [by |-> by, at |-> stamp + 1] \in Claims
  BY DEF Claims, BoardRight
<1> DEFINE k == [by |-> by, at |-> stamp + 1]
<1>9. /\ k \in Claims /\ k.at = stamp + 1 /\ claim' = [claim EXCEPT ![e] = k]
      /\ \A c \in Coords, at \in 0..stamp : k # [by |-> c, at |-> at]
  BY <1>1 DEF BoardRight
<1> HIDE DEF k
<1>2. BoardRight'
  BY <1>9 DEF BoardRight, Coord!Free, Claims
<1>3. Coord!VerdictStands
  BY DEF Coord!VerdictStands
<1>4. GoneForGood
  BY <1>9 DEF GoneForGood, BoardRight
<1>5. QED
  BY <1>2, <1>3, <1>4 DEF BoardMoves

(* Who waits keeps what the invariant says of it.                          *)
LEMMA WaitingKeeps ==
  ASSUME GoneForGood, BoardRight, BoardRight', native' = native, NEW c \in Coords,
      Coordinated(c), Waits(c)
  PROVE  Coordinated(c)'
<1>1. HeldDated(c)' /\ Undispatched(c)' /\ Dispatched(c)'
  BY DEF Coordinated, HeldDated, HeldOf, Undispatched, Dispatched, Waits, GoneForGood, BoardRight
<1>2. \A e \in DOMAIN held[c] : GivenBack(c, e) => GivenBack(c, e)'
  BY DEF Coordinated, HeldDated, HeldOf, Waits, GoneForGood, GivenBack, Coord!SameClaim
<1>3. Collected(c)' /\ Cleared(c)'
  BY <1>2 DEF Coordinated, Collected, Cleared, Waits
<1>4. QED
  BY <1>1, <1>3 DEF Coordinated

LEMMA RecordsKeep ==
  ASSUME GoneForGood, BoardRight, BoardRight', NEW i \in 1..MaxN, RecordRight(i),
      record'[i] = record[i]
  PROVE  RecordRight(i)'
BY DEF RecordRight, HeldOf, GoneForGood, BoardRight

(* What is shown of a step of coordinator c, or of somebody else.          *)
Steps(c) ==
    /\ Shapes' /\ BoardMoves /\ native' = native
    /\ \A d \in Coords : d # c => Waits(d)
    /\ Coordinated(c)'
    /\ \A i \in 1..MaxN : RecordRight(i)'

LEMMA BeginIterationKeeps ==
  ASSUME NoneIsNone, CoordInv, NEW c \in Coords, Coord!BeginIteration(c)
  PROVE  Steps(c)
<1>1. BoardMoves /\ BoardRight /\ BoardRight'
  BY KeptMoves DEF CoordInv, Coord!BeginIteration, Coord!KeepCards, BoardKept, BoardMoves
<1>2. Shapes' /\ native' = native /\ \A d \in Coords : d # c => Waits(d)
  BY DEF CoordInv, Shapes, Coord!BeginIteration, Coord!KeepCards, Coord!KeepWork, Coord!Goto, Waits
<1>3. Coordinated(c)'
  BY DEF CoordInv, Shapes, Coord!BeginIteration, Coord!KeepCards, Coord!KeepWork, Coord!Goto,
         Coord!NoCards, Coordinated, HeldOf, HeldDated, Undispatched, Dispatched,
         Collected, Cleared
<1>4. \A i \in 1..MaxN : RecordRight(i)'
  BY <1>1, RecordsKeep DEF CoordInv, Coord!BeginIteration, BoardMoves
<1>5. QED
  BY <1>1, <1>2, <1>3, <1>4 DEF Steps

LEMMA GenerateKeeps ==
  ASSUME NoneIsNone, CoordInv, NEW c \in Coords, Coord!Generate(c)
  PROVE  Steps(c)
<1>1. BoardMoves /\ BoardRight /\ BoardRight'
  BY KeptMoves DEF CoordInv, Coord!Generate, Coord!KeepCards, BoardKept, BoardMoves
<1>2. Shapes' /\ native' = native /\ \A d \in Coords : d # c => Waits(d)
  BY DEF CoordInv, Shapes, Coord!Generate, Coord!KeepCards, Coord!KeepWork, Coord!Goto, Waits
<1>3. Coordinated(c)'
  BY DEF CoordInv, Shapes, Coord!Generate, Coord!KeepCards, Coord!KeepWork, Coord!Goto,
         Coord!NoCards, Coordinated, HeldOf, HeldDated, Undispatched, Dispatched,
         Collected, Cleared, GivenBack, Coord!SameClaim
<1>4. \A i \in 1..MaxN : RecordRight(i)'
  BY <1>1, RecordsKeep DEF CoordInv, Coord!Generate, BoardMoves
<1>5. QED
  BY <1>1, <1>2, <1>3, <1>4 DEF Steps

LEMMA RankCardsKeeps ==
  ASSUME NoneIsNone, CoordInv, NEW c \in Coords, Coord!RankCards(c)
  PROVE  Steps(c)
<1>1. BoardMoves /\ BoardRight /\ BoardRight'
  BY KeptMoves DEF CoordInv, Coord!RankCards, Coord!KeepCards, BoardKept, BoardMoves
<1>2. Shapes' /\ native' = native /\ \A d \in Coords : d # c => Waits(d)
  BY DEF CoordInv, Shapes, Coord!RankCards, Coord!KeepCards, Coord!KeepWork, Coord!Goto, Waits
<1>3. Coordinated(c)'
  BY DEF CoordInv, Shapes, Coord!RankCards, Coord!KeepCards, Coord!KeepWork, Coord!Goto,
         Coord!NoCards, Coordinated, HeldOf, HeldDated, Undispatched, Dispatched,
         Collected, Cleared, GivenBack, Coord!SameClaim
<1>4. \A i \in 1..MaxN : RecordRight(i)'
  BY <1>1, RecordsKeep DEF CoordInv, Coord!RankCards, BoardMoves
<1>5. QED
  BY <1>1, <1>2, <1>3, <1>4 DEF Steps

LEMMA EndDispatchKeeps ==
  ASSUME NoneIsNone, CoordInv, NEW c \in Coords, Coord!EndDispatch(c)
  PROVE  Steps(c)
<1>1. BoardMoves /\ BoardRight /\ BoardRight'
  BY KeptMoves DEF CoordInv, Coord!EndDispatch, Coord!KeepCards, BoardKept, BoardMoves
<1>2. Shapes' /\ native' = native /\ \A d \in Coords : d # c => Waits(d)
  BY DEF CoordInv, Shapes, Coord!EndDispatch, Coord!KeepCards, Coord!KeepWork, Coord!Goto, Waits
<1>3. Coordinated(c)'
  <2>1. /\ Coordinated(c) /\ pc[c] = "dispatch" /\ stamp' = stamp /\ claim' = claim
        /\ held' = held /\ reply' = reply /\ verdict' = verdict
        /\ pc'[c] = (IF \E e \in DOMAIN verdict[c] : verdict[c][e] = "assigned" THEN "record"
                     ELSE IF held[c] = Coord!NoCards THEN "curate" ELSE "work")
    BY DEF CoordInv, Shapes, Coord!EndDispatch, Coord!Goto, Coord!KeepCards
  <2>2. HeldDated(c)' /\ Undispatched(c)' /\ Dispatched(c)'
    BY <2>1 DEF Coordinated, HeldDated, HeldOf, Undispatched, Dispatched
  <2>3. CASE \E e \in DOMAIN verdict[c] : verdict[c][e] = "assigned"
    BY <2>1, <2>2, <2>3 DEF Coordinated, Dispatched, Collected, Cleared, GivenBack
  <2>4. CASE ~(\E e \in DOMAIN verdict[c] : verdict[c][e] = "assigned") /\ held[c] = Coord!NoCards
    BY <2>1, <2>2, <2>4 DEF Coordinated, Collected, Cleared, Coord!NoCards
  <2>5. CASE ~(\E e \in DOMAIN verdict[c] : verdict[c][e] = "assigned") /\ held[c] # Coord!NoCards
    <3>1. pc'[c] = "work"
      BY <2>1, <2>5
    <3>2. \A e \in DOMAIN held[c] : e \in DOMAIN reply[c] /\ e \notin DOMAIN verdict[c]
      BY <2>1, <2>5 DEF Coordinated, Dispatched
    <3>3. DOMAIN reply[c] = DOMAIN held[c]
      BY <2>1, <3>2 DEF Coordinated, Dispatched
    <3>4. QED
      BY <2>1, <2>2, <3>1, <3>2, <3>3 DEF Coordinated, Collected, Cleared
  <2>6. QED
    BY <2>3, <2>4, <2>5
<1>4. \A i \in 1..MaxN : RecordRight(i)'
  BY <1>1, RecordsKeep DEF CoordInv, Coord!EndDispatch, BoardMoves
<1>5. QED
  BY <1>1, <1>2, <1>3, <1>4 DEF Steps

LEMMA EndWorkKeeps ==
  ASSUME NoneIsNone, CoordInv, NEW c \in Coords, Coord!EndWork(c)
  PROVE  Steps(c)
<1>1. BoardMoves /\ BoardRight /\ BoardRight'
  BY KeptMoves DEF CoordInv, Coord!EndWork, Coord!KeepCards, BoardKept, BoardMoves
<1>2. Shapes' /\ native' = native /\ \A d \in Coords : d # c => Waits(d)
  BY DEF CoordInv, Shapes, Coord!EndWork, Coord!KeepCards, Coord!KeepWork, Coord!Goto, Waits
<1>3. Coordinated(c)'
  BY DEF CoordInv, Shapes, Coord!EndWork, Coord!KeepCards, Coord!KeepWork, Coord!Goto,
         Coord!NoCards, Coordinated, HeldOf, HeldDated, Undispatched, Dispatched,
         Collected, Cleared, GivenBack, Coord!SameClaim
<1>4. \A i \in 1..MaxN : RecordRight(i)'
  BY <1>1, RecordsKeep DEF CoordInv, Coord!EndWork, BoardMoves
<1>5. QED
  BY <1>1, <1>2, <1>3, <1>4 DEF Steps

LEMMA CurateKeeps ==
  ASSUME NoneIsNone, CoordInv, NEW c \in Coords, Coord!Curate(c)
  PROVE  Steps(c)
<1>1. BoardMoves /\ BoardRight /\ BoardRight'
  BY KeptMoves DEF CoordInv, Coord!Curate, Coord!KeepCards, BoardKept, BoardMoves
<1>2. Shapes' /\ native' = native /\ \A d \in Coords : d # c => Waits(d)
  BY DEF CoordInv, Shapes, Coord!Curate, Coord!KeepCards, Coord!KeepWork, Coord!Goto, Waits
<1>3. Coordinated(c)'
  BY DEF CoordInv, Shapes, Coord!Curate, Coord!KeepCards, Coord!KeepWork, Coord!Goto,
         Coord!NoCards, Coordinated, HeldOf, HeldDated, Undispatched, Dispatched,
         Collected, Cleared, GivenBack, Coord!SameClaim
<1>4. \A i \in 1..MaxN : RecordRight(i)'
  BY <1>1, RecordsKeep DEF CoordInv, Coord!Curate, BoardMoves
<1>5. QED
  BY <1>1, <1>2, <1>3, <1>4 DEF Steps

LEMMA DistilKeeps ==
  ASSUME NoneIsNone, CoordInv, NEW c \in Coords, Coord!Distil(c)
  PROVE  Steps(c)
<1>1. BoardMoves /\ BoardRight /\ BoardRight'
  BY KeptMoves DEF CoordInv, Coord!Distil, Coord!KeepCards, BoardKept, BoardMoves
<1>2. Shapes' /\ native' = native /\ \A d \in Coords : d # c => Waits(d)
  BY DEF CoordInv, Shapes, Coord!Distil, Coord!KeepCards, Coord!KeepWork, Coord!Goto, Waits
<1>3. Coordinated(c)'
  BY DEF CoordInv, Shapes, Coord!Distil, Coord!KeepCards, Coord!KeepWork, Coord!Goto,
         Coord!NoCards, Coordinated, HeldOf, HeldDated, Undispatched, Dispatched,
         Collected, Cleared, GivenBack, Coord!SameClaim
<1>4. \A i \in 1..MaxN : RecordRight(i)'
  BY <1>1, RecordsKeep DEF CoordInv, Coord!Distil, BoardMoves
<1>5. QED
  BY <1>1, <1>2, <1>3, <1>4 DEF Steps

LEMMA QcKeeps ==
  ASSUME NoneIsNone, CoordInv, NEW c \in Coords, Coord!Qc(c)
  PROVE  Steps(c)
<1>1. BoardMoves /\ BoardRight /\ BoardRight'
  BY KeptMoves DEF CoordInv, Coord!Qc, Coord!KeepCards, BoardKept, BoardMoves
<1>2. Shapes' /\ native' = native /\ \A d \in Coords : d # c => Waits(d)
  BY DEF CoordInv, Shapes, Coord!Qc, Coord!KeepCards, Coord!KeepWork, Coord!Goto, Waits
<1>3. Coordinated(c)'
  BY DEF CoordInv, Shapes, Coord!Qc, Coord!KeepCards, Coord!KeepWork, Coord!Goto,
         Coord!NoCards, Coordinated, HeldOf, HeldDated, Undispatched, Dispatched,
         Collected, Cleared, GivenBack, Coord!SameClaim
<1>4. \A i \in 1..MaxN : RecordRight(i)'
  BY <1>1, RecordsKeep DEF CoordInv, Coord!Qc, BoardMoves
<1>5. QED
  BY <1>1, <1>2, <1>3, <1>4 DEF Steps

LEMMA OutOfBandKeeps ==
  ASSUME NoneIsNone, CoordInv, NEW c \in Coords, Coord!OutOfBand(c)
  PROVE  Steps(c)
<1>1. BoardMoves /\ BoardRight /\ BoardRight'
  BY KeptMoves DEF CoordInv, Coord!OutOfBand, Coord!KeepCards, BoardKept, BoardMoves
<1>2. Shapes' /\ native' = native /\ \A d \in Coords : d # c => Waits(d)
  BY DEF CoordInv, Shapes, Coord!OutOfBand, Coord!KeepCards, Coord!KeepWork, Coord!Goto, Waits
<1>3. Coordinated(c)'
  BY DEF CoordInv, Shapes, Coord!OutOfBand, Coord!KeepCards, Coord!KeepWork, Coord!Goto,
         Coord!NoCards, Coordinated, HeldOf, HeldDated, Undispatched, Dispatched,
         Collected, Cleared
<1>4. \A i \in 1..MaxN : RecordRight(i)'
  BY <1>1, RecordsKeep DEF CoordInv, Coord!OutOfBand, BoardMoves
<1>5. QED
  BY <1>1, <1>2, <1>3, <1>4 DEF Steps

LEMMA ScoutKeeps ==
  ASSUME NoneIsNone, CoordInv, NEW c \in Coords, Coord!Scout(c)
  PROVE  Steps(c)
<1>1. BoardMoves /\ BoardRight /\ BoardRight'
  BY KeptMoves DEF CoordInv, Coord!Scout, Coord!KeepCards, BoardKept, BoardMoves
<1>2. Shapes' /\ native' = native /\ \A d \in Coords : d # c => Waits(d)
  BY DEF CoordInv, Shapes, Coord!Scout, Coord!KeepCards, Coord!KeepWork, Coord!Goto, Waits
<1>3. Coordinated(c)'
  BY DEF CoordInv, Shapes, Coord!Scout, Coord!KeepCards, Coord!KeepWork, Coord!Goto,
         Coord!NoCards, Coordinated, HeldOf, HeldDated, Undispatched, Dispatched,
         Collected, Cleared, GivenBack, Coord!SameClaim
<1>4. \A i \in 1..MaxN : RecordRight(i)'
  BY <1>1, RecordsKeep DEF CoordInv, Coord!Scout, BoardMoves
<1>5. QED
  BY <1>1, <1>2, <1>3, <1>4 DEF Steps

LEMMA CoordDiesKeeps ==
  ASSUME NoneIsNone, CoordInv, NEW c \in Coords, Coord!CoordDies(c)
  PROVE  Steps(c)
<1>1. BoardMoves /\ BoardRight /\ BoardRight'
  BY KeptMoves DEF CoordInv, Coord!CoordDies, Coord!KeepCards, BoardKept, BoardMoves
<1>2. Shapes' /\ native' = native /\ \A d \in Coords : d # c => Waits(d)
  BY DEF CoordInv, Shapes, Coord!CoordDies, Coord!KeepCards, Coord!KeepWork, Coord!Goto, Waits
<1>3. Coordinated(c)'
  BY DEF CoordInv, Shapes, Coord!CoordDies, Coord!KeepCards, Coord!KeepWork, Coord!Goto,
         Coord!NoCards, Coordinated, HeldOf, HeldDated, Undispatched, Dispatched,
         Collected, Cleared, GivenBack, Coord!SameClaim
<1>4. \A i \in 1..MaxN : RecordRight(i)'
  BY <1>1, RecordsKeep DEF CoordInv, Coord!CoordDies, BoardMoves
<1>5. QED
  BY <1>1, <1>2, <1>3, <1>4 DEF Steps

LEMMA OrientKeeps ==
  ASSUME NoneIsNone, CoordInv, NEW c \in Coords, Coord!Orient(c)
  PROVE  Steps(c)
<1> DEFINE S == aged \intersect Cards
<1>1. claim' = [e \in Cards |-> IF e \in S THEN None ELSE claim[e]] /\ closed' = closed /\
      stamp' = stamp
  BY DEF Coord!Orient
<1>2. S \in SUBSET Cards /\ BoardRight /\ closed' \in [Cards -> {None} \union Coord!Terminal]
  BY <1>1 DEF CoordInv, BoardRight
<1> HIDE DEF S
<1>3. BoardMoves /\ BoardRight'
  BY <1>1, <1>2, DroppedMoves DEF BoardMoves
<1>4. Shapes' /\ native' = native /\ \A d \in Coords : d # c => Waits(d)
  BY DEF CoordInv, Shapes, Coord!Orient, Coord!KeepWork, Coord!Goto, Waits
<1>5. Coordinated(c)'
  BY DEF CoordInv, Shapes, Coord!Orient, Coord!KeepWork, Coord!Goto, Coordinated,
         HeldDated, Undispatched, Dispatched, Collected, Cleared
<1>6. \A i \in 1..MaxN : RecordRight(i)'
  BY <1>2, <1>3, RecordsKeep DEF CoordInv, Coord!Orient, BoardMoves
<1>7. QED
  BY <1>3, <1>4, <1>5, <1>6 DEF Steps

(* The record takes over what the coordinator holds, all of it given back. *)
LEMMA RecordKeeps ==
  ASSUME NoneIsNone, CoordInv, NEW c \in Coords, Coord!Record(c)
  PROVE  Steps(c)
<1>1. BoardMoves /\ BoardRight /\ BoardRight'
  BY KeptMoves DEF CoordInv, Coord!Record, Coord!KeepCards, BoardKept, BoardMoves
<1>2. Shapes' /\ native' = native /\ \A d \in Coords : d # c => Waits(d)
  BY DEF CoordInv, Shapes, Coord!Record, Coord!KeepCards, Coord!KeepWork, Coord!Goto, Waits
<1>3. Coordinated(c)'
  BY DEF CoordInv, Shapes, Coord!Record, Coord!KeepCards, Coord!KeepWork, Coord!Goto,
         Coordinated, HeldOf, HeldDated, Undispatched, Dispatched, Collected, Cleared
<1>4. ASSUME NEW i \in 1..MaxN PROVE RecordRight(i)'
  <2>1. CASE i # n[c]
    BY <1>1, <2>1, RecordsKeep DEF CoordInv, Coord!Record, BoardMoves
  <2>2. CASE i = n[c]
    <3>1. record'[i] = [by |-> c, verdict |-> verdict[c], held |-> held[c]]
      BY <2>2 DEF Coord!Record, CoordInv, Shapes
    <3>2. \A e \in DOMAIN held[c] : HeldOf(e, held[c][e]) /\ GivenBack(c, e)
      BY DEF Coord!Record, CoordInv, Coordinated, HeldDated, Cleared
    <3>3. UNCHANGED <<claim, stamp>>
      BY DEF Coord!Record, Coord!KeepCards
    <3>4. QED
      BY <3>1, <3>2, <3>3 DEF RecordRight, HeldOf, GivenBack, Coord!SameClaim
  <2>3. QED
    BY <2>1, <2>2
<1>5. QED
  BY <1>1, <1>2, <1>3, <1>4 DEF Steps

LEMMA BlockCardKeeps ==
  ASSUME NoneIsNone, CoordInv, NEW c \in Coords, NEW e \in Cards, Coord!BlockCard(c, e)
  PROVE  Steps(c)
<1>1. BoardMoves /\ BoardRight /\ BoardRight'
  BY KeptMoves DEF CoordInv, Coord!BlockCard, Coord!KeepCards, BoardKept, BoardMoves
<1>2. /\ DOMAIN verdict' = Coords /\ \A d \in Coords : d # c => verdict'[d] = verdict[d]
      /\ DOMAIN verdict'[c] = DOMAIN verdict[c] \union {e} /\ verdict'[c][e] = "blocked"
      /\ \A x \in DOMAIN verdict[c] : x # e => verdict'[c][x] = verdict[c][x]
  BY SetFields DEF CoordInv, Shapes, Coord!BlockCard
<1>3. Shapes' /\ native' = native /\ \A d \in Coords : d # c => Waits(d)
  BY <1>2
     DEF CoordInv, Shapes, Coord!BlockCard, Coord!Taken, Coord!Goto, Coord!KeepCards,
         Coord!KeepWork, Coord!KeepRest, Waits
<1>4. Coordinated(c)'
  BY <1>1, <1>2
     DEF CoordInv, Shapes, Coord!BlockCard, Coord!Shortlisted, Coord!Taken, Coord!Answered,
         Coord!Working, Coord!Goto, Coord!KeepCards, Coord!KeepWork, Coord!KeepRest,
         Coordinated, HeldOf, BoardMoves, GoneForGood, BoardRight, HeldDated,
         Undispatched, Dispatched, Collected, Cleared, GivenBack, Coord!SameClaim
<1>5. \A i \in 1..MaxN : RecordRight(i)'
  BY <1>1, RecordsKeep DEF CoordInv, Coord!BlockCard, Coord!KeepRest, BoardMoves
<1>6. QED
  BY <1>1, <1>3, <1>4, <1>5 DEF Steps

LEMMA PassOverKeeps ==
  ASSUME NoneIsNone, CoordInv, NEW c \in Coords, NEW e \in Cards, Coord!PassOver(c, e)
  PROVE  Steps(c)
<1>1. BoardMoves /\ BoardRight /\ BoardRight'
  BY KeptMoves DEF CoordInv, Coord!PassOver, Coord!KeepCards, BoardKept, BoardMoves
<1>2. Shapes' /\ native' = native /\ \A d \in Coords : d # c => Waits(d)
  BY DEF CoordInv, Shapes, Coord!PassOver, Coord!Taken, Coord!Goto, Coord!KeepCards,
         Coord!KeepWork, Coord!KeepRest, Waits
<1>3. Coordinated(c)'
  BY <1>1
     DEF CoordInv, Shapes, Coord!PassOver, Coord!Shortlisted, Coord!Taken, Coord!Answered,
         Coord!Working, Coord!Goto, Coord!KeepCards, Coord!KeepWork, Coord!KeepRest,
         Coordinated, HeldOf, BoardMoves, GoneForGood, BoardRight, HeldDated,
         Undispatched, Dispatched, Collected, Cleared, GivenBack, Coord!SameClaim
<1>4. \A i \in 1..MaxN : RecordRight(i)'
  BY <1>1, RecordsKeep DEF CoordInv, Coord!PassOver, Coord!KeepRest, BoardMoves
<1>5. QED
  BY <1>1, <1>2, <1>3, <1>4 DEF Steps

LEMMA WorkerAnswersKeeps ==
  ASSUME NoneIsNone, CoordInv, NEW c \in Coords, NEW e \in Cards, Coord!WorkerAnswers(c, e)
  PROVE  Steps(c)
<1>1. BoardMoves /\ BoardRight /\ BoardRight'
  BY KeptMoves DEF CoordInv, Coord!WorkerAnswers, Coord!KeepCards, BoardKept, BoardMoves
<1>2. PICK a \in Coord!Answers : reply' = Coord!Set(reply, c, e, a)
  BY DEF Coord!WorkerAnswers
<1>3. /\ DOMAIN reply' = Coords /\ \A d \in Coords : d # c => reply'[d] = reply[d]
      /\ DOMAIN reply'[c] = DOMAIN reply[c] \union {e} /\ reply'[c][e] = a
      /\ \A x \in DOMAIN reply[c] : x # e => reply'[c][x] = reply[c][x]
  BY <1>2, SetFields DEF CoordInv, Shapes
<1>4. Shapes' /\ native' = native /\ \A d \in Coords : d # c => Waits(d)
  BY <1>2, <1>3
     DEF CoordInv, Shapes, Coord!WorkerAnswers, Coord!Taken, Coord!Goto, Coord!KeepCards,
         Coord!KeepWork, Coord!KeepRest, Waits
<1>5. Coordinated(c)'
  BY <1>1, <1>2, <1>3
     DEF CoordInv, Shapes, Coord!WorkerAnswers, Coord!Shortlisted, Coord!Taken,
         Coord!Answered, Coord!Working, Coord!Goto, Coord!KeepCards, Coord!KeepWork,
         Coord!KeepRest, Coordinated, HeldOf, BoardMoves, GoneForGood, BoardRight,
         HeldDated, Undispatched, Dispatched, Collected, Cleared, GivenBack,
         Coord!SameClaim
<1>6. \A i \in 1..MaxN : RecordRight(i)'
  BY <1>1, RecordsKeep DEF CoordInv, Coord!WorkerAnswers, Coord!KeepRest, BoardMoves
<1>7. QED
  BY <1>1, <1>4, <1>5, <1>6 DEF Steps

LEMMA ClaimChangedKeeps ==
  ASSUME NoneIsNone, CoordInv, NEW c \in Coords, NEW e \in Cards, Coord!ClaimChanged(c, e)
  PROVE  Steps(c)
<1>1. BoardMoves /\ BoardRight /\ BoardRight'
  BY KeptMoves DEF CoordInv, Coord!ClaimChanged, Coord!KeepCards, BoardKept, BoardMoves
<1>2. Shapes' /\ native' = native /\ \A d \in Coords : d # c => Waits(d)
  BY DEF CoordInv, Shapes, Coord!ClaimChanged, Coord!Taken, Coord!Goto, Coord!KeepCards,
         Coord!KeepWork, Coord!KeepRest, Waits
<1>3. Coordinated(c)'
  BY <1>1
     DEF CoordInv, Shapes, Coord!ClaimChanged, Coord!Shortlisted, Coord!Taken, Coord!Answered,
         Coord!Working, Coord!Goto, Coord!KeepCards, Coord!KeepWork, Coord!KeepRest,
         Coordinated, HeldOf, BoardMoves, GoneForGood, BoardRight, HeldDated,
         Undispatched, Dispatched, Collected, Cleared, GivenBack, Coord!SameClaim
<1>4. \A i \in 1..MaxN : RecordRight(i)'
  BY <1>1, RecordsKeep DEF CoordInv, Coord!ClaimChanged, Coord!KeepRest, BoardMoves
<1>5. QED
  BY <1>1, <1>2, <1>3, <1>4 DEF Steps

LEMMA DispatchCardKeeps ==
  ASSUME NoneIsNone, CoordInv, NEW c \in Coords, NEW e \in Cards, Coord!DispatchCard(c, e)
  PROVE  Steps(c)
<1>1. BoardMoves /\ BoardRight /\ BoardRight'
  BY ClaimedMoves DEF CoordInv, Coord!DispatchCard, BoardMoves
<1>2. /\ DOMAIN held' = Coords /\ \A d \in Coords : d # c => held'[d] = held[d]
      /\ DOMAIN held'[c] = DOMAIN held[c] \union {e} /\ held'[c][e] = stamp'
      /\ \A x \in DOMAIN held[c] : x # e => held'[c][x] = held[c][x]
  BY SetFields DEF CoordInv, Shapes, Coord!DispatchCard
<1>3. Shapes' /\ native' = native /\ \A d \in Coords : d # c => Waits(d)
  BY <1>2, SetFields
     DEF CoordInv, Shapes, Coord!DispatchCard, Coord!Taken, Coord!Goto, Coord!KeepCards,
         Coord!KeepWork, Coord!KeepRest, Waits
<1>4. Coordinated(c)'
  <2>1. /\ pc'[c] = "dispatch" /\ pc[c] = "dispatch" /\ e \in short[c] /\ short'[c] = short[c] \ {e}
        /\ stamp' = stamp + 1 /\ stamp \in Nat /\ Coordinated(c) /\ native' = native
    BY DEF CoordInv, Shapes, Coord!DispatchCard, Coord!Shortlisted, Coord!Taken, BoardRight
  <2>2. HeldDated(c)' /\ Undispatched(c)' /\ Collected(c)' /\ Cleared(c)'
    BY <2>1, <1>2 DEF Coordinated, HeldDated, Undispatched, Dispatched, Collected, Cleared, HeldOf
  <2>3. CASE native
    <3>1. /\ DOMAIN verdict'[c] = DOMAIN verdict[c] \union {e} /\ verdict'[c][e] = "assigned"
          /\ \A x \in DOMAIN verdict[c] : x # e => verdict'[c][x] = verdict[c][x]
          /\ reply' = reply
      BY <2>3, SetFields DEF Coord!DispatchCard, CoordInv, Shapes
    <3>2. QED
      BY <2>1, <2>2, <2>3, <3>1, <1>2 DEF Coordinated, Dispatched
  <2>4. CASE ~native
    <3>1. DOMAIN reply'[c] = DOMAIN reply[c] \union {e} /\ verdict' = verdict
      BY <2>4, SetFields DEF Coord!DispatchCard, CoordInv, Shapes
    <3>2. QED
      BY <2>1, <2>2, <2>4, <3>1, <1>2 DEF Coordinated, Dispatched
  <2>5. QED
    BY <2>3, <2>4
<1>5. \A i \in 1..MaxN : RecordRight(i)'
  BY <1>1, RecordsKeep DEF CoordInv, Coord!DispatchCard, Coord!KeepRest, BoardMoves
<1>6. QED
  BY <1>1, <1>3, <1>4, <1>5 DEF Steps

LEMMA WorkerClosesKeeps ==
  ASSUME NoneIsNone, CoordInv, NEW c \in Coords, NEW e \in Cards, Coord!WorkerCloses(c, e)
  PROVE  Steps(c)
<1>1. BoardMoves /\ BoardRight /\ BoardRight'
  <2> DEFINE S == {e}
  <2>1. /\ BoardRight /\ S \in SUBSET Cards /\ stamp' = stamp
        /\ claim' = [x \in Cards |-> IF x \in S THEN None ELSE claim[x]]
    BY DEF CoordInv, BoardRight, Coord!WorkerCloses, Coord!ReleaseOwn, Coord!KeepRest
  <2>2. /\ closed' \in [Cards -> {None} \union Coord!Terminal]
        /\ \A x \in Cards : closed'[x] # closed[x] => x \in S /\ claim[x] # None
    BY DEF CoordInv, BoardRight, Coord!WorkerCloses, NoneIsNone, Claims, Coord!Working,
           Coordinated, HeldDated, HeldOf, Collected
  <2> HIDE DEF S
  <2>3. QED
    BY <2>1, <2>2, DroppedMoves DEF BoardMoves
<1>2. /\ DOMAIN reply' = Coords /\ \A d \in Coords : d # c => reply'[d] = reply[d]
      /\ DOMAIN reply'[c] = DOMAIN reply[c] \union {e} /\ reply'[c][e] = Coord!Own
      /\ \A x \in DOMAIN reply[c] : x # e => reply'[c][x] = reply[c][x]
  BY SetFields DEF CoordInv, Shapes, Coord!WorkerCloses
<1>3. Shapes' /\ native' = native /\ \A d \in Coords : d # c => Waits(d)
  BY <1>2
     DEF CoordInv, Shapes, Coord!WorkerCloses, Coord!Taken, Coord!Goto, Coord!KeepCards,
         Coord!KeepWork, Coord!KeepRest, Waits
<1>4. Coordinated(c)'
  <2>1. /\ pc'[c] = "work" /\ pc[c] = "work" /\ e \in DOMAIN reply[c] /\ held' = held
        /\ Coordinated(c)
    BY DEF CoordInv, Coord!WorkerCloses, Coord!Answered, Coord!Working, Coord!KeepRest
  <2>2. claim'[e] # [by |-> c, at |-> held[c][e]]
    <3>1. e \in DOMAIN held[c] /\ held[c][e] \in Nat
      BY <2>1 DEF Coordinated, HeldDated, HeldOf, Collected
    <3>2. None # [by |-> c, at |-> held[c][e]]
      BY <3>1, ClaimsAreClaims
    <3>3. QED
      BY <3>2 DEF Coord!WorkerCloses, Coord!ReleaseOwn, CoordInv, BoardRight
  <2>3. HeldDated(c)' /\ Undispatched(c)' /\ Dispatched(c)' /\ Cleared(c)'
    BY <1>1, <2>1
       DEF Coordinated, HeldDated, Undispatched, Dispatched, Collected, Cleared, HeldOf,
           BoardMoves, GoneForGood, BoardRight
  <2>4. \A x \in DOMAIN held[c] : x \in DOMAIN verdict[c] /\ x # e => GivenBack(c, x)'
    BY <1>1, <2>1, <1>2
       DEF Coord!WorkerCloses, Coordinated, HeldDated, HeldOf, Collected, GivenBack,
           Coord!SameClaim, BoardMoves, GoneForGood
  <2>5. GivenBack(c, e)'
    BY <2>1, <2>2 DEF GivenBack, Coord!SameClaim
  <2>6. DOMAIN reply'[c] = DOMAIN held'[c]
    BY <2>1, <1>2 DEF Coord!WorkerCloses, Coord!KeepRest, Coordinated, Collected
  <2>7. Collected(c)'
    BY <2>1, <2>4, <2>5, <2>6, <1>2 DEF Coord!WorkerCloses, Collected
  <2>8. QED
    BY <2>3, <2>7 DEF Coordinated
<1>5. \A i \in 1..MaxN : RecordRight(i)'
  BY <1>1, RecordsKeep DEF CoordInv, Coord!WorkerCloses, Coord!KeepRest, BoardMoves
<1>6. QED
  BY <1>1, <1>3, <1>4, <1>5 DEF Steps

LEMMA RefuseEvidenceKeeps ==
  ASSUME NoneIsNone, CoordInv, NEW c \in Coords, NEW e \in Cards, Coord!RefuseEvidence(c, e)
  PROVE  Steps(c)
<1>1. BoardMoves /\ BoardRight /\ BoardRight'
  <2> DEFINE S == {x \in {e} : claim[x] # None /\ claim[x].by = c}
  <2>1. /\ BoardRight /\ S \in SUBSET Cards /\ stamp' = stamp
        /\ claim' = [x \in Cards |-> IF x \in S THEN None ELSE claim[x]]
    BY DEF CoordInv, BoardRight, Coord!RefuseEvidence, Coord!ReleaseOwn, Coord!KeepRest
  <2>2. /\ closed' \in [Cards -> {None} \union Coord!Terminal]
        /\ \A x \in Cards : closed'[x] # closed[x] => x \in S /\ claim[x] # None
    BY DEF CoordInv, BoardRight, Coord!RefuseEvidence
  <2> HIDE DEF S
  <2>3. QED
    BY <2>1, <2>2, DroppedMoves DEF BoardMoves
<1>2. /\ DOMAIN verdict' = Coords /\ \A d \in Coords : d # c => verdict'[d] = verdict[d]
      /\ DOMAIN verdict'[c] = DOMAIN verdict[c] \union {e} /\ verdict'[c][e] = "refused"
      /\ \A x \in DOMAIN verdict[c] : x # e => verdict'[c][x] = verdict[c][x]
  BY SetFields DEF CoordInv, Shapes, Coord!RefuseEvidence
<1>3. Shapes' /\ native' = native /\ \A d \in Coords : d # c => Waits(d)
  BY <1>2
     DEF CoordInv, Shapes, Coord!RefuseEvidence, Coord!Taken, Coord!Goto, Coord!KeepCards,
         Coord!KeepWork, Coord!KeepRest, Waits
<1>4. Coordinated(c)'
  <2>1. /\ pc'[c] = "work" /\ pc[c] = "work" /\ e \in DOMAIN reply[c] /\ held' = held
        /\ Coordinated(c)
    BY DEF CoordInv, Coord!RefuseEvidence, Coord!Answered, Coord!Working, Coord!KeepRest
  <2>2. claim'[e] # [by |-> c, at |-> held[c][e]]
    <3>1. e \in DOMAIN held[c] /\ held[c][e] \in Nat
      BY <2>1 DEF Coordinated, HeldDated, HeldOf, Collected
    <3>2. None # [by |-> c, at |-> held[c][e]]
      BY <3>1, ClaimsAreClaims
    <3>3. QED
      BY <3>2 DEF Coord!RefuseEvidence, Coord!ReleaseOwn, CoordInv, BoardRight
  <2>3. HeldDated(c)' /\ Undispatched(c)' /\ Dispatched(c)' /\ Cleared(c)'
    BY <1>1, <2>1
       DEF Coordinated, HeldDated, Undispatched, Dispatched, Collected, Cleared, HeldOf,
           BoardMoves, GoneForGood, BoardRight
  <2>4. \A x \in DOMAIN held[c] : x \in DOMAIN verdict[c] /\ x # e => GivenBack(c, x)'
    BY <1>1, <2>1, <1>2
       DEF Coord!RefuseEvidence, Coordinated, HeldDated, HeldOf, Collected, GivenBack,
           Coord!SameClaim, BoardMoves, GoneForGood
  <2>5. GivenBack(c, e)'
    BY <2>1, <2>2 DEF GivenBack, Coord!SameClaim
  <2>6. DOMAIN reply'[c] = DOMAIN held'[c]
    BY <2>1, <1>2 DEF Coord!RefuseEvidence, Coord!KeepRest, Coordinated, Collected
  <2>7. Collected(c)'
    BY <2>1, <2>4, <2>5, <2>6, <1>2 DEF Coord!RefuseEvidence, Collected
  <2>8. QED
    BY <2>3, <2>7 DEF Coordinated
<1>5. \A i \in 1..MaxN : RecordRight(i)'
  BY <1>1, RecordsKeep DEF CoordInv, Coord!RefuseEvidence, Coord!KeepRest, BoardMoves
<1>6. QED
  BY <1>1, <1>3, <1>4, <1>5 DEF Steps

LEMMA RefuseVerdictKeeps ==
  ASSUME NoneIsNone, CoordInv, NEW c \in Coords, NEW e \in Cards, Coord!RefuseVerdict(c, e)
  PROVE  Steps(c)
<1>1. BoardMoves /\ BoardRight /\ BoardRight'
  <2> DEFINE S == {x \in {e} : claim[x] # None /\ claim[x].by = c}
  <2>1. /\ BoardRight /\ S \in SUBSET Cards /\ stamp' = stamp
        /\ claim' = [x \in Cards |-> IF x \in S THEN None ELSE claim[x]]
    BY DEF CoordInv, BoardRight, Coord!RefuseVerdict, Coord!ReleaseOwn, Coord!KeepRest
  <2>2. /\ closed' \in [Cards -> {None} \union Coord!Terminal]
        /\ \A x \in Cards : closed'[x] # closed[x] => x \in S /\ claim[x] # None
    BY DEF CoordInv, BoardRight, Coord!RefuseVerdict
  <2> HIDE DEF S
  <2>3. QED
    BY <2>1, <2>2, DroppedMoves DEF BoardMoves
<1>2. /\ DOMAIN verdict' = Coords /\ \A d \in Coords : d # c => verdict'[d] = verdict[d]
      /\ DOMAIN verdict'[c] = DOMAIN verdict[c] \union {e} /\ verdict'[c][e] = reply[c][e]
      /\ \A x \in DOMAIN verdict[c] : x # e => verdict'[c][x] = verdict[c][x]
  BY SetFields DEF CoordInv, Shapes, Coord!RefuseVerdict
<1>3. Shapes' /\ native' = native /\ \A d \in Coords : d # c => Waits(d)
  BY <1>2
     DEF CoordInv, Shapes, Coord!RefuseVerdict, Coord!Taken, Coord!Goto, Coord!KeepCards,
         Coord!KeepWork, Coord!KeepRest, Waits
<1>4. Coordinated(c)'
  <2>1. /\ pc'[c] = "work" /\ pc[c] = "work" /\ e \in DOMAIN reply[c] /\ held' = held
        /\ Coordinated(c)
    BY DEF CoordInv, Coord!RefuseVerdict, Coord!Answered, Coord!Working, Coord!KeepRest
  <2>2. claim'[e] # [by |-> c, at |-> held[c][e]]
    <3>1. e \in DOMAIN held[c] /\ held[c][e] \in Nat
      BY <2>1 DEF Coordinated, HeldDated, HeldOf, Collected
    <3>2. None # [by |-> c, at |-> held[c][e]]
      BY <3>1, ClaimsAreClaims
    <3>3. QED
      BY <3>2 DEF Coord!RefuseVerdict, Coord!ReleaseOwn, CoordInv, BoardRight
  <2>3. HeldDated(c)' /\ Undispatched(c)' /\ Dispatched(c)' /\ Cleared(c)'
    BY <1>1, <2>1
       DEF Coordinated, HeldDated, Undispatched, Dispatched, Collected, Cleared, HeldOf,
           BoardMoves, GoneForGood, BoardRight
  <2>4. \A x \in DOMAIN held[c] : x \in DOMAIN verdict[c] /\ x # e => GivenBack(c, x)'
    BY <1>1, <2>1, <1>2
       DEF Coord!RefuseVerdict, Coordinated, HeldDated, HeldOf, Collected, GivenBack,
           Coord!SameClaim, BoardMoves, GoneForGood
  <2>5. GivenBack(c, e)'
    BY <2>1, <2>2 DEF GivenBack, Coord!SameClaim
  <2>6. DOMAIN reply'[c] = DOMAIN held'[c]
    BY <2>1, <1>2 DEF Coord!RefuseVerdict, Coord!KeepRest, Coordinated, Collected
  <2>7. Collected(c)'
    BY <2>1, <2>4, <2>5, <2>6, <1>2 DEF Coord!RefuseVerdict, Collected
  <2>8. QED
    BY <2>3, <2>7 DEF Coordinated
<1>5. \A i \in 1..MaxN : RecordRight(i)'
  BY <1>1, RecordsKeep DEF CoordInv, Coord!RefuseVerdict, Coord!KeepRest, BoardMoves
<1>6. QED
  BY <1>1, <1>3, <1>4, <1>5 DEF Steps

LEMMA ApplyVerdictKeeps ==
  ASSUME NoneIsNone, CoordInv, NEW c \in Coords, NEW e \in Cards, Coord!ApplyVerdict(c, e)
  PROVE  Steps(c)
<1>1. BoardMoves /\ BoardRight /\ BoardRight'
  <2> DEFINE S == {e}
  <2>1. /\ BoardRight /\ S \in SUBSET Cards /\ stamp' = stamp
        /\ claim' = [x \in Cards |-> IF x \in S THEN None ELSE claim[x]]
    BY DEF CoordInv, BoardRight, Coord!ApplyVerdict, Coord!ReleaseOwn, Coord!KeepRest
  <2>2. /\ closed' \in [Cards -> {None} \union Coord!Terminal]
        /\ \A x \in Cards : closed'[x] # closed[x] => x \in S /\ claim[x] # None
    BY DEF CoordInv, BoardRight, Coord!ApplyVerdict, Coord!SameClaim, NoneIsNone, Claims,
           Coord!Answered, Coord!Working, Coordinated, HeldDated, HeldOf, Collected
  <2> HIDE DEF S
  <2>3. QED
    BY <2>1, <2>2, DroppedMoves DEF BoardMoves
<1>2. /\ DOMAIN verdict' = Coords /\ \A d \in Coords : d # c => verdict'[d] = verdict[d]
      /\ DOMAIN verdict'[c] = DOMAIN verdict[c] \union {e} /\ verdict'[c][e] = reply[c][e]
      /\ \A x \in DOMAIN verdict[c] : x # e => verdict'[c][x] = verdict[c][x]
  BY SetFields DEF CoordInv, Shapes, Coord!ApplyVerdict
<1>3. Shapes' /\ native' = native /\ \A d \in Coords : d # c => Waits(d)
  BY <1>2
     DEF CoordInv, Shapes, Coord!ApplyVerdict, Coord!Taken, Coord!Goto, Coord!KeepCards,
         Coord!KeepWork, Coord!KeepRest, Waits
<1>4. Coordinated(c)'
  <2>1. /\ pc'[c] = "work" /\ pc[c] = "work" /\ e \in DOMAIN reply[c] /\ held' = held
        /\ Coordinated(c)
    BY DEF CoordInv, Coord!ApplyVerdict, Coord!Answered, Coord!Working, Coord!KeepRest
  <2>2. claim'[e] # [by |-> c, at |-> held[c][e]]
    <3>1. e \in DOMAIN held[c] /\ held[c][e] \in Nat
      BY <2>1 DEF Coordinated, HeldDated, HeldOf, Collected
    <3>2. None # [by |-> c, at |-> held[c][e]]
      BY <3>1, ClaimsAreClaims
    <3>3. QED
      BY <3>2 DEF Coord!ApplyVerdict, Coord!ReleaseOwn, CoordInv, BoardRight
  <2>3. HeldDated(c)' /\ Undispatched(c)' /\ Dispatched(c)' /\ Cleared(c)'
    BY <1>1, <2>1
       DEF Coordinated, HeldDated, Undispatched, Dispatched, Collected, Cleared, HeldOf,
           BoardMoves, GoneForGood, BoardRight
  <2>4. \A x \in DOMAIN held[c] : x \in DOMAIN verdict[c] /\ x # e => GivenBack(c, x)'
    BY <1>1, <2>1, <1>2
       DEF Coord!ApplyVerdict, Coordinated, HeldDated, HeldOf, Collected, GivenBack,
           Coord!SameClaim, BoardMoves, GoneForGood
  <2>5. GivenBack(c, e)'
    BY <2>1, <2>2 DEF GivenBack, Coord!SameClaim
  <2>6. DOMAIN reply'[c] = DOMAIN held'[c]
    BY <2>1, <1>2 DEF Coord!ApplyVerdict, Coord!KeepRest, Coordinated, Collected
  <2>7. Collected(c)'
    BY <2>1, <2>4, <2>5, <2>6, <1>2 DEF Coord!ApplyVerdict, Collected
  <2>8. QED
    BY <2>3, <2>7 DEF Coordinated
<1>5. \A i \in 1..MaxN : RecordRight(i)'
  BY <1>1, RecordsKeep DEF CoordInv, Coord!ApplyVerdict, Coord!KeepRest, BoardMoves
<1>6. QED
  BY <1>1, <1>3, <1>4, <1>5 DEF Steps

(* Somebody who is not a coordinator moves a claim or a verdict.           *)
LEMMA OthersKeep ==
  ASSUME NoneIsNone, CoordInv, NEW e \in Cards,
         Coord!Age(e) \/ Coord!PersonReaps(e) \/ Coord!PersonClaims(e) \/ Coord!PersonEnds(e)
  PROVE  BoardMoves /\ UNCHANGED <<native, pc, short, held, reply, verdict, record>>
<1>1. CASE Coord!Age(e)
  BY <1>1, KeptMoves DEF Coord!Age, Coord!KeepWork, BoardKept, CoordInv
<1>2. CASE Coord!PersonReaps(e)
  <2> DEFINE S == {e}
  <2>1. /\ S \in SUBSET Cards /\ stamp' = stamp /\ closed' = closed
        /\ claim' = [x \in Cards |-> IF x \in S THEN None ELSE claim[x]]
        /\ UNCHANGED <<native, pc, short, held, reply, verdict, record>>
    BY <1>2 DEF CoordInv, BoardRight, Coord!PersonReaps, Coord!KeepWork
  <2>2. BoardRight /\ closed' \in [Cards -> {None} \union Coord!Terminal]
    BY <2>1 DEF CoordInv, BoardRight
  <2> HIDE DEF S
  <2>3. QED
    BY <2>1, <2>2, DroppedMoves
<1>3. CASE Coord!PersonClaims(e)
  BY <1>3, ClaimedMoves DEF Coord!PersonClaims, Coord!KeepWork, CoordInv
<1>4. CASE Coord!PersonEnds(e)
  <2> DEFINE S == {e}
  <2>1. /\ S \in SUBSET Cards /\ stamp' = stamp
        /\ claim' = [x \in Cards |-> IF x \in S THEN None ELSE claim[x]]
        /\ UNCHANGED <<native, pc, short, held, reply, verdict, record>>
    BY <1>4 DEF CoordInv, BoardRight, Coord!PersonEnds, Coord!KeepWork
  <2>2. /\ BoardRight /\ closed' \in [Cards -> {None} \union Coord!Terminal]
        /\ \A x \in Cards : closed'[x] # closed[x] => x \in S /\ claim[x] # None
    BY <1>4 DEF CoordInv, BoardRight, Coord!PersonEnds
  <2> HIDE DEF S
  <2>3. QED
    BY <2>1, <2>2, DroppedMoves
<1>5. QED
  BY <1>1, <1>2, <1>3, <1>4

LEMMA InitRight == ASSUME NoneIsNone, Coord!CoordInit PROVE CoordInv
<1>1. Shapes /\ BoardRight
  BY DEF Coord!CoordInit, Shapes, BoardRight
<1>2. ASSUME NEW c \in Coords PROVE Coordinated(c)
  BY DEF Coord!CoordInit, Coord!NoCards, Coordinated, HeldDated, Undispatched, Dispatched,
         Collected, Cleared
<1>3. ASSUME NEW i \in 1..MaxN PROVE RecordRight(i)
  BY DEF Coord!CoordInit, RecordRight
<1>4. QED
  BY <1>1, <1>2, <1>3 DEF CoordInv

LEMMA StepsKeep ==
  ASSUME NoneIsNone, CoordInv, Coord!CoordNext
  PROVE  CoordInv' /\ Coord!VerdictStands
<1>1. ASSUME NEW c \in Coords, Steps(c) PROVE CoordInv' /\ Coord!VerdictStands
  <2>1. \A d \in Coords : Coordinated(d)'
    BY <1>1, WaitingKeeps DEF Steps, CoordInv, BoardMoves
  <2>2. QED
    BY <1>1, <2>1 DEF Steps, BoardMoves, CoordInv
<1>2. ASSUME NEW e \in Cards, Coord!Age(e) \/ Coord!PersonReaps(e) \/
      Coord!PersonClaims(e) \/ Coord!PersonEnds(e)
      PROVE  CoordInv' /\ Coord!VerdictStands
  <2>1. BoardMoves /\ UNCHANGED <<native, pc, short, held, reply, verdict, record>>
    BY <1>2, OthersKeep
  <2>2. ASSUME NEW d \in Coords PROVE Coordinated(d)'
    BY <2>1, WaitingKeeps DEF CoordInv, BoardMoves, Waits
  <2>3. ASSUME NEW i \in 1..MaxN PROVE RecordRight(i)'
    BY <2>1, RecordsKeep DEF CoordInv, BoardMoves
  <2>4. QED
    BY <2>1, <2>2, <2>3 DEF CoordInv, BoardMoves, Shapes
<1>3. ASSUME NEW c \in Coords, Coord!BeginIteration(c) PROVE CoordInv' /\ Coord!VerdictStands
  BY <1>1, <1>3, BeginIterationKeeps
<1>4. ASSUME NEW c \in Coords, Coord!Orient(c) PROVE CoordInv' /\ Coord!VerdictStands
  BY <1>1, <1>4, OrientKeeps
<1>5. ASSUME NEW c \in Coords, Coord!Generate(c) PROVE CoordInv' /\ Coord!VerdictStands
  BY <1>1, <1>5, GenerateKeeps
<1>6. ASSUME NEW c \in Coords, Coord!RankCards(c) PROVE CoordInv' /\ Coord!VerdictStands
  BY <1>1, <1>6, RankCardsKeeps
<1>7. ASSUME NEW c \in Coords, Coord!EndDispatch(c) PROVE CoordInv' /\ Coord!VerdictStands
  BY <1>1, <1>7, EndDispatchKeeps
<1>8. ASSUME NEW c \in Coords, Coord!EndWork(c) PROVE CoordInv' /\ Coord!VerdictStands
  BY <1>1, <1>8, EndWorkKeeps
<1>9. ASSUME NEW c \in Coords, Coord!Curate(c) PROVE CoordInv' /\ Coord!VerdictStands
  BY <1>1, <1>9, CurateKeeps
<1>10. ASSUME NEW c \in Coords, Coord!Distil(c) PROVE CoordInv' /\ Coord!VerdictStands
  BY <1>1, <1>10, DistilKeeps
<1>11. ASSUME NEW c \in Coords, Coord!Qc(c) PROVE CoordInv' /\ Coord!VerdictStands
  BY <1>1, <1>11, QcKeeps
<1>12. ASSUME NEW c \in Coords, Coord!Record(c) PROVE CoordInv' /\ Coord!VerdictStands
  BY <1>1, <1>12, RecordKeeps
<1>13. ASSUME NEW c \in Coords, Coord!OutOfBand(c) PROVE CoordInv' /\ Coord!VerdictStands
  BY <1>1, <1>13, OutOfBandKeeps
<1>14. ASSUME NEW c \in Coords, Coord!Scout(c) PROVE CoordInv' /\ Coord!VerdictStands
  BY <1>1, <1>14, ScoutKeeps
<1>15. ASSUME NEW c \in Coords, Coord!CoordDies(c) PROVE CoordInv' /\ Coord!VerdictStands
  BY <1>1, <1>15, CoordDiesKeeps
<1>16. ASSUME NEW c \in Coords, NEW e \in Cards, Coord!BlockCard(c, e) PROVE CoordInv' /\
      Coord!VerdictStands
  BY <1>1, <1>16, BlockCardKeeps
<1>17. ASSUME NEW c \in Coords, NEW e \in Cards, Coord!PassOver(c, e) PROVE CoordInv' /\
      Coord!VerdictStands
  BY <1>1, <1>17, PassOverKeeps
<1>18. ASSUME NEW c \in Coords, NEW e \in Cards, Coord!DispatchCard(c, e) PROVE CoordInv' /\
      Coord!VerdictStands
  BY <1>1, <1>18, DispatchCardKeeps
<1>19. ASSUME NEW c \in Coords, NEW e \in Cards, Coord!WorkerAnswers(c, e) PROVE CoordInv' /\
      Coord!VerdictStands
  BY <1>1, <1>19, WorkerAnswersKeeps
<1>20. ASSUME NEW c \in Coords, NEW e \in Cards, Coord!WorkerCloses(c, e) PROVE CoordInv' /\
      Coord!VerdictStands
  BY <1>1, <1>20, WorkerClosesKeeps
<1>21. ASSUME NEW c \in Coords, NEW e \in Cards, Coord!RefuseEvidence(c, e) PROVE CoordInv' /\
      Coord!VerdictStands
  BY <1>1, <1>21, RefuseEvidenceKeeps
<1>22. ASSUME NEW c \in Coords, NEW e \in Cards, Coord!RefuseVerdict(c, e) PROVE CoordInv' /\
      Coord!VerdictStands
  BY <1>1, <1>22, RefuseVerdictKeeps
<1>23. ASSUME NEW c \in Coords, NEW e \in Cards, Coord!ApplyVerdict(c, e) PROVE CoordInv' /\
      Coord!VerdictStands
  BY <1>1, <1>23, ApplyVerdictKeeps
<1>24. ASSUME NEW c \in Coords, NEW e \in Cards, Coord!ClaimChanged(c, e) PROVE CoordInv' /\
      Coord!VerdictStands
  BY <1>1, <1>24, ClaimChangedKeeps
<1>25. QED
  BY <1>2, <1>3, <1>4, <1>5, <1>6, <1>7, <1>8, <1>9, <1>10, <1>11, <1>12, <1>13, <1>14,
     <1>15, <1>16, <1>17, <1>18, <1>19, <1>20, <1>21, <1>22, <1>23, <1>24 DEF Coord!CoordNext

LEMMA StutterKeeps ==
  ASSUME CoordInv, UNCHANGED Coord!coordVars
  PROVE  CoordInv' /\ Coord!VerdictStands
BY ZenonT(60)
   DEF Coord!coordVars, CoordInv, Shapes, BoardRight, HeldOf, GivenBack, Coord!SameClaim,
       HeldDated, Undispatched, Dispatched, Collected, Cleared, Coordinated, RecordRight,
       Coord!VerdictStands

(* The invariant holds throughout, for any number of coordinators and cards. *)
THEOREM CoordinatorSafe == NoneIsNone => (Coord!CoordSpec => []CoordInv)
<1> SUFFICES ASSUME NoneIsNone PROVE Coord!CoordSpec => []CoordInv
  OBVIOUS
<1>1. Coord!CoordInit => CoordInv
  BY InitRight
<1>2. CoordInv /\ [Coord!CoordNext]_Coord!coordVars => CoordInv'
  BY StepsKeep, StutterKeeps
<1>3. QED
  BY <1>1, <1>2, PTL DEF Coord!CoordSpec

(* Nothing an iteration dispatched is still held once it is recorded       *)
(* (driver/loop.py, _apply_verdict and the qc phase), for every number of  *)
(* coordinators, cards, workers and iterations.                            *)
THEOREM NoSquatHolds == NoneIsNone => (Coord!CoordSpec => []Coord!NoSquat)
<1> SUFFICES ASSUME NoneIsNone PROVE Coord!CoordSpec => []Coord!NoSquat
  OBVIOUS
<1>1. CoordInv => Coord!NoSquat
  BY DEF CoordInv, RecordRight, Coord!NoSquat, Coord!Recorded
<1>2. QED
  BY <1>1, CoordinatorSafe, PTL

(* A verdict, once on a card, stands: a person, the worker and two         *)
(* coordinators can all close it (_apply_verdict under the claims lock).   *)
THEOREM OneVerdictHolds == NoneIsNone => (Coord!CoordSpec => Coord!OneVerdict)
<1> SUFFICES ASSUME NoneIsNone PROVE Coord!CoordSpec => Coord!OneVerdict
  OBVIOUS
<1>1. CoordInv /\ [Coord!CoordNext]_Coord!coordVars => [Coord!VerdictStands]_Coord!coordVars
  BY StepsKeep
<1>2. QED
  BY <1>1, CoordinatorSafe, PTL DEF Coord!CoordSpec, Coord!OneVerdict

-----------------------------------------------------------------------------
(* The types.  The number of an iteration is one past a number in use.     *)
ClaimStamps == [by : Coords \union {Coord!Person}, at : 1..MaxStamp]

Places == {"off", "orient", "generate", "rank", "dispatch", "work",
           "curate", "distil", "qc", "record", "scout", "raised"}

CardsTyped ==
    /\ native \in BOOLEAN /\ aged \subseteq Cards /\ stamp \in 0..MaxStamp
    /\ claim \in [Cards -> {None} \union ClaimStamps]
    /\ closed \in [Cards -> {None} \union Coord!Terminal]

PhasesTyped ==
    /\ pc \in [Coords -> Places] /\ n \in [Coords -> 0..MaxN]
    /\ spawns \in [Coords -> 0..Spawns]

TablesOf(c) ==
    /\ short[c] \subseteq Cards /\ DOMAIN held[c] \subseteq Cards
    /\ DOMAIN reply[c] \subseteq DOMAIN held[c] /\ DOMAIN verdict[c] \subseteq Cards

CoordTyped == CardsTyped /\ PhasesTyped /\ \A c \in Coords : TablesOf(c)

LEMMA LastRecordedIsNumber == ASSUME MaxN \in Nat PROVE Coord!LastRecorded \in 0..MaxN
<1> PICK S : S = {0} \union {i \in 1..MaxN : record[i] # None}
  OBVIOUS
<1> PICK T : T = {MaxN - i : i \in S}
  OBVIOUS
<1>1. S \subseteq 0..MaxN /\ S # {}
  OBVIOUS
<1>2. T \in SUBSET Nat /\ T # {}
  BY <1>1
<1>3. PICK t \in T : \A u \in T : t <= u
  BY <1>2, LeastExists
<1>4. PICK m \in S : t = MaxN - m
  BY <1>3
<1>5. ASSUME NEW i \in S PROVE m >= i
  <2>1. MaxN - i \in T /\ m \in 0..MaxN /\ i \in 0..MaxN
    BY <1>1
  <2>2. MaxN - m <= MaxN - i
    BY <1>3, <1>4, <2>1
  <2>3. QED
    BY <2>1, <2>2
<1>6. Coord!LastRecorded = CHOOSE x \in S : \A y \in S : x >= y
  BY DEF Coord!LastRecorded, Coord!Max
<1>7. Coord!LastRecorded \in S
  BY <1>5, <1>6
<1>8. QED
  BY <1>1, <1>7

(* Cards as they are.                                                      *)
LEMMA CardsKept == ASSUME CardsTyped, Coord!KeepCards PROVE CardsTyped'
BY Zenon DEF CardsTyped, Coord!KeepCards

(* One coordinator goes on, to a place of the list.                        *)
LEMMA GoesOn ==
  ASSUME PhasesTyped, NEW c \in Coords, NEW where \in Places, Coord!Goto(c, where)
  PROVE  pc' \in [Coords -> Places]
BY DEF PhasesTyped, Coord!Goto

LEMMA PoolSpent ==
  ASSUME CoordBounds, PhasesTyped, NEW c \in Coords, Coord!AskOrSkip(c)
  PROVE  spawns' \in [Coords -> 0..Spawns]
<1>1. CASE spawns' = spawns
  BY <1>1 DEF PhasesTyped
<1>2. CASE Coord!Ask(c)
  <2>1. spawns[c] \in 0..Spawns /\ spawns[c] > 0
    BY <1>2 DEF Coord!Ask, PhasesTyped
  <2>2. spawns[c] - 1 \in 0..Spawns
    BY <2>1 DEF CoordBounds
  <2>3. QED
    BY <1>2, <2>2 DEF Coord!Ask, PhasesTyped
<1>3. QED
  BY <1>1, <1>2 DEF Coord!AskOrSkip

LEMMA TablesKept ==
  ASSUME Shapes, Shapes', NEW c \in Coords, TablesOf(c), Coord!KeepWork
  PROVE  TablesOf(c)'
BY DEF TablesOf, Coord!KeepWork

(* The phases that only ask.                                               *)
LEMMA AskingTyped ==
  ASSUME CoordBounds, CoordTyped, NEW c \in Coords,
         \/ Coord!Generate(c) \/ Coord!Curate(c) \/ Coord!Distil(c) \/ Coord!Qc(c) \/ Coord!Scout(c)
         \/ Coord!EndWork(c) \/ Coord!Record(c) \/ Coord!CoordDies(c)
  PROVE  CoordTyped'
<1>1. PICK where \in Places : Coord!Goto(c, where)
  BY DEF Coord!Generate, Coord!Curate, Coord!Distil, Coord!Qc, Coord!Scout, Coord!EndWork,
         Coord!Record, Coord!CoordDies, Places
<1>2. Coord!AskOrSkip(c) /\ Coord!KeepCards /\ Coord!KeepWork
  BY DEF Coord!Generate, Coord!Curate, Coord!Distil, Coord!Qc, Coord!Scout, Coord!EndWork,
         Coord!Record, Coord!CoordDies, Coord!AskOrSkip
<1>3. n' = n \/ n' = [n EXCEPT ![c] = 0]
  BY DEF Coord!Generate, Coord!Curate, Coord!Distil, Coord!Qc, Coord!Scout, Coord!EndWork,
         Coord!Record, Coord!CoordDies
<1>4. n' \in [Coords -> 0..MaxN]
  BY <1>3 DEF CoordTyped, PhasesTyped, CoordBounds
<1>5. PhasesTyped'
  BY <1>1, <1>2, <1>4, GoesOn, PoolSpent DEF CoordTyped, PhasesTyped
<1>6. CardsTyped'
  BY <1>2, CardsKept DEF CoordTyped
<1>7. \A d \in Coords : TablesOf(d)'
  BY <1>2 DEF CoordTyped, TablesOf, Coord!KeepWork
<1>8. QED
  BY <1>5, <1>6, <1>7 DEF CoordTyped

(* A new iteration, or a phase by hand, begins with nothing in hand.       *)
LEMMA BeginningTyped ==
  ASSUME CoordBounds, CoordInv, CoordTyped, NEW c \in Coords,
         Coord!BeginIteration(c) \/ Coord!OutOfBand(c)
  PROVE  CoordTyped'
<1>1. PICK where \in Places : Coord!Goto(c, where)
  BY DEF Coord!BeginIteration, Coord!OutOfBand, Places
<1>2. PICK i \in 0..MaxN : i < MaxN /\ n' = [n EXCEPT ![c] = i + 1]
  <2>1. n[c] \in 0..MaxN /\ Coord!LastRecorded \in 0..MaxN
    BY LastRecordedIsNumber DEF CoordTyped, PhasesTyped, CoordBounds
  <2>2. QED
    BY <2>1 DEF Coord!BeginIteration, Coord!OutOfBand
<1>3. i + 1 \in 0..MaxN
  BY <1>2 DEF CoordBounds
<1>4. spawns' = [spawns EXCEPT ![c] = Spawns] /\ Coord!KeepCards
  BY DEF Coord!BeginIteration, Coord!OutOfBand
<1>5. pc' \in [Coords -> Places]
  BY <1>1, GoesOn DEF CoordTyped
<1>6. PhasesTyped'
  <2>1. n' \in [Coords -> 0..MaxN]
    BY <1>2, <1>3 DEF CoordTyped, PhasesTyped
  <2>2. spawns' \in [Coords -> 0..Spawns]
    BY <1>4 DEF CoordTyped, PhasesTyped, CoordBounds
  <2>3. QED
    BY <1>5, <2>1, <2>2 DEF PhasesTyped
<1>7. ASSUME NEW d \in Coords PROVE TablesOf(d)'
  <2>1. /\ held' = [held EXCEPT ![c] = Coord!NoCards]
        /\ reply' = [reply EXCEPT ![c] = Coord!NoCards]
        /\ verdict' = [verdict EXCEPT ![c] = Coord!NoCards]
        /\ short' = [short EXCEPT ![c] = {}] \/ short' = short
    BY DEF Coord!BeginIteration, Coord!OutOfBand
  <2>2. DOMAIN Coord!NoCards = {}
    BY DEF Coord!NoCards
  <2>3. QED
    BY <2>1, <2>2 DEF CoordInv, Shapes, CoordTyped, TablesOf
<1>8. QED
  BY <1>4, <1>6, <1>7, CardsKept DEF CoordTyped

LEMMA OrientTyped ==
  ASSUME CoordBounds, CoordTyped, NEW c \in Coords, Coord!Orient(c)
  PROVE  CoordTyped'
<1>1. "generate" \in Places
  BY DEF Places
<1>2. pc' \in [Coords -> Places]
  BY <1>1, GoesOn DEF Coord!Orient, CoordTyped
<1>3. PhasesTyped'
  BY <1>2 DEF Coord!Orient, CoordTyped, PhasesTyped
<1>4. claim' \in [Cards -> {None} \union ClaimStamps] /\ aged' \subseteq Cards
  BY DEF Coord!Orient, CoordTyped, CardsTyped
<1>5. CardsTyped'
  BY <1>4, Zenon DEF Coord!Orient, CoordTyped, CardsTyped
<1>6. \A d \in Coords : TablesOf(d)'
  BY DEF Coord!Orient, Coord!KeepWork, CoordTyped, TablesOf
<1>7. QED
  BY <1>3, <1>5, <1>6 DEF CoordTyped

(* A list is drawn up, of free cards, or given up.                         *)
LEMMA ListTyped ==
  ASSUME CoordBounds, CoordInv, CoordTyped, NEW c \in Coords,
         Coord!RankCards(c) \/ Coord!EndDispatch(c)
  PROVE  CoordTyped'
<1>1. PICK where \in Places : Coord!Goto(c, where)
  BY DEF Coord!RankCards, Coord!EndDispatch, Places
<1>2. PICK S \in SUBSET Cards : short' = [short EXCEPT ![c] = S]
  BY DEF Coord!RankCards, Coord!EndDispatch
<1>3. Coord!AskOrSkip(c) /\ Coord!KeepCards /\ UNCHANGED <<n, held, reply, verdict>>
  BY DEF Coord!RankCards, Coord!EndDispatch, Coord!AskOrSkip
<1>4. PhasesTyped'
  BY <1>1, <1>3, GoesOn, PoolSpent DEF CoordTyped, PhasesTyped
<1>5. \A d \in Coords : TablesOf(d)'
  BY <1>2, <1>3 DEF CoordInv, Shapes, CoordTyped, TablesOf
<1>6. QED
  BY <1>3, <1>4, <1>5, CardsKept DEF CoordTyped

(* What a step does to the tables: cards are added to them, in order.      *)
LEMMA TableGrows ==
  ASSUME CoordInv, NEW c \in Coords, NEW e \in Cards, NEW v
  PROVE  /\ \A d \in Coords :
              DOMAIN Coord!Set(verdict, c, e, v)[d] \subseteq DOMAIN verdict[d] \union {e}
         /\ \A d \in Coords : d # c => Coord!Set(verdict, c, e, v)[d] = verdict[d]
         /\ \A d \in Coords : d # c => Coord!Set(reply, c, e, v)[d] = reply[d]
         /\ \A d \in Coords : d # c => Coord!Set(held, c, e, v)[d] = held[d]
         /\ DOMAIN Coord!Set(reply, c, e, v)[c] = DOMAIN reply[c] \union {e}
         /\ DOMAIN Coord!Set(held, c, e, v)[c] = DOMAIN held[c] \union {e}
<1>1. DOMAIN verdict = Coords /\ DOMAIN reply = Coords /\ DOMAIN held = Coords
  BY DEF CoordInv, Shapes
<1>2. /\ \A d \in Coords : d # c => Coord!Set(verdict, c, e, v)[d] = verdict[d]
      /\ DOMAIN Coord!Set(verdict, c, e, v)[c] = DOMAIN verdict[c] \union {e}
  BY <1>1, SetFields
<1>3. /\ \A d \in Coords : d # c => Coord!Set(reply, c, e, v)[d] = reply[d]
      /\ DOMAIN Coord!Set(reply, c, e, v)[c] = DOMAIN reply[c] \union {e}
  BY <1>1, SetFields
<1>4. /\ \A d \in Coords : d # c => Coord!Set(held, c, e, v)[d] = held[d]
      /\ DOMAIN Coord!Set(held, c, e, v)[c] = DOMAIN held[c] \union {e}
  BY <1>1, SetFields
<1>5. ASSUME NEW d \in Coords
      PROVE  DOMAIN Coord!Set(verdict, c, e, v)[d] \subseteq DOMAIN verdict[d] \union {e}
  <2>1. CASE d = c
    BY <1>2, <2>1
  <2>2. CASE d # c
    BY <1>2, <2>2
  <2>3. QED
    BY <2>1, <2>2
<1>6. QED
  BY <1>2, <1>3, <1>4, <1>5

LEMMA OffTheListTyped ==
  ASSUME CoordBounds, CoordInv, CoordTyped, NEW c \in Coords, NEW e \in Cards,
         Coord!BlockCard(c, e) \/ Coord!PassOver(c, e)
  PROVE  CoordTyped'
<1>1. Coord!KeepCards /\ UNCHANGED <<pc, n, held, reply>> /\ Coord!AskOrSkip(c)
  BY DEF Coord!BlockCard, Coord!PassOver, Coord!AskOrSkip, Coord!Ask
<1>2. short' = [short EXCEPT ![c] = short[c] \ {e}]
  BY DEF Coord!BlockCard, Coord!PassOver, Coord!Taken
<1>3. verdict' = verdict \/ verdict' = Coord!Set(verdict, c, e, "blocked")
  BY DEF Coord!BlockCard, Coord!PassOver
<1>4. \A d \in Coords : DOMAIN verdict'[d] \subseteq DOMAIN verdict[d] \union {e}
  BY <1>3, TableGrows
<1>5. \A d \in Coords : TablesOf(d)'
  BY <1>1, <1>2, <1>4 DEF CoordInv, Shapes, CoordTyped, TablesOf
<1>6. PhasesTyped'
  BY <1>1, PoolSpent DEF CoordTyped, PhasesTyped
<1>7. QED
  BY <1>1, <1>5, <1>6, CardsKept DEF CoordTyped

LEMMA DispatchTyped ==
  ASSUME CoordBounds, CoordInv, CoordTyped, NEW c \in Coords, NEW e \in Cards,
         Coord!DispatchCard(c, e)
  PROVE  CoordTyped'
<1> PICK k : k = [by |-> c, at |-> stamp + 1]
  OBVIOUS
<1>1. /\ stamp < MaxStamp /\ stamp' = stamp + 1 /\ claim' = [claim EXCEPT ![e] = k]
      /\ held' = Coord!Set(held, c, e, stamp') /\ short' = [short EXCEPT ![c] = short[c] \ {e}]
      /\ UNCHANGED <<native, aged, closed, pc, n>> /\ Coord!AskOrSkip(c)
      /\ \/ verdict' = Coord!Set(verdict, c, e, "assigned") /\ UNCHANGED reply
         \/ reply' = Coord!Set(reply, c, e, None) /\ UNCHANGED verdict
  BY DEF Coord!DispatchCard, Coord!Taken, Coord!AskOrSkip
<1>2. stamp' \in 0..MaxStamp /\ stamp + 1 \in 1..MaxStamp
  BY <1>1 DEF CoordTyped, CardsTyped, CoordBounds
<1>3. k \in ClaimStamps
  BY <1>2 DEF ClaimStamps
<1>4. claim' \in [Cards -> {None} \union ClaimStamps]
  BY <1>1, <1>3 DEF CoordTyped, CardsTyped
<1>5. CardsTyped'
  BY <1>1, <1>2, <1>4, Zenon DEF CoordTyped, CardsTyped
<1>6. PhasesTyped'
  BY <1>1, PoolSpent DEF CoordTyped, PhasesTyped
<1>7. ASSUME NEW d \in Coords PROVE TablesOf(d)'
  <2>1. /\ DOMAIN verdict'[d] \subseteq DOMAIN verdict[d] \union {e}
        /\ DOMAIN held[d] \subseteq DOMAIN held'[d]
        /\ DOMAIN held'[d] \subseteq DOMAIN held[d] \union {e}
    BY <1>1, TableGrows
  <2>2. DOMAIN reply'[d] \subseteq DOMAIN held'[d]
    <3>1. CASE d = c
      BY <1>1, <2>1, <3>1, TableGrows DEF CoordTyped, TablesOf
    <3>2. CASE d # c
      BY <1>1, <2>1, <3>2, TableGrows DEF CoordTyped, TablesOf
    <3>3. QED
      BY <3>1, <3>2
  <2>3. QED
    BY <1>1, <2>1, <2>2 DEF CoordInv, Shapes, CoordTyped, TablesOf
<1>8. QED
  BY <1>5, <1>6, <1>7 DEF CoordTyped

(* A worker answers, or its answer is dealt with.                          *)
LEMMA AnswersTyped ==
  ASSUME CoordInv, CoordTyped, NEW c \in Coords, NEW e \in Cards,
         \/ Coord!WorkerAnswers(c, e) \/ Coord!WorkerCloses(c, e) \/ Coord!RefuseEvidence(c, e)
         \/ Coord!RefuseVerdict(c, e) \/ Coord!ApplyVerdict(c, e) \/ Coord!ClaimChanged(c, e)
  PROVE  CoordTyped'
<1>1. UNCHANGED <<native, stamp, n, short, held, spawns>> /\ e \in DOMAIN reply[c]
  BY DEF Coord!WorkerAnswers, Coord!WorkerCloses, Coord!RefuseEvidence, Coord!RefuseVerdict,
         Coord!ApplyVerdict, Coord!ClaimChanged, Coord!KeepRest, Coord!KeepCards, Coord!KeepWork,
         Coord!Answered, Coord!Working
<1>2. pc' = pc \/ Coord!Goto(c, "raised")
  BY DEF Coord!WorkerAnswers, Coord!WorkerCloses, Coord!RefuseEvidence, Coord!RefuseVerdict,
         Coord!ApplyVerdict, Coord!ClaimChanged, Coord!KeepRest, Coord!KeepCards
<1>3. "raised" \in Places
  BY DEF Places
<1>4. pc' \in [Coords -> Places]
  BY <1>2, <1>3, GoesOn DEF CoordTyped, PhasesTyped
<1>5. PhasesTyped'
  BY <1>1, <1>4 DEF CoordTyped, PhasesTyped
<1>6. /\ claim' = claim \/ claim' = [claim EXCEPT ![e] = None]
      /\ aged' = aged \/ aged' = aged \ {e}
  BY DEF Coord!WorkerAnswers, Coord!WorkerCloses, Coord!RefuseEvidence, Coord!RefuseVerdict,
         Coord!ApplyVerdict, Coord!ClaimChanged, Coord!KeepRest, Coord!KeepCards, Coord!ReleaseOwn
<1>7. closed' = closed \/ \E v \in Coord!Terminal : closed' = [closed EXCEPT ![e] = v]
  BY DEF Coord!WorkerAnswers, Coord!WorkerCloses, Coord!RefuseEvidence, Coord!RefuseVerdict,
         Coord!ApplyVerdict, Coord!ClaimChanged, Coord!KeepRest, Coord!KeepCards
<1>8. claim' \in [Cards -> {None} \union ClaimStamps]
  BY <1>6 DEF CoordTyped, CardsTyped
<1>9. closed' \in [Cards -> {None} \union Coord!Terminal] /\ aged' \subseteq Cards
  BY <1>6, <1>7 DEF CoordTyped, CardsTyped
<1>10. CardsTyped'
  BY <1>1, <1>8, <1>9, Zenon DEF CoordTyped, CardsTyped
<1>11. reply' = reply \/ \E a : reply' = Coord!Set(reply, c, e, a)
  BY DEF Coord!WorkerAnswers, Coord!WorkerCloses, Coord!RefuseEvidence, Coord!RefuseVerdict,
         Coord!ApplyVerdict, Coord!ClaimChanged, Coord!KeepRest, Coord!KeepWork
<1>12. verdict' = verdict \/ \E a : verdict' = Coord!Set(verdict, c, e, a)
  BY DEF Coord!WorkerAnswers, Coord!WorkerCloses, Coord!RefuseEvidence, Coord!RefuseVerdict,
         Coord!ApplyVerdict, Coord!ClaimChanged, Coord!KeepRest, Coord!KeepWork
<1>13. ASSUME NEW d \in Coords PROVE TablesOf(d)'
  <2>1. DOMAIN verdict'[d] \subseteq DOMAIN verdict[d] \union {e}
    BY <1>12, TableGrows
  <2>2. DOMAIN reply'[d] \subseteq DOMAIN reply[d]
    <3>1. CASE d = c
      BY <1>1, <1>11, <3>1, TableGrows
    <3>2. CASE d # c
      BY <1>11, <3>2, TableGrows
    <3>3. QED
      BY <3>1, <3>2
  <2>3. QED
    BY <1>1, <2>1, <2>2 DEF CoordTyped, TablesOf
<1>14. QED
  BY <1>5, <1>10, <1>13 DEF CoordTyped

LEMMA OthersTyped ==
  ASSUME CoordBounds, CoordTyped, NEW e \in Cards,
         Coord!Age(e) \/ Coord!PersonReaps(e) \/ Coord!PersonClaims(e) \/ Coord!PersonEnds(e)
  PROVE  CoordTyped'
<1> PICK k : k = [by |-> Coord!Person, at |-> stamp + 1]
  OBVIOUS
<1>1. UNCHANGED <<native, pc, n, short, held, reply, verdict, spawns>>
  BY DEF Coord!Age, Coord!PersonReaps, Coord!PersonClaims, Coord!PersonEnds, Coord!KeepWork
<1>2. CardsTyped'
  <2>1. /\ stamp' = stamp \/ (stamp' = stamp + 1 /\ stamp < MaxStamp)
        /\ aged' \subseteq aged \union {e}
    BY DEF Coord!Age, Coord!PersonReaps, Coord!PersonClaims, Coord!PersonEnds
  <2>2. \/ claim' = claim \/ claim' = [claim EXCEPT ![e] = None]
        \/ claim' = [claim EXCEPT ![e] = k] /\ stamp < MaxStamp
    BY DEF Coord!Age, Coord!PersonReaps, Coord!PersonClaims, Coord!PersonEnds
  <2>3. stamp' \in 0..MaxStamp /\ (stamp < MaxStamp => stamp + 1 \in 1..MaxStamp)
    BY <2>1 DEF CoordTyped, CardsTyped, CoordBounds
  <2>4. stamp < MaxStamp => k \in ClaimStamps
    BY <2>3 DEF ClaimStamps
  <2>5. claim' \in [Cards -> {None} \union ClaimStamps]
    BY <2>2, <2>4 DEF CoordTyped, CardsTyped
  <2>6. \/ closed' = closed
        \/ \E v \in {None} \union Coord!Terminal : closed' = [closed EXCEPT ![e] = v]
    BY DEF Coord!Age, Coord!PersonReaps, Coord!PersonClaims, Coord!PersonEnds
  <2>7. closed' \in [Cards -> {None} \union Coord!Terminal] /\ aged' \subseteq Cards
    BY <2>1, <2>6 DEF CoordTyped, CardsTyped
  <2>8. QED
    BY <1>1, <2>3, <2>5, <2>7, Zenon DEF CoordTyped, CardsTyped
<1>3. PhasesTyped' /\ \A d \in Coords : TablesOf(d)'
  BY <1>1 DEF CoordTyped, PhasesTyped, TablesOf
<1>4. QED
  BY <1>2, <1>3 DEF CoordTyped

(* The types of claims, verdicts, places, pools and tables, for any number *)
(* of coordinators and of cards.                                           *)
THEOREM CoordinatorTypes == NoneIsNone /\ CoordBounds => (Coord!CoordSpec => []Coord!CoordTypeOK)
<1> SUFFICES ASSUME NoneIsNone, CoordBounds PROVE Coord!CoordSpec => []Coord!CoordTypeOK
  OBVIOUS
<1>1. Coord!CoordInit => CoordTyped
  <2> SUFFICES ASSUME Coord!CoordInit PROVE CoordTyped
    OBVIOUS
  <2>1. native \in BOOLEAN /\ aged \subseteq Cards
    BY Zenon DEF Coord!CoordInit
  <2>2. /\ claim \in [Cards -> {None} \union ClaimStamps] /\ stamp \in 0..MaxStamp
        /\ closed \in [Cards -> {None} \union Coord!Terminal]
    BY DEF Coord!CoordInit, CoordBounds
  <2>3. PhasesTyped
    BY DEF Coord!CoordInit, PhasesTyped, Places, CoordBounds
  <2>4. \A c \in Coords : TablesOf(c)
    BY DEF Coord!CoordInit, TablesOf, Coord!NoCards
  <2>5. QED
    BY <2>1, <2>2, <2>3, <2>4 DEF CoordTyped, CardsTyped
<1>2. CoordInv /\ CoordTyped /\ [Coord!CoordNext]_Coord!coordVars => CoordTyped'
  <2>1. CoordInv /\ CoordTyped /\ Coord!CoordNext => CoordTyped'
    BY AskingTyped, BeginningTyped, OrientTyped, ListTyped, OffTheListTyped, DispatchTyped,
       AnswersTyped, OthersTyped DEF Coord!CoordNext
  <2>2. CoordTyped /\ UNCHANGED Coord!coordVars => CoordTyped'
    BY Zenon DEF Coord!coordVars, CoordTyped, CardsTyped, PhasesTyped, TablesOf
  <2>3. QED
    BY <2>1, <2>2
<1>3. CoordTyped => Coord!CoordTypeOK
  BY Zenon DEF CoordTyped, CardsTyped, PhasesTyped, TablesOf, Coord!CoordTypeOK, ClaimStamps, Places
<1>4. QED
  BY <1>1, <1>2, <1>3, CoordinatorSafe, PTL DEF Coord!CoordSpec

-----------------------------------------------------------------------------
(* The meters, and their row by the names of the module.                    *)
attempt == x1
tombs == x2
meterLedger == x3
open == x4
records == x5
usage == x6
appending == x7
spent == x8
paid == x9

USE DEF attempt, tombs, meterLedger, open, records, usage, appending, spent, paid

-----------------------------------------------------------------------------
(* Meters: what the iterations consumed, on disk four times over.           *)

(* The attempts this version reserved, and the rows of some attempts.       *)
Reserved == {a \in Metered : attempt[a] # Absent /\ attempt[a].state # "legacy"}

RowsBy(S) == {r \in meterLedger : Owner[r] \in S}

MetersShape ==
    /\ attempt \in [Metered -> {Absent} \union AttemptRecords]
    /\ tombs \in Reports
    /\ meterLedger \in SUBSET MeteredRuns
    /\ open \in {Idle} \union Iterations
    /\ records \in Seq(Iterations)
    /\ spent \in [Metered -> Figures]
    /\ Len(records) <= MaxRecords /\ (open # Idle => Len(records) < MaxRecords)

UsageShape ==
    /\ usage \in Seq(UsageRows) /\ appending \in [Appenders -> {Idle} \union UsageRows]
    /\ Len(usage) <= MaxUsage /\ paid \in 0..MaxPaid

(* What an older version wrote left no rows; what its tombstone states is   *)
(* what it consumed.                                                        *)
Bygone(a) ==
    /\ Met!Rows(a) = {}
    /\ attempt[a] = Absent => spent[a] = (IF a \in DOMAIN tombs THEN tombs[a] ELSE 0)
    /\ attempt[a] # Absent => attempt[a].links = {}

(* What an attempt is charged, with the rows it does not link, covers both  *)
(* the figure it was seen to consume and the rows it appended.              *)
Covered(a) ==
    LET loose == Cardinality(Met!Rows(a) \ attempt[a].links)
    IN  /\ a \notin DOMAIN tombs /\ attempt[a].links \subseteq Met!Rows(a)
        /\ attempt[a].state = "active" => attempt[a].links = {} /\ attempt[a].charged = 1
        /\ spent[a] <= attempt[a].charged + loose
        /\ Cardinality(Met!Rows(a)) <= attempt[a].charged + loose

(* An iteration accounts for the attempts whose workers are through: by     *)
(* their figures, and by their rows, all of them.                           *)
Accounts(it) ==
    /\ DOMAIN it.byEntry \subseteq it.attempts /\ it.attempts \subseteq Reserved
    /\ it.runs = Total(it.byEntry, DOMAIN it.byEntry)
    /\ it.ids = RowsBy(DOMAIN it.byEntry)
    /\ \A a \in DOMAIN it.byEntry :
          it.byEntry[a] = spent[a] /\ Cardinality(Met!Rows(a)) <= spent[a]
    /\ \A a \in it.attempts : attempt[a].state = "settled" =>
          a \in DOMAIN it.byEntry /\ attempt[a].charged = spent[a]

(* Once it is recorded they are settled.  No attempt is in two iterations.  *)
RecordsAccount ==
    /\ \A i \in 1..Len(records) :
          /\ Accounts(records[i])
          /\ \A a \in records[i].attempts : attempt[a].state = "settled"
          /\ open # Idle => open.attempts \cap records[i].attempts = {}
    /\ \A i, j \in 1..Len(records) :
          i # j => records[i].attempts \cap records[j].attempts = {}

AttemptsRight == \A a \in Metered : IF a \in Reserved THEN Covered(a) ELSE Bygone(a)

OpenAccounts == open # Idle => Accounts(open)

MetersInv ==
    /\ MetersShape
    /\ AttemptsRight
    /\ OpenAccounts
    /\ RecordsAccount

LEMMA MetersCount == ASSUME NEW S PROVE Met!Cardinality(S) = Cardinality(S)
BY DEF Met!Cardinality, Cardinality

LEMMA RowsFinite ==
  ASSUME MetersHyp, MetersShape, NEW a
  PROVE  /\ IsFiniteSet(meterLedger) /\ IsFiniteSet(Met!Rows(a))
         /\ Cardinality(Met!Rows(a)) \in 0..Cardinality(MeteredRuns)
         /\ \A S : IsFiniteSet(Met!Rows(a) \ S) /\ Cardinality(Met!Rows(a) \ S) \in Nat
         /\ Cardinality(MeteredRuns) \in Nat
<1>1. meterLedger \in SUBSET MeteredRuns /\ IsFiniteSet(MeteredRuns)
  BY DEF MetersHyp, MetersShape
<1>2. IsFiniteSet(meterLedger) /\ Met!Rows(a) \in SUBSET MeteredRuns
  BY <1>1, FS_Subset DEF Met!Rows
<1>3. IsFiniteSet(Met!Rows(a)) /\ Cardinality(Met!Rows(a)) <= Cardinality(MeteredRuns)
  BY <1>1, <1>2, FS_Subset
<1>4. Cardinality(Met!Rows(a)) \in Nat /\ Cardinality(MeteredRuns) \in Nat
  BY <1>1, <1>3, FS_CardinalityType
<1>5. ASSUME NEW S PROVE IsFiniteSet(Met!Rows(a) \ S) /\ Cardinality(Met!Rows(a) \ S) \in Nat
  BY <1>3, FS_Difference, FS_CardinalityType
<1>6. QED
  BY <1>2, <1>3, <1>4, <1>5

LEMMA InOneIteration ==
  ASSUME MetersHyp, MetersInv
  PROVE  /\ \A i \in 1..Len(records) : records[i] \in Iterations /\
              records[i].attempts \subseteq Reserved
         /\ \A i \in 1..Len(records) : \A a \in records[i].attempts : attempt[a].state = "settled"
         /\ open # Idle =>
              \A i \in 1..Len(records) : \A a \in open.attempts : a \notin records[i].attempts
<1>1. \A i \in 1..Len(records) : records[i] \in Iterations
  BY DEF MetersInv, MetersShape
<1>2. QED
  BY <1>1 DEF MetersInv, RecordsAccount, Accounts

(* The records account as long as nobody touches their attempts.            *)
LEMMA RecordsKept ==
  ASSUME MetersHyp, MetersInv, records' = records,
         \A i \in 1..Len(records) : \A a \in records[i].attempts :
            attempt'[a] = attempt[a] /\ spent'[a] = spent[a] /\ Met!Rows(a)' = Met!Rows(a)
            /\ a \in Reserved',
         open' # Idle =>
            \A i \in 1..Len(records) : \A a \in open'.attempts : a \notin records[i].attempts
  PROVE  RecordsAccount'
<1>1. ASSUME NEW i \in 1..Len(records) PROVE Accounts(records[i])'
  <2> DEFINE it == records[i]
  <2>1. Accounts(it) /\ it' = it
    BY DEF MetersInv, RecordsAccount
  <2>2. \A a \in it.attempts : attempt'[a] = attempt[a] /\ spent'[a] = spent[a]
          /\ Met!Rows(a)' = Met!Rows(a) /\ a \in Reserved'
    OBVIOUS
  <2> HIDE DEF it
  <2>3. DOMAIN it.byEntry \subseteq it.attempts
    BY <2>1 DEF Accounts
  <2>4. RowsBy(DOMAIN it.byEntry)' = RowsBy(DOMAIN it.byEntry)
    <3>1. \A a \in DOMAIN it.byEntry :
          {r \in meterLedger' : Owner[r] = a} = {r \in meterLedger : Owner[r] = a}
      BY <2>2, <2>3 DEF Met!Rows
    <3>2. \A r : r \in meterLedger /\ Owner[r] \in DOMAIN it.byEntry => r \in meterLedger'
      BY <3>1
    <3>3. \A r : r \in meterLedger' /\ Owner[r] \in DOMAIN it.byEntry => r \in meterLedger
      BY <3>1
    <3>4. QED
      BY <2>1, <3>2, <3>3 DEF RowsBy
  <2>5. /\ it'.attempts \subseteq Reserved'
        /\ it'.runs = Total(it'.byEntry, DOMAIN it'.byEntry)
        /\ it'.ids = RowsBy(DOMAIN it.byEntry)'
    BY <2>1, <2>2, <2>4 DEF Accounts
  <2>6. Accounts(it)'
    BY <2>1, <2>2, <2>3, <2>5 DEF Accounts
  <2>7. QED
    BY <2>6 DEF it
<1>2. QED
  BY <1>1 DEF MetersInv, RecordsAccount

LEMMA MetersStart == ASSUME MetersHyp, Met!MetersInit PROVE MetersInv
<1>1. Cardinality(MeteredRuns) \in Nat
  BY FS_CardinalityType DEF MetersHyp
<1>2. MetersShape
  <2>1. [state |-> "legacy", charged |-> 0, links |-> {}] \in AttemptRecords
    BY <1>1 DEF AttemptRecords, Figures
  <2>2. attempt \in [Metered -> {Absent} \union AttemptRecords]
    BY <2>1 DEF Met!MetersInit
  <2>3. tombs \in [{} -> Figures] /\ spent \in [Metered -> Figures]
    BY <1>1 DEF Met!MetersInit, Met!Nothing, Figures
  <2>4. tombs \in Reports
    BY <2>3 DEF Reports
  <2>5. QED
    BY <2>2, <2>3, <2>4 DEF MetersShape, Met!MetersInit, MetersHyp
<1>3. AttemptsRight
  <2>1. ASSUME NEW a \in Metered PROVE a \notin Reserved /\ Bygone(a)
    BY DEF Met!MetersInit, Met!Nothing, Reserved, Bygone, Met!Rows
  <2>2. QED
    BY <2>1 DEF AttemptsRight
<1>4. OpenAccounts /\ RecordsAccount
  BY DEF Met!MetersInit, OpenAccounts, RecordsAccount
<1>5. QED
  BY <1>2, <1>3, <1>4 DEF MetersInv

(* Steps that leave attempts, tombstones, rows and figures alone.           *)
LEMMA AttemptsUntouched ==
  ASSUME MetersInv, UNCHANGED <<attempt, tombs, meterLedger, spent>>
  PROVE  Reserved' = Reserved /\ AttemptsRight' /\ \A a : Met!Rows(a)' = Met!Rows(a)
BY DEF MetersInv, AttemptsRight, Reserved, Covered, Bygone, Met!Rows

LEMMA BeginKeeps == ASSUME MetersHyp, MetersInv, Met!BeginIteration PROVE MetersInv'
<1>1. UNCHANGED <<attempt, tombs, meterLedger, records, spent>> /\ open' = Met!Fresh
      /\ Len(records) < MaxRecords
  BY DEF Met!BeginIteration
<1>2. Met!Fresh \in Iterations
  <2>1. Met!Nothing \in [{} -> Figures]
    BY DEF Met!Nothing
  <2>2. Met!Nothing \in Reports
    BY <2>1 DEF Reports
  <2>3. QED
    BY <2>2 DEF Met!Fresh, Iterations
<1>3. MetersShape'
  BY <1>1, <1>2 DEF MetersInv, MetersShape
<1>4. Reserved' = Reserved /\ AttemptsRight' /\ \A a : Met!Rows(a)' = Met!Rows(a)
  BY <1>1, AttemptsUntouched
<1>5. OpenAccounts'
  <2>1. DOMAIN Met!Fresh.byEntry = {} /\ Met!Fresh.attempts = {} /\ Met!Fresh.ids = {} /\
        Met!Fresh.runs = 0
    BY DEF Met!Fresh, Met!Nothing
  <2>2. open'.runs = Total(open'.byEntry, DOMAIN open'.byEntry)
    BY <1>1, <2>1, SumNone
  <2>3. RowsBy(DOMAIN open.byEntry)' = {}
    BY <1>1, <2>1 DEF RowsBy
  <2>4. QED
    BY <1>1, <2>1, <2>2, <2>3 DEF OpenAccounts, Accounts
<1>6. RecordsAccount'
  <2>1. open'.attempts = {}
    BY <1>1 DEF Met!Fresh
  <2>2. QED
    BY <1>1, <1>4, <2>1, RecordsKept, InOneIteration
<1>7. QED
  BY <1>3, <1>4, <1>5, <1>6 DEF MetersInv

LEMMA ChargeKeeps == ASSUME MetersHyp, MetersInv, Met!Charge PROVE MetersInv'
<1>1. UNCHANGED <<attempt, tombs, meterLedger, records, spent>> /\ open # Idle
      /\ open' = [open EXCEPT !.cost = @ + 1] /\ open \in Iterations
  BY DEF Met!Charge, MetersInv, MetersShape
<1>2. /\ open' \in Iterations /\ open'.byEntry = open.byEntry /\ open'.attempts = open.attempts
      /\ open'.ids = open.ids /\ open'.runs = open.runs
  BY <1>1 DEF Iterations
<1>3. MetersShape'
  BY <1>1, <1>2 DEF MetersInv, MetersShape
<1>4. Reserved' = Reserved /\ AttemptsRight' /\ \A a : Met!Rows(a)' = Met!Rows(a)
  BY <1>1, AttemptsUntouched
<1>5. OpenAccounts'
  <2>1. Accounts(open)
    BY <1>1 DEF MetersInv, OpenAccounts
  <2>2. RowsBy(DOMAIN open.byEntry)' = RowsBy(DOMAIN open.byEntry)
    BY <1>1, <1>2 DEF RowsBy
  <2>3. QED
    BY <1>1, <1>2, <1>4, <2>1, <2>2 DEF OpenAccounts, Accounts
<1>6. RecordsAccount'
  BY <1>1, <1>2, <1>4, RecordsKept, InOneIteration
<1>7. QED
  BY <1>3, <1>4, <1>5, <1>6 DEF MetersInv

LEMMA DeathKeeps == ASSUME MetersHyp, MetersInv, Met!CoordinatorDies PROVE MetersInv'
<1>1. UNCHANGED <<attempt, tombs, meterLedger, records, spent>> /\ open' = Idle
  BY DEF Met!CoordinatorDies
<1>2. MetersShape'
  BY <1>1 DEF MetersInv, MetersShape
<1>3. Reserved' = Reserved /\ AttemptsRight' /\ \A a : Met!Rows(a)' = Met!Rows(a)
  BY <1>1, AttemptsUntouched
<1>4. RecordsAccount'
  BY <1>1, <1>3, RecordsKept, InOneIteration
<1>5. QED
  BY <1>1, <1>2, <1>3, <1>4 DEF MetersInv, OpenAccounts

(* A step on one attempt leaves the others right.                           *)
LEMMA OthersRight ==
  ASSUME MetersInv, NEW a \in Metered,
         \A b \in Metered \ {a} :
            attempt'[b] = attempt[b] /\ spent'[b] = spent[b] /\ Met!Rows(b)' = Met!Rows(b)
            /\ (b \in DOMAIN tombs' <=> b \in DOMAIN tombs)
            /\ (b \in DOMAIN tombs => tombs'[b] = tombs[b])
  PROVE  /\ \A b \in Metered \ {a} : b \in Reserved' <=> b \in Reserved
         /\ (a \in Reserved' => Covered(a)') /\ (a \notin Reserved' => Bygone(a)') => AttemptsRight'
<1>1. \A b \in Metered \ {a} : b \in Reserved' <=> b \in Reserved
  BY DEF Reserved
<1>2. ASSUME NEW b \in Metered \ {a}
      PROVE  (b \in Reserved' => Covered(b)') /\ (b \notin Reserved' => Bygone(b)')
  BY <1>1 DEF MetersInv, AttemptsRight, Covered, Bygone
<1>3. QED
  BY <1>1, <1>2 DEF AttemptsRight

LEMMA ReserveKeeps ==
  ASSUME MetersHyp, MetersInv, NEW a \in Metered, Met!Reserve(a) PROVE MetersInv'
<1> DEFINE new == [state |-> "active", charged |-> 1, links |-> {}]
<1>1. /\ open # Idle /\ attempt[a] = Absent /\ a \notin DOMAIN tombs
      /\ attempt' = [attempt EXCEPT ![a] = new]
      /\ open' = [open EXCEPT !.attempts = @ \union {a}]
      /\ spent' = [spent EXCEPT ![a] = 1]
      /\ UNCHANGED <<tombs, meterLedger, records>>
  BY DEF Met!Reserve
<1>2. Cardinality(MeteredRuns) \in Nat
  BY FS_CardinalityType DEF MetersHyp
<1>3. new \in AttemptRecords /\ 1 \in Figures /\ new # Absent
  BY <1>2 DEF AttemptRecords, Figures, MetersHyp
<1>4. /\ open \in Iterations /\ open' \in Iterations /\ open'.attempts = open.attempts \union {a}
      /\ open'.byEntry = open.byEntry /\ open'.ids = open.ids /\ open'.runs = open.runs
  BY <1>1 DEF Iterations, MetersInv, MetersShape
<1>5. attempt \in [Metered -> {Absent} \union AttemptRecords] /\ spent \in [Metered -> Figures]
  BY DEF MetersInv, MetersShape
<1>6. MetersShape'
  <2>1. attempt' \in [Metered -> {Absent} \union AttemptRecords] /\ spent' \in [Metered -> Figures]
    BY <1>1, <1>3, <1>5
  <2>2. QED
    BY <1>1, <1>4, <2>1 DEF MetersInv, MetersShape
<1>7. a \notin Reserved /\ attempt'[a] = new /\ spent'[a] = 1 /\ a \in Reserved'
  BY <1>1, <1>3, <1>5 DEF Reserved
<1>8. \A b : Met!Rows(b)' = Met!Rows(b)
  BY <1>1 DEF Met!Rows
<1>9. \A b \in Metered \ {a} : attempt'[b] = attempt[b] /\ spent'[b] = spent[b]
  BY <1>1, <1>5
<1>10. /\ AttemptsRight' /\ \A b \in Metered \ {a} : b \in Reserved' <=> b \in Reserved
  <2>1. Met!Rows(a)' = {}
    BY <1>7, <1>8 DEF MetersInv, AttemptsRight, Bygone
  <2>2. /\ Cardinality(Met!Rows(a)') = 0
        /\ Cardinality(Met!Rows(a)' \ attempt'[a].links) = 0
    <3> DEFINE R == Met!Rows(a)' D == Met!Rows(a)' \ attempt'[a].links
    <3>1. R = {} /\ D = {}
      BY <2>1
    <3> HIDE DEF R, D
    <3>2. Cardinality(R) = 0 /\ Cardinality(D) = 0
      BY <3>1, FS_EmptySet
    <3>3. QED
      BY <3>2 DEF R, D
  <2>3. Covered(a)'
    BY <1>1, <1>7, <2>2 DEF Covered
  <2>4. QED
    BY <1>1, <1>7, <1>8, <1>9, <2>3, OthersRight
<1>11. a \notin open.attempts /\ \A i \in 1..Len(records) : a \notin records[i].attempts
  BY <1>1, <1>7, InOneIteration DEF MetersInv, OpenAccounts, Accounts
<1>12. OpenAccounts'
  <2>1. Accounts(open)
    BY <1>1 DEF MetersInv, OpenAccounts
  <2>2. open.attempts \subseteq Reserved /\ DOMAIN open.byEntry \subseteq open.attempts
    BY <2>1 DEF Accounts
  <2>3. open.attempts \subseteq Metered \ {a}
    BY <2>2, <1>11 DEF Reserved
  <2>4. \A b \in open.attempts : attempt'[b] = attempt[b] /\ spent'[b] = spent[b] /\ b \in Reserved'
    BY <2>2, <2>3, <1>9, <1>10
  <2>5. open'.ids = RowsBy(DOMAIN open.byEntry)' /\
        open'.runs = Total(open'.byEntry, DOMAIN open'.byEntry)
    BY <2>1, <1>1, <1>4 DEF Accounts, RowsBy
  <2>6. \A b \in DOMAIN open'.byEntry : open'.byEntry[b] = spent'[b] /\
        Cardinality(Met!Rows(b)') <= spent'[b]
    BY <2>1, <2>2, <2>4, <1>4, <1>8 DEF Accounts
  <2>7. \A b \in open'.attempts : attempt'[b].state = "settled" =>
            b \in DOMAIN open'.byEntry /\ attempt'[b].charged = spent'[b]
    BY <2>1, <2>4, <1>4, <1>7 DEF Accounts
  <2>8. QED
    BY <1>4, <1>7, <2>2, <2>4, <2>5, <2>6, <2>7 DEF OpenAccounts, Accounts
<1>13. RecordsAccount'
  <2>1. \A i \in 1..Len(records) : \A b \in records[i].attempts : b \in Metered \ {a} /\
        b \in Reserved
    BY <1>11, InOneIteration DEF Reserved
  <2>2. \A i \in 1..Len(records) : \A b \in open'.attempts : b \notin records[i].attempts
    BY <1>1, <1>4, <1>11, InOneIteration
  <2>3. QED
    BY <1>1, <1>8, <1>9, <1>10, <2>1, <2>2, RecordsKept
<1>14. QED
  BY <1>6, <1>10, <1>12, <1>13 DEF MetersInv

(* harvest() appends to the rows of an attempt nobody accounted for yet.    *)
LEMMA RetainKeeps ==
  ASSUME MetersHyp, MetersInv, NEW r \in MeteredRuns, Met!Retain(r) PROVE MetersInv'
<1> DEFINE w == Owner[r]
<1>1. /\ r \notin meterLedger /\ meterLedger' = meterLedger \union {r}
      /\ w = Hand \/ Met!Working(w)
      /\ UNCHANGED <<attempt, tombs, open, records, spent>>
  BY DEF Met!Retain
<1>2. MetersShape'
  BY <1>1 DEF MetersInv, MetersShape
<1>3. Reserved' = Reserved /\ w \in Metered \union {Hand}
  BY <1>1 DEF Reserved, MetersHyp
<1>4. \A b : b # w => Met!Rows(b)' = Met!Rows(b)
  BY <1>1 DEF Met!Rows
<1>5. Met!Rows(w)' = Met!Rows(w) \union {r} /\ r \notin Met!Rows(w)
  BY <1>1 DEF Met!Rows
<1>6. w \in Metered => open # Idle /\ w \in open.attempts /\
      w \notin DOMAIN open.byEntry /\ w \in Reserved
  <2>1. w \in Metered => Met!Working(w)
    BY <1>1 DEF MetersHyp
  <2>2. open # Idle => open.attempts \subseteq Reserved
    BY DEF MetersInv, OpenAccounts, Accounts
  <2>3. QED
    BY <2>1, <2>2 DEF Met!Working
<1>7. AttemptsRight'
  <2>1. ASSUME NEW b \in Metered, b # w
        PROVE  (b \in Reserved => Covered(b)') /\ (b \notin Reserved => Bygone(b)')
    BY <2>1, <1>1, <1>3, <1>4 DEF MetersInv, AttemptsRight, Covered, Bygone
  <2>2. ASSUME w \in Metered PROVE w \in Reserved /\ Covered(w)'
    <3> DEFINE R == Met!Rows(w) L == attempt[w].links
    <3>1. Covered(w) /\ w \in Reserved
      BY <2>2, <1>6 DEF MetersInv, AttemptsRight
    <3>2. IsFiniteSet(R) /\ IsFiniteSet(R \ L) /\ Cardinality(R) \in Nat /\
          Cardinality(R \ L) \in Nat
      BY RowsFinite DEF MetersInv
    <3>3. L \subseteq R /\ r \notin R
      BY <3>1, <1>5 DEF Covered
    <3>4. Cardinality(R \union {r}) = Cardinality(R) + 1
      BY <3>2, <3>3, FS_AddElement
    <3>5. (R \union {r}) \ L = (R \ L) \union {r} /\ r \notin R \ L
      BY <3>3
    <3>6. Cardinality((R \union {r}) \ L) = Cardinality(R \ L) + 1
      BY <3>2, <3>5, FS_AddElement
    <3>7. spent[w] \in Int /\ attempt[w].charged \in Int
      <4>1. attempt[w] \in AttemptRecords /\ spent[w] \in Figures
        BY <2>2, <3>1 DEF MetersInv, MetersShape, Reserved
      <4>2. QED
        BY <4>1 DEF AttemptRecords, Figures
    <3>8. /\ w \notin DOMAIN tombs
          /\ attempt[w].state = "active" => L = {} /\ attempt[w].charged = 1
          /\ spent[w] <= attempt[w].charged + Cardinality(R \ L)
          /\ Cardinality(R) <= attempt[w].charged + Cardinality(R \ L)
      BY <3>1 DEF Covered
    <3>9. /\ spent[w] <= attempt[w].charged + Cardinality((R \union {r}) \ L)
          /\ Cardinality(R \union {r}) <= attempt[w].charged + Cardinality((R \union {r}) \ L)
      <4> HIDE DEF R, L
      <4>1. QED
        BY <3>2, <3>4, <3>6, <3>7, <3>8
    <3>10. Met!Rows(w)' = R \union {r} /\ L \subseteq R \union {r}
      BY <1>5, <3>3
    <3>11. QED
      BY <3>1, <3>8, <3>9, <3>10, <1>1 DEF Covered
  <2>3. QED
    BY <2>1, <2>2, <1>3 DEF AttemptsRight
<1>8. OpenAccounts'
  <2> SUFFICES ASSUME open # Idle PROVE Accounts(open)'
    BY <1>1 DEF OpenAccounts
  <2>1. Accounts(open)
    BY DEF MetersInv, OpenAccounts
  <2>2. w \notin DOMAIN open.byEntry
    <3>1. DOMAIN open.byEntry \subseteq Metered
      BY <2>1 DEF Accounts, Reserved
    <3>2. QED
      BY <3>1, <1>3, <1>6 DEF MetersHyp
  <2>3. RowsBy(DOMAIN open.byEntry)' = RowsBy(DOMAIN open.byEntry)
    BY <1>1, <2>2 DEF RowsBy
  <2>4. QED
    BY <1>1, <1>3, <1>4, <2>1, <2>2, <2>3 DEF Accounts
<1>9. RecordsAccount'
  <2>1. \A i \in 1..Len(records) : \A b \in records[i].attempts : b # w /\ b \in Reserved
    BY <1>3, <1>6, InOneIteration DEF Reserved, MetersHyp
  <2>2. QED
    BY <1>1, <1>3, <1>4, <2>1, RecordsKept, InOneIteration
<1>10. QED
  BY <1>2, <1>7, <1>8, <1>9 DEF MetersInv

(* The rest is about an attempt that is in no record.                       *)
LEMMA OtherRecords ==
  ASSUME MetersHyp, MetersInv, NEW a \in Metered, records' = records,
         \A i \in 1..Len(records) : a \notin records[i].attempts,
         \A b \in Metered \ {a} :
            attempt'[b] = attempt[b] /\ spent'[b] = spent[b] /\ Met!Rows(b)' = Met!Rows(b),
         open' # Idle => open # Idle /\ open'.attempts = open.attempts
  PROVE  RecordsAccount'
<1>1. \A i \in 1..Len(records) : \A b \in records[i].attempts : b \in Metered \ {a} /\
      b \in Reserved
  BY InOneIteration DEF Reserved
<1>2. \A b \in Metered \ {a} : b \in Reserved => b \in Reserved'
  BY DEF Reserved
<1>3. open' # Idle =>
        \A i \in 1..Len(records) : \A b \in open'.attempts : b \notin records[i].attempts
  BY InOneIteration
<1>4. QED
  BY <1>1, <1>2, <1>3, RecordsKept

LEMMA AttributeKeeps ==
  ASSUME MetersHyp, MetersInv, NEW a \in Metered, Met!Attribute(a) PROVE MetersInv'
<1> DEFINE R == Met!Rows(a) D == DOMAIN open.byEntry
<1>1. /\ open # Idle /\ a \in open.attempts /\ a \notin D
      /\ UNCHANGED <<attempt, tombs, meterLedger, records>>
  BY DEF Met!Attribute, Met!Working
<1>2. PICK k \in {Cardinality(R), Cardinality(R) + 1} \ {0} :
        /\ open' = [open EXCEPT !.runs = @ + k, !.ids = @ \union R,
                                !.byEntry = [b \in DOMAIN @ \union {a} |->
                                                IF b = a THEN k ELSE @[b]]]
        /\ spent' = [spent EXCEPT ![a] = k]
  BY MetersCount DEF Met!Attribute
<1>3. Cardinality(R) \in 0..Cardinality(MeteredRuns) /\ Cardinality(MeteredRuns) \in Nat
      /\ IsFiniteSet(R)
  BY RowsFinite DEF MetersInv
<1>4. k \in Figures /\ k \in Nat /\ Cardinality(R) <= k /\ k <= Cardinality(R) + 1
  BY <1>3 DEF Figures
<1>5. open \in Iterations /\ open.byEntry \in Reports /\ Accounts(open)
  BY <1>1 DEF MetersInv, MetersShape, OpenAccounts, Iterations
<1>6. D \subseteq Metered /\ open.byEntry \in [D -> Figures]
  BY <1>5 DEF Reports
<1> DEFINE new == [b \in D \union {a} |-> IF b = a THEN k ELSE open.byEntry[b]]
<1>7. /\ open'.byEntry = new /\ open'.runs = open.runs + k /\ open'.ids = open.ids \union R
      /\ open'.attempts = open.attempts /\ open'.cost = open.cost
  BY <1>2, <1>5 DEF Iterations
<1>8. new \in Reports /\ DOMAIN new = D \union {a} /\ new[a] = k /\
      \A b \in D : new[b] = open.byEntry[b]
  <2>1. new \in [D \union {a} -> Figures]
    BY <1>4, <1>6
  <2>2. QED
    BY <1>1, <1>6, <2>1 DEF Reports
<1>9. open' \in Iterations
  <2> HIDE DEF new
  <2>1. open' = [cost |-> open.cost, runs |-> open.runs + k, ids |-> open.ids \union R,
                 attempts |-> open.attempts, byEntry |-> new]
    BY <1>2, <1>5, <1>7 DEF Iterations
  <2>2. R \in SUBSET MeteredRuns
    BY DEF MetersInv, MetersShape, Met!Rows
  <2>3. QED
    BY <1>4, <1>5, <1>8, <2>1, <2>2 DEF Iterations
<1>10. spent \in [Metered -> Figures] /\ spent' \in [Metered -> Figures] /\ spent'[a] = k
       /\ \A b \in Metered \ {a} : spent'[b] = spent[b]
  BY <1>2, <1>4 DEF MetersInv, MetersShape
<1>11. MetersShape'
  BY <1>1, <1>9, <1>10 DEF MetersInv, MetersShape
<1>12. Reserved' = Reserved /\ a \in Reserved /\ \A b : Met!Rows(b)' = Met!Rows(b)
  BY <1>1, <1>5 DEF Reserved, Met!Rows, Accounts
<1>13. attempt[a].state = "active"
  <2>1. attempt[a] \in AttemptRecords
    BY <1>12 DEF MetersInv, MetersShape, Reserved
  <2>2. attempt[a].state # "settled"
    BY <1>1, <1>5 DEF Accounts
  <2>3. QED
    BY <1>12, <2>1, <2>2 DEF AttemptRecords, Reserved
<1>14. AttemptsRight'
  <2>1. Covered(a)
    BY <1>12 DEF MetersInv, AttemptsRight
  <2>2. attempt[a].links = {} /\ attempt[a].charged = 1
    BY <1>13, <2>1 DEF Covered
  <2>3. Cardinality(R \ attempt[a].links) = Cardinality(R)
    <3> DEFINE V == R \ attempt[a].links
    <3>1. V = R
      BY <2>2
    <3> HIDE DEF V
    <3>2. Cardinality(V) = Cardinality(R)
      BY <3>1
    <3>3. QED
      BY <3>2 DEF V
  <2>4. spent'[a] <= attempt[a].charged + Cardinality(R \ attempt[a].links)
    BY <1>3, <1>4, <1>10, <2>2, <2>3
  <2>5. Covered(a)'
    BY <1>1, <1>12, <2>1, <2>4 DEF Covered
  <2>6. QED
    BY <1>1, <1>10, <1>12, <2>5, OthersRight
<1>15. OpenAccounts'
  <2>1. DOMAIN open.byEntry \subseteq open.attempts /\ open.attempts \subseteq Reserved
    BY <1>5 DEF Accounts
  <2>2. Total(new, D \union {a}) = open.runs + k
    <3>1. IsFiniteSet(D)
      BY <1>6, FS_Subset DEF MetersHyp
    <3>2. \A b \in D : open.byEntry[b] \in Int
      BY <1>3, <1>6 DEF Figures
    <3>3. \A b \in D \union {a} : new[b] \in Int
      BY <1>4, <1>8, <3>2
    <3> HIDE DEF new, D
    <3>4. Total(new, D \union {a}) = new[a] + Total(new, D)
      BY <1>1, <3>1, <3>3, SumAdd
    <3>5. Total(new, D) = Total(open.byEntry, D)
      BY <1>8, <3>1, <3>2, SumSame
    <3>6. Total(open.byEntry, D) = open.runs
      BY <1>5 DEF Accounts, D
    <3>7. open.runs \in Int
      BY <1>5 DEF Iterations
    <3>8. QED
      BY <1>4, <1>8, <3>4, <3>5, <3>6, <3>7
  <2>3. open.ids \union R = RowsBy(D \union {a})
    BY <1>5 DEF Accounts, RowsBy, Met!Rows
  <2>4. RowsBy(D \union {a})' = {r \in meterLedger : Owner[r] \in DOMAIN open'.byEntry}
    BY <1>1, <1>7, <1>8 DEF RowsBy
  <2>5. open'.ids = {r \in meterLedger' : Owner[r] \in DOMAIN open'.byEntry}
    BY <1>1, <1>7, <1>8, <2>3 DEF RowsBy
  <2>6. open'.runs = Total(open'.byEntry, DOMAIN open'.byEntry)
    <3> HIDE DEF new, D
    <3>1. QED
      BY <1>7, <1>8, <2>2
  <2>7. \A b \in D \union {a} : new[b] = spent'[b] /\ Cardinality(Met!Rows(b)) <= spent'[b]
    BY <1>1, <1>4, <1>5, <1>6, <1>8, <1>10 DEF Accounts
  <2>8. \A b \in open.attempts : attempt[b].state = "settled" =>
            b \in D /\ attempt[b].charged = spent'[b]
    BY <1>1, <1>5, <1>6, <1>10 DEF Accounts
  <2> HIDE DEF new, D
  <2>9. QED
    BY <1>1, <1>7, <1>8, <1>12, <2>1, <2>5, <2>6, <2>7, <2>8 DEF OpenAccounts, Accounts, RowsBy, D
<1>16. RecordsAccount'
  BY <1>1, <1>7, <1>10, <1>12, InOneIteration, OtherRecords
<1>17. QED
  BY <1>11, <1>14, <1>15, <1>16 DEF MetersInv

LEMMA SettleKeeps ==
  ASSUME MetersHyp, MetersInv, NEW a \in Metered, Met!Settle(a) PROVE MetersInv'
<1>1. /\ open # Idle /\ a \in DOMAIN open.byEntry /\ attempt[a].state = "active"
      /\ UNCHANGED <<tombs, meterLedger, open, records, spent>>
  BY DEF Met!Settle
<1>2. PICK links \in {Met!Rows(a), {}} :
        attempt' = [attempt EXCEPT ![a] = [state |-> "settled", links |-> links,
                                           charged |-> open.byEntry[a]]]
  BY DEF Met!Settle
<1> DEFINE new == [state |-> "settled", links |-> links, charged |-> open.byEntry[a]]
<1>3. Accounts(open) /\ open.byEntry[a] = spent[a] /\ Cardinality(Met!Rows(a)) <= spent[a]
      /\ a \in open.attempts /\ a \in Reserved
  BY <1>1 DEF MetersInv, OpenAccounts, Accounts
<1>4. attempt \in [Metered -> {Absent} \union AttemptRecords] /\ spent[a] \in Figures
  BY DEF MetersInv, MetersShape
<1>5. new \in AttemptRecords /\ new # Absent
  <2>1. links \in SUBSET MeteredRuns
    BY DEF MetersInv, MetersShape, Met!Rows
  <2>2. QED
    BY <1>3, <1>4, <2>1 DEF AttemptRecords, MetersHyp
<1>6. /\ attempt' \in [Metered -> {Absent} \union AttemptRecords] /\ attempt'[a] = new
      /\ \A b \in Metered \ {a} : attempt'[b] = attempt[b]
  BY <1>2, <1>4, <1>5
<1>7. MetersShape'
  BY <1>1, <1>6 DEF MetersInv, MetersShape
<1>8. a \in Reserved' /\ \A b : Met!Rows(b)' = Met!Rows(b)
  BY <1>1, <1>5, <1>6 DEF Reserved, Met!Rows
<1>9. AttemptsRight' /\ \A b \in Metered \ {a} : b \in Reserved' <=> b \in Reserved
  <2>1. a \notin DOMAIN tombs
    BY <1>3 DEF MetersInv, AttemptsRight, Covered
  <2>2. Cardinality(Met!Rows(a) \ links) \in Nat /\ Cardinality(Met!Rows(a)) \in Nat
        /\ Cardinality(MeteredRuns) \in Nat
    BY RowsFinite DEF MetersInv
  <2>3. spent[a] <= new.charged + Cardinality(Met!Rows(a) \ links)
        /\ Cardinality(Met!Rows(a)) <= new.charged + Cardinality(Met!Rows(a) \ links)
    BY <1>3, <1>4, <2>2 DEF Figures
  <2>4. links \subseteq Met!Rows(a) /\ new.links = links /\ new.state = "settled"
    OBVIOUS
  <2> HIDE DEF new
  <2>5. Covered(a)'
    BY <1>1, <1>6, <1>8, <2>1, <2>3, <2>4 DEF Covered
  <2>6. QED
    BY <1>1, <1>6, <1>8, <2>5, OthersRight
<1>10. OpenAccounts'
  <2>1. open.attempts \subseteq Reserved' /\ new.charged = spent[a]
    BY <1>3, <1>8, <1>9 DEF Accounts, Reserved
  <2>2. \A b \in open.attempts : attempt'[b].state = "settled" =>
            b \in DOMAIN open.byEntry /\ attempt'[b].charged = spent[b]
    BY <1>1, <1>3, <1>6, <2>1 DEF Accounts, Reserved
  <2>3. RowsBy(DOMAIN open.byEntry)' = RowsBy(DOMAIN open.byEntry)
    BY <1>1 DEF RowsBy
  <2>4. QED
    BY <1>1, <1>3, <1>8, <2>1, <2>2, <2>3 DEF OpenAccounts, Accounts
<1>11. RecordsAccount'
  BY <1>1, <1>3, <1>6, <1>8, InOneIteration, OtherRecords
<1>12. QED
  BY <1>7, <1>9, <1>10, <1>11 DEF MetersInv

LEMMA RecordingKeeps == ASSUME MetersHyp, MetersInv, Met!Record PROVE MetersInv'
<1>1. /\ open # Idle /\ \A a \in open.attempts : attempt[a].state = "settled"
      /\ records' = Append(records, open) /\ open' = Idle
      /\ UNCHANGED <<attempt, tombs, meterLedger, spent>>
  BY DEF Met!Record
<1>2. open \in Iterations /\ records \in Seq(Iterations) /\ Len(records) < MaxRecords
      /\ MaxRecords \in Nat /\ Accounts(open)
  BY <1>1 DEF MetersInv, MetersShape, OpenAccounts, MetersHyp
<1> DEFINE k == Len(records) + 1
<1>3. /\ records' \in Seq(Iterations) /\ Len(records') = k /\ records'[k] = open
      /\ \A i \in 1..Len(records) : records'[i] = records[i]
  BY <1>1, <1>2
<1>4. MetersShape'
  BY <1>1, <1>2, <1>3 DEF MetersInv, MetersShape
<1>5. Reserved' = Reserved /\ AttemptsRight' /\ \A a : Met!Rows(a)' = Met!Rows(a)
  BY <1>1, AttemptsUntouched
<1>6. ASSUME NEW i \in 1..k
      PROVE  Accounts(records[i])' /\ \A a \in records'[i].attempts : attempt'[a].state = "settled"
  <2>1. PICK it : it = records'[i]
    OBVIOUS
  <2>2. Accounts(it) /\ \A a \in it.attempts : attempt[a].state = "settled"
    <3>1. CASE i = k
      BY <1>1, <1>2, <1>3, <2>1, <3>1
    <3>2. CASE i # k
      <4>1. i \in 1..Len(records)
        BY <3>2, <1>2
      <4>2. QED
        BY <1>3, <2>1, <4>1 DEF MetersInv, RecordsAccount
    <3>3. QED
      BY <3>1, <3>2
  <2>3. RowsBy(DOMAIN it.byEntry) = {r \in meterLedger' : Owner[r] \in DOMAIN it.byEntry}
    BY <1>1 DEF RowsBy
  <2>4. QED
    BY <1>1, <1>5, <2>1, <2>2, <2>3 DEF Accounts, RowsBy
<1>7. ASSUME NEW i \in 1..k, NEW j \in 1..k, i # j
      PROVE  records'[i].attempts \cap records'[j].attempts = {}
  <2>1. ASSUME NEW m \in 1..Len(records) PROVE open.attempts \cap records[m].attempts = {}
    BY <1>1 DEF MetersInv, RecordsAccount
  <2>2. k \notin 1..Len(records) /\ \A m \in 1..k : m = k \/ m \in 1..Len(records)
    BY <1>2
  <2>3. CASE i = k
    <3>1. j \in 1..Len(records)
      BY <1>7, <2>2, <2>3
    <3>2. QED
      BY <1>3, <2>1, <2>3, <3>1
  <2>4. CASE j = k
    <3>1. i \in 1..Len(records)
      BY <1>7, <2>2, <2>4
    <3>2. QED
      BY <1>3, <2>1, <2>4, <3>1
  <2>5. CASE i # k /\ j # k
    <3>1. i \in 1..Len(records) /\ j \in 1..Len(records)
      BY <2>2, <2>5
    <3>2. QED
      BY <1>3, <1>7, <3>1 DEF MetersInv, RecordsAccount
  <2>6. QED
    BY <2>3, <2>4, <2>5
<1>8. RecordsAccount' /\ OpenAccounts'
  BY <1>1, <1>3, <1>6, <1>7 DEF RecordsAccount, OpenAccounts
<1>9. QED
  BY <1>4, <1>5, <1>8 DEF MetersInv

LEMMA CancelKeeps ==
  ASSUME MetersHyp, MetersInv, NEW a \in Metered, Met!CancelAttempt(a) PROVE MetersInv'
<1>1. /\ open = Idle /\ a \in Reserved /\ attempt[a].state = "active"
      /\ attempt' = [attempt EXCEPT ![a].state = "settled"]
      /\ UNCHANGED <<tombs, meterLedger, open, records, spent>>
  BY DEF Met!CancelAttempt, Met!Present, Reserved
<1>2. attempt \in [Metered -> {Absent} \union AttemptRecords] /\ attempt[a] \in AttemptRecords
  BY <1>1 DEF MetersInv, MetersShape, Reserved
<1> DEFINE new == [attempt[a] EXCEPT !.state = "settled"]
<1>3. new \in AttemptRecords /\ new # Absent /\ new.state = "settled"
      /\ new.links = attempt[a].links /\ new.charged = attempt[a].charged
  BY <1>2 DEF AttemptRecords, MetersHyp
<1>4. /\ attempt' \in [Metered -> {Absent} \union AttemptRecords] /\ attempt'[a] = new
      /\ \A b \in Metered \ {a} : attempt'[b] = attempt[b]
  BY <1>1, <1>2, <1>3
<1> HIDE DEF new
<1>5. MetersShape'
  BY <1>1, <1>4 DEF MetersInv, MetersShape
<1>6. a \in Reserved' /\ \A b : Met!Rows(b)' = Met!Rows(b)
  BY <1>1, <1>3, <1>4 DEF Reserved, Met!Rows
<1>7. AttemptsRight'
  <2>1. Covered(a)
    BY <1>1 DEF MetersInv, AttemptsRight
  <2>2. Covered(a)'
    BY <1>1, <1>3, <1>4, <1>6, <2>1 DEF Covered
  <2>3. QED
    BY <1>1, <1>4, <1>6, <2>2, OthersRight
<1>8. \A i \in 1..Len(records) : a \notin records[i].attempts
  BY <1>1, InOneIteration
<1>9. RecordsAccount' /\ OpenAccounts'
  BY <1>1, <1>4, <1>6, <1>8, OtherRecords DEF OpenAccounts
<1>10. QED
  BY <1>5, <1>7, <1>9 DEF MetersInv

LEMMA ArchiveKeeps ==
  ASSUME MetersHyp, MetersInv, NEW a \in Metered, Met!Archive(a) PROVE MetersInv'
<1>1. /\ attempt[a] # Absent /\ attempt[a].state = "legacy"
      /\ UNCHANGED <<attempt, meterLedger, open, records, spent>>
  BY DEF Met!Archive, Met!Legacy, Met!Present
<1>2. PICK k \in {0, 1} : tombs' = [b \in DOMAIN tombs \union {a} |-> IF b = a THEN k ELSE tombs[b]]
  BY DEF Met!Archive
<1>3. tombs' \in Reports
  <2>1. 0 \in Figures /\ 1 \in Figures
    BY FS_CardinalityType DEF MetersHyp, Figures
  <2>2. tombs \in [DOMAIN tombs -> Figures] /\ DOMAIN tombs \subseteq Metered
    BY DEF MetersInv, MetersShape, Reports
  <2>3. tombs' \in [DOMAIN tombs \union {a} -> Figures]
    BY <1>2, <2>1, <2>2
  <2>4. DOMAIN tombs \union {a} \in SUBSET Metered
    BY <2>2
  <2>5. QED
    BY <2>3, <2>4 DEF Reports
<1>4. MetersShape'
  BY <1>1, <1>3 DEF MetersInv, MetersShape
<1>5. a \notin Reserved /\ Reserved' = Reserved /\ \A b : Met!Rows(b)' = Met!Rows(b)
  BY <1>1 DEF Reserved, Met!Rows
<1>6. AttemptsRight'
  <2>1. Bygone(a)'
    BY <1>1, <1>5 DEF MetersInv, AttemptsRight, Bygone
  <2>2. \A b \in Metered \ {a} : (b \in DOMAIN tombs' <=> b \in DOMAIN tombs)
                                  /\ (b \in DOMAIN tombs => tombs'[b] = tombs[b])
    <3>1. \A b : b \in DOMAIN tombs' <=> b \in DOMAIN tombs \/ b = a
      BY <1>2
    <3>2. \A b \in DOMAIN tombs : b # a => tombs'[b] = tombs[b]
      BY <1>2
    <3>3. QED
      BY <3>1, <3>2
  <2>3. \A b \in Metered \ {a} : attempt'[b] = attempt[b] /\ spent'[b] = spent[b]
    BY <1>1
  <2>4. a \notin Reserved'
    BY <1>5
  <2>5. QED
    BY <1>5, <2>1, <2>2, <2>3, <2>4, OthersRight
<1>7. RecordsAccount'
  BY <1>1, <1>5, InOneIteration, RecordsKept
<1>8. OpenAccounts'
  <2>1. open # Idle => RowsBy(DOMAIN open.byEntry)' = RowsBy(DOMAIN open.byEntry)
    BY <1>1 DEF RowsBy
  <2>2. QED
    BY <1>1, <1>5, <2>1 DEF MetersInv, OpenAccounts, Accounts
<1>9. QED
  BY <1>4, <1>6, <1>7, <1>8 DEF MetersInv

LEMMA UnlinkKeeps ==
  ASSUME MetersHyp, MetersInv, NEW a \in Metered, Met!UnlinkRecord(a) PROVE MetersInv'
<1>1. /\ attempt[a] # Absent /\ attempt[a].state = "legacy" /\ a \in DOMAIN tombs
      /\ attempt' = [attempt EXCEPT ![a] = Absent] /\ spent' = [spent EXCEPT ![a] = tombs[a]]
      /\ UNCHANGED <<tombs, meterLedger, open, records>>
  BY DEF Met!UnlinkRecord, Met!Legacy, Met!Present
<1>2. attempt \in [Metered -> {Absent} \union AttemptRecords] /\ spent \in [Metered -> Figures]
      /\ tombs[a] \in Figures
  BY <1>1 DEF MetersInv, MetersShape, Reports
<1>3. /\ attempt' \in [Metered -> {Absent} \union AttemptRecords] /\ spent' \in [Metered -> Figures]
      /\ attempt'[a] = Absent /\ spent'[a] = tombs[a]
      /\ \A b \in Metered \ {a} : attempt'[b] = attempt[b] /\ spent'[b] = spent[b]
  BY <1>1, <1>2
<1>4. MetersShape'
  BY <1>1, <1>3 DEF MetersInv, MetersShape
<1>5. a \notin Reserved /\ a \notin Reserved' /\ \A b : Met!Rows(b)' = Met!Rows(b)
  BY <1>1, <1>3 DEF Reserved, Met!Rows
<1>6. AttemptsRight' /\ \A b \in Metered \ {a} : b \in Reserved' <=> b \in Reserved
  <2>1. Bygone(a)'
    BY <1>1, <1>3, <1>5 DEF MetersInv, AttemptsRight, Bygone
  <2>2. QED
    BY <1>1, <1>3, <1>5, <2>1, OthersRight
<1>7. \A i \in 1..Len(records) : a \notin records[i].attempts
  BY <1>5, InOneIteration
<1>8. RecordsAccount'
  BY <1>1, <1>3, <1>5, <1>7, OtherRecords
<1>9. OpenAccounts'
  <2> SUFFICES ASSUME open # Idle PROVE Accounts(open)'
    BY <1>1 DEF OpenAccounts
  <2>1. Accounts(open)
    BY DEF MetersInv, OpenAccounts
  <2>2. \A b \in open.attempts : b \in Metered \ {a} /\ b \in Reserved' /\ attempt'[b] = attempt[b]
                                 /\ spent'[b] = spent[b]
    BY <1>3, <1>5, <1>6, <2>1 DEF Accounts, Reserved
  <2>3. RowsBy(DOMAIN open.byEntry)' = RowsBy(DOMAIN open.byEntry)
    BY <1>1 DEF RowsBy
  <2>4. QED
    BY <1>1, <1>5, <2>1, <2>2, <2>3 DEF Accounts
<1>10. QED
  BY <1>4, <1>6, <1>8, <1>9 DEF MetersInv

LEMMA RestKeeps ==
  ASSUME MetersHyp, MetersInv, UNCHANGED <<attempt, tombs, meterLedger, open, records, spent>>
  PROVE  MetersInv'
<1>1. MetersShape'
  BY DEF MetersInv, MetersShape
<1>2. Reserved' = Reserved /\ AttemptsRight' /\ \A a : Met!Rows(a)' = Met!Rows(a)
  BY AttemptsUntouched
<1>3. OpenAccounts'
  <2> SUFFICES ASSUME open # Idle PROVE Accounts(open)'
    BY DEF OpenAccounts
  <2>1. Accounts(open) /\ RowsBy(DOMAIN open.byEntry)' = RowsBy(DOMAIN open.byEntry)
    BY DEF MetersInv, OpenAccounts, RowsBy
  <2>2. QED
    BY <1>2, <2>1 DEF Accounts
<1>4. RecordsAccount'
  BY <1>2, RecordsKept, InOneIteration
<1>5. QED
  BY <1>1, <1>2, <1>3, <1>4 DEF MetersInv

LEMMA MetersStepsKeep ==
  ASSUME MetersHyp, MetersInv, [Met!MetersNext]_Met!metersVars PROVE MetersInv'
<1>1. CASE Met!MetersNext
  <2>1. CASE Met!BeginIteration \/ Met!Charge \/ Met!Record \/ Met!CoordinatorDies
    BY <2>1, BeginKeeps, ChargeKeeps, RecordingKeeps, DeathKeeps
  <2>2. ASSUME NEW a \in Metered, Met!Reserve(a) \/ Met!Attribute(a) \/ Met!Settle(a)
        PROVE  MetersInv'
    BY <2>2, ReserveKeeps, AttributeKeeps, SettleKeeps
  <2>3. ASSUME NEW a \in Metered, Met!CancelAttempt(a) \/ Met!Archive(a) \/ Met!UnlinkRecord(a)
        PROVE  MetersInv'
    BY <2>3, CancelKeeps, ArchiveKeeps, UnlinkKeeps
  <2>4. ASSUME NEW p \in Appenders, Met!NumberRow(p) \/ Met!WriteRow(p) PROVE MetersInv'
    BY <2>4, RestKeeps DEF Met!NumberRow, Met!WriteRow
  <2>5. QED
    BY <1>1, <2>1, <2>2, <2>3, <2>4, RetainKeeps DEF Met!MetersNext
<1>2. CASE UNCHANGED Met!metersVars
  BY <1>2, RestKeeps DEF Met!metersVars
<1>3. QED
  BY <1>1, <1>2

-----------------------------------------------------------------------------
(* The figures on disk, when they are read.                                 *)

(* The meters sum as RecordProofs does.                                     *)
LEMMA SumOf == ASSUME NEW f PROVE Met!SumFunction(f) = Total(f, DOMAIN f)
BY DEF Met!SumFunction, Met!SumFunctionOnSet, Met!FoldFunctionOnSet, Met!MapThenFoldSet,
       Total, Folding, Turn, Taken

(* The rows no attempt links, and the rows iterations counted.              *)
Loose == meterLedger \ Met!Linked

Told == UNION {records[i].ids : i \in 1..Len(records)}

Recorded(a) == \E i \in 1..Len(records) : a \in records[i].attempts

LEMMA RowFacts ==
  ASSUME MetersHyp, MetersInv
  PROVE  /\ IsFiniteSet(Loose) /\ IsFiniteSet(Told) /\ Loose \subseteq meterLedger
         /\ \A a \in Reserved : Met!Rows(a) \cap Loose = Met!Rows(a) \ attempt[a].links
         /\ Met!Rows(Hand) \cap Loose = Met!Rows(Hand)
         /\ \A a \in Metered \ Reserved : Met!Rows(a) = {}
         /\ Told = RowsBy({a \in Metered : Recorded(a)})
<1>1. IsFiniteSet(meterLedger) /\ Loose \subseteq meterLedger
  BY RowsFinite DEF MetersInv, Loose
<1>2. \A a \in Metered \ Reserved : Met!Rows(a) = {}
  BY DEF MetersInv, AttemptsRight, Bygone
<1>3. \A b \in Met!Present : b \in Metered /\ attempt[b].links \subseteq Met!Rows(b)
  BY DEF MetersInv, AttemptsRight, Bygone, Covered, Met!Present, Reserved
<1>4. \A r \in Met!Linked : \E b \in Metered : r \in attempt[b].links /\ Owner[r] = b
  BY <1>3 DEF Met!Linked, Met!Rows
<1>5. \A a \in Reserved : Met!Rows(a) \cap Loose = Met!Rows(a) \ attempt[a].links
  BY <1>4 DEF Loose, Met!Rows, Reserved, Met!Linked, Met!Present
<1>6. Met!Rows(Hand) \cap Loose = Met!Rows(Hand)
  BY <1>4 DEF Loose, Met!Rows, MetersHyp
<1>7. Told = RowsBy({a \in Metered : Recorded(a)})
  <2>1. ASSUME NEW i \in 1..Len(records)
        PROVE  records[i].ids = RowsBy(records[i].attempts) /\ records[i].attempts \subseteq Metered
    <3>1. Accounts(records[i]) /\ \A a \in records[i].attempts : attempt[a].state = "settled"
      BY DEF MetersInv, RecordsAccount
    <3>2. \A a : a \in records[i].attempts <=> a \in DOMAIN records[i].byEntry
      BY <3>1 DEF Accounts
    <3>3. records[i].ids = RowsBy(DOMAIN records[i].byEntry) /\
          records[i].attempts \subseteq Metered
      BY <3>1 DEF Accounts, Reserved
    <3>4. QED
      BY <3>2, <3>3 DEF RowsBy
  <2>2. QED
    BY <2>1 DEF Told, RowsBy, Recorded
<1>8. IsFiniteSet(Loose) /\ IsFiniteSet(Told)
  BY <1>1, <1>7, FS_Subset DEF RowsBy
<1>9. QED
  BY <1>1, <1>2, <1>5, <1>6, <1>7, <1>8

(* What a record says: each of its attempts at its charge.                  *)
LEMMA RecordFacts ==
  ASSUME MetersHyp, MetersInv, NEW i \in 1..Len(records)
  PROVE  /\ records[i] \in Iterations
         /\ records[i].attempts \subseteq Reserved /\ IsFiniteSet(records[i].attempts)
         /\ records[i].attempts = DOMAIN records[i].byEntry
         /\ records[i].byEntry \in [records[i].attempts -> Figures]
         /\ records[i].runs = Total(records[i].byEntry, records[i].attempts)
         /\ records[i].ids = RowsBy(records[i].attempts)
         /\ \A a \in records[i].attempts :
               /\ records[i].byEntry[a] = attempt[a].charged /\ attempt[a].charged = spent[a]
               /\ Cardinality(Met!Rows(a)) <= spent[a]
<1>1. /\ Accounts(records[i]) /\ records[i] \in Iterations
      /\ \A a \in records[i].attempts : attempt[a].state = "settled"
  BY DEF MetersInv, RecordsAccount, MetersShape
<1>2. records[i].byEntry \in Reports
  BY <1>1 DEF Iterations
<1>3. records[i].byEntry \in [DOMAIN records[i].byEntry -> Figures]
  BY <1>2 DEF Reports
<1>4. PICK D : D = DOMAIN records[i].byEntry
  OBVIOUS
<1>5. PICK A : A = records[i].attempts
  OBVIOUS
<1>6. A = D
  BY <1>1, <1>4, <1>5 DEF Accounts
<1>7. /\ A \subseteq Reserved /\ records[i].byEntry \in [A -> Figures]
      /\ records[i].runs = Total(records[i].byEntry, A) /\ records[i].ids = RowsBy(A)
  BY <1>1, <1>3, <1>4, <1>5, <1>6 DEF Accounts
<1>8. IsFiniteSet(A)
  BY <1>7, FS_Subset DEF MetersHyp, Reserved
<1>9. \A a \in A : /\ records[i].byEntry[a] = attempt[a].charged /\ attempt[a].charged = spent[a]
                   /\ Cardinality(Met!Rows(a)) <= spent[a]
  BY <1>1, <1>4, <1>5, <1>6 DEF Accounts
<1>10. QED
  BY <1>1, <1>4, <1>5, <1>6, <1>7, <1>8, <1>9

LEMMA FiguresAreInt ==
  ASSUME MetersHyp
  PROVE  Figures \subseteq Nat /\ Figures \subseteq Int
BY FS_CardinalityType DEF MetersHyp, Figures

LEMMA ChargesOf ==
  ASSUME MetersHyp, MetersInv, NEW A \in SUBSET Reserved
  PROVE  /\ IsFiniteSet(A) /\ Met!Charges(A) \in Nat
         /\ Met!Charges(A) = Total([a \in A |-> attempt[a].charged], A)
         /\ \A a \in A : attempt[a].charged \in Nat
<1> DEFINE f == [a \in A |-> attempt[a].charged]
<1>1. IsFiniteSet(A)
  BY FS_Subset DEF MetersHyp, Reserved
<1>2. \A a \in A : attempt[a].charged \in Nat
  <2>1. \A a \in A : attempt[a] \in AttemptRecords
    BY DEF MetersInv, MetersShape, Reserved
  <2>2. QED
    BY <2>1, FiguresAreInt DEF AttemptRecords
<1>3. Met!Charges(A) = Total(f, DOMAIN f) /\ DOMAIN f = A
  BY SumOf DEF Met!Charges
<1>4. \A a \in A : f[a] \in Nat
  BY <1>2
<1> HIDE DEF f
<1>5. Total(f, A) \in Nat /\ Met!Charges(A) = Total(f, A)
  BY <1>1, <1>3, <1>4, SumNat
<1>6. QED
  BY <1>1, <1>2, <1>5 DEF f

(* The reports of the iterations are all discounted by what they charge ... *)
LEMMA DiscountIsAll ==
  ASSUME MetersHyp, MetersInv, Met!Legacy = {}
  PROVE  /\ Met!Discount = Met!SumFunction([i \in DOMAIN records |-> records[i].runs])
         /\ Met!Discount \in Int
<1>1. DOMAIN records = 1..Len(records) /\ IsFiniteSet(DOMAIN records) /\ Len(records) \in Nat
  <2>1. records \in Seq(Iterations)
    BY DEF MetersInv, MetersShape
  <2>2. QED
    BY <2>1, FS_Interval
<1>2. Met!Present = Reserved
  BY DEF Met!Legacy, Met!Present, Reserved
<1> DEFINE seen(i) == UNION {records[m].attempts : m \in 1..(i - 1)}
           charge(i) == Met!Charges((records[i].attempts \cap Met!Present) \ seen(i))
           f == [i \in DOMAIN records |-> IF charge(i) <= records[i].runs THEN charge(i)
                                          ELSE records[i].runs]
           g == [i \in DOMAIN records |-> records[i].runs]
<1>3. Met!Discount = Total(f, DOMAIN records)
  <2>1. Met!Discount = Met!SumFunction(f)
    BY DEF Met!Discount
  <2>2. Met!SumFunction(f) = Total(f, DOMAIN f) /\ DOMAIN f = DOMAIN records
    BY SumOf
  <2> HIDE DEF f
  <2>3. QED
    BY <2>1, <2>2
<1>4. Met!SumFunction(g) = Total(g, DOMAIN records)
  <2>1. Met!SumFunction(g) = Total(g, DOMAIN g) /\ DOMAIN g = DOMAIN records
    BY SumOf
  <2> HIDE DEF g
  <2>2. QED
    BY <2>1
<1>5. ASSUME NEW i \in DOMAIN records PROVE f[i] = g[i] /\ g[i] \in Int
  <2> DEFINE A == records[i].attempts X == (records[i].attempts \cap Met!Present) \ seen(i)
  <2>1. i \in 1..Len(records)
    BY <1>1
  <2>2. A \in SUBSET Reserved /\ IsFiniteSet(A) /\ records[i].runs \in Nat
        /\ records[i].runs = Total(records[i].byEntry, A)
    BY <2>1, RecordFacts DEF Iterations
  <2>3. X = A
    <3>1. \A m \in 1..(i - 1) : m \in 1..Len(records) /\ m # i
      BY <1>1, <2>1
    <3>2. \A m \in 1..(i - 1) : records[m].attempts \cap records[i].attempts = {}
      BY <2>1, <3>1 DEF MetersInv, RecordsAccount
    <3>3. QED
      BY <1>2, <2>2, <3>2
  <2>4. Met!Charges(A) = records[i].runs
    <3> DEFINE c == [a \in A |-> attempt[a].charged]
    <3>1. Met!Charges(A) = Total(c, A) /\ \A a \in A : c[a] \in Int
      BY <2>2, ChargesOf
    <3>2. \A a \in A : c[a] = records[i].byEntry[a]
      BY <2>1, RecordFacts
    <3> HIDE DEF c, A
    <3>3. Total(c, A) = Total(records[i].byEntry, A)
      BY <2>2, <3>1, <3>2, SumSame
    <3>4. QED
      BY <2>2, <3>1, <3>3
  <2>5. charge(i) = Met!Charges(X)
    OBVIOUS
  <2>6. f[i] = (IF charge(i) <= records[i].runs THEN charge(i) ELSE records[i].runs)
        /\ g[i] = records[i].runs
    OBVIOUS
  <2> HIDE DEF X, A, charge, f, g
  <2>7. QED
    BY <2>2, <2>3, <2>4, <2>5, <2>6
<1> HIDE DEF f
<1>6. Total(f, DOMAIN records) = Total(g, DOMAIN records) /\ Total(g, DOMAIN records) \in Int
  <2> HIDE DEF g
  <2>1. QED
    BY <1>1, <1>5, SumSame, SumTake
<1>7. QED
  BY <1>3, <1>4, <1>6

(* No record says more rows than runs.                                      *)
LEMMA RowsAreRuns ==
  ASSUME MetersHyp, MetersInv, NEW i \in 1..Len(records)
  PROVE  IsFiniteSet(records[i].ids) /\ Cardinality(records[i].ids) <= records[i].runs
         /\ Cardinality(records[i].ids) \in Nat
<1> DEFINE A == records[i].attempts
           F == [a \in A |-> Met!Rows(a)]
           c == [a \in A |-> Cardinality(F[a])]
           all == UNION {F[a] : a \in A}
<1>1. /\ A \subseteq Reserved /\ IsFiniteSet(A) /\ records[i].byEntry \in [A -> Figures]
      /\ records[i].runs = Total(records[i].byEntry, A) /\ records[i].ids = RowsBy(A)
      /\ \A a \in A : Cardinality(Met!Rows(a)) <= records[i].byEntry[a]
  BY RecordFacts
<1>2. \A a \in A : IsFiniteSet(F[a]) /\ F[a] = Met!Rows(a)
  BY RowsFinite DEF MetersInv
<1>3. \A a, b \in A : a # b => F[a] \cap F[b] = {}
  BY <1>2 DEF Met!Rows
<1>4. records[i].ids = all
  <2>1. \A r : r \in RowsBy(A) <=> \E a \in A : r \in F[a]
    BY <1>2 DEF RowsBy, Met!Rows
  <2>2. records[i].ids = RowsBy(A)
    BY <1>1
  <2> HIDE DEF F, A
  <2>3. QED
    BY <2>1, <2>2
<1>5. \A a \in A : c[a] \in Int /\ records[i].byEntry[a] \in Int /\ c[a] <= records[i].byEntry[a]
  <2>1. \A a \in A : Cardinality(Met!Rows(a)) \in Int
    BY RowsFinite DEF MetersInv
  <2>2. \A a \in A : records[i].byEntry[a] \in Int
    BY <1>1, FiguresAreInt
  <2>3. QED
    BY <1>1, <2>1, <2>2
<1>6. IsFiniteSet(all) /\ Cardinality(all) = Total(c, A)
  <2> HIDE DEF F
  <2>1. QED
    BY <1>1, <1>2, <1>3, CountByParts
<1>7. Total(c, A) <= Total(records[i].byEntry, A)
  <2> HIDE DEF c, A
  <2>1. QED
    BY <1>1, <1>5, SumOrder
<1> HIDE DEF all, A, c
<1>8. Cardinality(all) <= records[i].runs /\ Cardinality(all) \in Nat
  BY <1>1, <1>6, <1>7, FS_CardinalityType
<1>9. QED
  BY <1>4, <1>6, <1>8

(* ... and the rows they counted are taken off once.                        *)
LEMMA OverlapIsTold ==
  ASSUME MetersHyp, MetersInv
  PROVE  Met!Overlap(Loose) = Cardinality(Loose \cap Told) /\ IsFiniteSet(Loose \cap Told)
<1>1. DOMAIN records = 1..Len(records) /\ IsFiniteSet(DOMAIN records) /\ Len(records) \in Nat
  <2>1. records \in Seq(Iterations)
    BY DEF MetersInv, MetersShape
  <2>2. QED
    BY <2>1, FS_Interval
<1> DEFINE seen(i) == UNION {records[m].ids : m \in 1..(i - 1)}
           share(i) == Met!Cardinality((Loose \cap records[i].ids) \ seen(i))
           f == [i \in DOMAIN records |-> IF share(i) <= records[i].runs THEN share(i)
                                          ELSE records[i].runs]
           F == [i \in DOMAIN records |-> Loose \cap records[i].ids]
           g == [i \in DOMAIN records |-> Cardinality(F[i])]
           all == UNION {F[i] : i \in DOMAIN records}
<1>2. Met!Overlap(Loose) = Total(f, DOMAIN records)
  <2>1. Met!Overlap(Loose) = Met!SumFunction(f)
    BY DEF Met!Overlap
  <2>2. Met!SumFunction(f) = Total(f, DOMAIN f) /\ DOMAIN f = DOMAIN records
    BY SumOf
  <2> HIDE DEF f
  <2>3. QED
    BY <2>1, <2>2
<1>3. \A i, j \in DOMAIN records : i # j => records[i].ids \cap records[j].ids = {}
  <2>1. ASSUME NEW i \in DOMAIN records, NEW j \in DOMAIN records, i # j
        PROVE  records[i].ids \cap records[j].ids = {}
    <3>1. records[i].ids = RowsBy(records[i].attempts) /\
          records[j].ids = RowsBy(records[j].attempts)
      BY <1>1, RecordFacts
    <3>2. records[i].attempts \cap records[j].attempts = {}
      BY <1>1, <2>1 DEF MetersInv, RecordsAccount
    <3>3. QED
      BY <3>1, <3>2 DEF RowsBy
  <2>2. QED
    BY <2>1
<1>4. \A i \in DOMAIN records : F[i] = Loose \cap records[i].ids /\ IsFiniteSet(F[i])
  BY <1>1, RowsAreRuns, FS_Intersection
<1>5. IsFiniteSet(all) /\ Cardinality(all) = Total(g, DOMAIN records)
  <2>1. \A i, j \in DOMAIN records : i # j => F[i] \cap F[j] = {}
    BY <1>3, <1>4
  <2> HIDE DEF F
  <2>2. QED
    BY <1>1, <1>4, <2>1, CountByParts
<1>6. ASSUME NEW i \in DOMAIN records PROVE f[i] = g[i] /\ g[i] \in Int
  <2> DEFINE X == (Loose \cap records[i].ids) \ seen(i) Y == F[i]
  <2>1. X = Y
    <3>1. \A m \in 1..(i - 1) : m \in DOMAIN records /\ m # i
      BY <1>1
    <3>2. QED
      BY <1>3, <1>4, <3>1
  <2>2. Cardinality(Y) <= Cardinality(records[i].ids) /\ Cardinality(Y) \in Nat
    BY <1>1, <1>4, RowsAreRuns, FS_Subset, FS_CardinalityType
  <2>3. Cardinality(Y) <= records[i].runs /\ records[i].runs \in Nat
    <3>1. Cardinality(records[i].ids) <= records[i].runs /\ Cardinality(records[i].ids) \in Nat
          /\ records[i].runs \in Nat
      BY <1>1, RowsAreRuns, RecordFacts DEF Iterations
    <3> HIDE DEF Y
    <3>2. QED
      BY <2>2, <3>1
  <2>4. share(i) = Cardinality(X)
    BY MetersCount
  <2>5. f[i] = (IF share(i) <= records[i].runs THEN share(i) ELSE records[i].runs)
        /\ g[i] = Cardinality(Y)
    OBVIOUS
  <2> HIDE DEF X, Y, share, f, g
  <2>6. QED
    BY <2>1, <2>2, <2>3, <2>4, <2>5
<1>7. Total(f, DOMAIN records) = Total(g, DOMAIN records)
  <2> HIDE DEF f, g
  <2>1. QED
    BY <1>1, <1>6, SumSame
<1>8. all = Loose \cap Told
  BY <1>1, <1>4 DEF Told
<1> HIDE DEF all, f, g
<1>9. Cardinality(Loose \cap Told) = Cardinality(all) /\ IsFiniteSet(Loose \cap Told)
  <2> DEFINE V == Loose \cap Told
  <2>1. all = V
    BY <1>8
  <2> HIDE DEF V
  <2>2. Cardinality(V) = Cardinality(all) /\ IsFiniteSet(V)
    BY <1>5, <2>1
  <2>3. QED
    BY <2>2 DEF V
<1>10. QED
  BY <1>2, <1>5, <1>7, <1>9

(* Some of the rows, attempt by attempt and those made by hand.             *)
LEMMA RowsByOwner ==
  ASSUME MetersHyp, MetersInv, NEW X \in SUBSET meterLedger
  PROVE  /\ IsFiniteSet(X)
         /\ \A a : IsFiniteSet(Met!Rows(a) \cap X) /\ Cardinality(Met!Rows(a) \cap X) \in Nat
         /\ Cardinality({r \in X : Owner[r] # Hand})
              = Total([a \in Metered |-> Cardinality(Met!Rows(a) \cap X)], Metered)
         /\ Cardinality(X) = Cardinality({r \in X : Owner[r] # Hand})
                             + Cardinality(Met!Rows(Hand) \cap X)
         /\ Cardinality({r \in X : Owner[r] # Hand}) \in Nat
<1> DEFINE F == [a \in Metered |-> Met!Rows(a) \cap X]
           f == [a \in Metered |-> Cardinality(F[a])]
           g == [a \in Metered |-> Cardinality(Met!Rows(a) \cap X)]
           all == UNION {F[a] : a \in Metered}
           Y == {r \in X : Owner[r] # Hand}
           Z == Met!Rows(Hand) \cap X
<1>1. IsFiniteSet(meterLedger) /\ IsFiniteSet(X) /\ IsFiniteSet(Metered)
  BY RowsFinite, FS_Subset DEF MetersInv, MetersHyp
<1>2. \A a : IsFiniteSet(Met!Rows(a) \cap X) /\ Cardinality(Met!Rows(a) \cap X) \in Nat
  BY <1>1, FS_Intersection, FS_CardinalityType
<1>3. \A r \in X : r \in meterLedger /\ Owner[r] \in Metered \union {Hand} /\ Hand \notin Metered
  BY DEF MetersInv, MetersShape, MetersHyp
<1>4. \A a \in Metered : F[a] = Met!Rows(a) \cap X /\ IsFiniteSet(F[a])
  BY <1>2
<1>5. \A a, b \in Metered : a # b => F[a] \cap F[b] = {}
  BY <1>4 DEF Met!Rows
<1>6. all = Y
  <2>1. \A r : r \in Y <=> \E a \in Metered : r \in F[a]
    BY <1>3, <1>4 DEF Met!Rows
  <2> HIDE DEF F, Y
  <2>2. QED
    BY <2>1
<1>7. IsFiniteSet(all) /\ Cardinality(all) = Total(f, Metered)
  <2> HIDE DEF F
  <2>1. QED
    BY <1>1, <1>4, <1>5, CountByParts
<1>8. f = g
  OBVIOUS
<1>9. Y \cap Z = {} /\ Y \union Z = X /\ IsFiniteSet(Z) /\ IsFiniteSet(Y)
  BY <1>1, <1>2, <1>3, FS_Subset DEF Met!Rows
<1>10. Cardinality(Y) \in Nat /\ Cardinality(Z) \in Nat
  BY <1>9, FS_CardinalityType
<1>11. Cardinality(X) = Cardinality(Y) + Cardinality(Z)
  <2> DEFINE V == Y \union Z W == Y \cap Z
  <2>1. V = X /\ W = {}
    BY <1>9
  <2>2. Cardinality(V) = Cardinality(Y) + Cardinality(Z) - Cardinality(W)
    <3> HIDE DEF Y, Z
    <3>1. QED
      BY <1>9, FS_Union
  <2> HIDE DEF V, W, Y, Z
  <2>3. Cardinality(W) = 0
    BY <2>1, FS_EmptySet
  <2>4. QED
    BY <1>10, <2>1, <2>2, <2>3
<1>12. Cardinality(Y) = Total(g, Metered)
  <2> HIDE DEF all, Y, f, g
  <2>1. QED
    BY <1>6, <1>7, <1>8
<1> HIDE DEF g, Y, Z
<1>13. QED
  BY <1>1, <1>2, <1>10, <1>11, <1>12 DEF g, Y, Z

LEMMA StatedOf ==
  ASSUME MetersHyp, MetersInv
  PROVE  Met!Stated \in Int
         /\ Met!Stated =
              Total([a \in Metered |-> IF a \in DOMAIN tombs THEN tombs[a] ELSE 0], Metered)
<1> DEFINE t == [a \in Metered |-> IF a \in DOMAIN tombs THEN tombs[a] ELSE 0]
<1>1. DOMAIN tombs \in SUBSET Metered /\ \A a \in DOMAIN tombs : tombs[a] \in Int
  BY FiguresAreInt DEF MetersInv, MetersShape, Reports
<1>2. IsFiniteSet(Metered) /\ IsFiniteSet(DOMAIN tombs)
  BY <1>1, FS_Subset DEF MetersHyp
<1>3. Met!Stated = Total(tombs, DOMAIN tombs)
  BY SumOf DEF Met!Stated
<1>4. (\A a \in DOMAIN tombs : t[a] = tombs[a]) /\ \A a \in Metered \ DOMAIN tombs : t[a] = 0
  BY <1>1
<1> HIDE DEF t
<1>5. Total(tombs, DOMAIN tombs) = Total(t, Metered)
  BY <1>1, <1>2, <1>4, SumWithin
<1>6. Total(tombs, DOMAIN tombs) \in Int
  BY <1>1, <1>2, SumTake
<1>7. QED
  BY <1>3, <1>5, <1>6 DEF t

(* What the total comes to: charges, what tombstones state, and the rows    *)
(* that neither an attempt nor an iteration speaks for.                     *)
LEMMA TotalIs ==
  ASSUME MetersHyp, MetersInv, Met!Legacy = {}
  PROVE  Met!TotalRuns = Met!Charges(Reserved) + Cardinality(Loose \ Told) + Met!Stated
<1> DEFINE X == Loose \ Told V == Loose \cap Told
           reports == Met!SumFunction([i \in DOMAIN records |-> records[i].runs])
<1>1. Met!Present = Reserved
  BY DEF Met!Legacy, Met!Present, Reserved
<1>2. Met!Charges(Met!Present) = Met!Charges(Reserved)
  BY <1>1
<1>3. Met!Charges(Reserved) \in Int /\ Met!Stated \in Int
  <2>1. Reserved \in SUBSET Reserved
    OBVIOUS
  <2>2. Met!Charges(Reserved) \in Nat
    BY <2>1, ChargesOf
  <2>3. QED
    BY <2>2, StatedOf
<1>4. Met!Discount = reports /\ reports \in Int
  BY DiscountIsAll
<1>5. Met!Overlap(Loose) = Cardinality(V) /\ IsFiniteSet(V)
  BY OverlapIsTold
<1>6. IsFiniteSet(Loose) /\ Cardinality(X) = Cardinality(Loose) - Cardinality(V)
  BY RowFacts, FS_Difference
<1>7. Cardinality(Loose) \in Int /\ Cardinality(V) \in Int
  BY <1>5, <1>6, FS_CardinalityType
<1>8. Met!Gross = Met!Charges(Met!Present) + Cardinality(Loose) + Met!Stated + reports
  BY MetersCount DEF Met!Gross, Loose
<1>9. Met!TotalRuns = Met!Gross - Met!Overlap(Loose) - Met!Discount
  BY DEF Met!TotalRuns, Loose
<1> HIDE DEF X, V, reports
<1>10. Met!TotalRuns = Met!Charges(Reserved) + Cardinality(X) + Met!Stated
  BY <1>2, <1>3, <1>4, <1>5, <1>6, <1>7, <1>8, <1>9
<1>11. QED
  BY <1>10 DEF X

(* Attempt by attempt: what is charged, stated, or lies about as a row      *)
(* covers what was consumed, and is just that once it is recorded.          *)
ChargedFor(a) == IF a \in Reserved THEN attempt[a].charged ELSE 0

StatedFor(a) == IF a \in DOMAIN tombs THEN tombs[a] ELSE 0

LEMMA CoversOne ==
  ASSUME MetersHyp, MetersInv, Met!Legacy = {}, NEW a \in Metered
  PROVE  /\ Met!Observed(a) \in Int /\ ChargedFor(a) \in Int /\ StatedFor(a) \in Int
         /\ Met!Observed(a) <=
              ChargedFor(a) + StatedFor(a) + Cardinality(Met!Rows(a) \cap (Loose \ Told))
         /\ a \in Met!Present =>
              Met!Observed(a) <= ChargedFor(a) + Cardinality(Met!Rows(a) \cap Loose)
         /\ (a \in Met!Present => Recorded(a)) =>
              Met!Observed(a) =
                  ChargedFor(a) + StatedFor(a) + Cardinality(Met!Rows(a) \cap (Loose \ Told))
<1> DEFINE R == Met!Rows(a) X == Met!Rows(a) \cap (Loose \ Told) Y == Met!Rows(a) \cap Loose
<1>1. Met!Present = Reserved
  BY DEF Met!Legacy, Met!Present, Reserved
<1>2. spent[a] \in Nat /\ Cardinality(R) \in Nat
  <2>1. spent[a] \in Figures
    BY DEF MetersInv, MetersShape
  <2>2. QED
    BY <2>1, FiguresAreInt, RowsFinite DEF MetersInv
<1>3. Loose \in SUBSET meterLedger /\ Loose \ Told \in SUBSET meterLedger
  BY DEF Loose
<1>4. Cardinality(X) \in Nat /\ Cardinality(Y) \in Nat
  BY <1>3, RowsByOwner
<1>5. Met!Observed(a) = (IF spent[a] >= Cardinality(R) THEN spent[a] ELSE Cardinality(R))
  BY MetersCount DEF Met!Observed
<1>6. CASE a \notin Reserved
  <2>1. Bygone(a) /\ attempt[a] = Absent
    BY <1>6 DEF MetersInv, AttemptsRight, Reserved, Met!Legacy, Met!Present
  <2>2. R = {} /\ X = {} /\ spent[a] = StatedFor(a) /\ ChargedFor(a) = 0
    BY <1>6, <2>1 DEF Bygone, StatedFor, ChargedFor
  <2> HIDE DEF R, X, Y
  <2>3. Cardinality(R) = 0 /\ Cardinality(X) = 0
    BY <2>2, FS_EmptySet
  <2>4. Met!Observed(a) = ChargedFor(a) + StatedFor(a) + Cardinality(X)
    BY <1>2, <1>5, <2>2, <2>3
  <2>5. QED
    BY <1>1, <1>2, <1>4, <1>6, <2>2, <2>3, <2>4 DEF X
<1>7. CASE a \in Reserved
  <2> DEFINE D == Met!Rows(a) \ attempt[a].links
  <2>1. Covered(a) /\ StatedFor(a) = 0 /\ ChargedFor(a) = attempt[a].charged
    BY <1>7 DEF MetersInv, AttemptsRight, Covered, StatedFor, ChargedFor
  <2>2. attempt[a].charged \in Nat
    <3>1. Reserved \in SUBSET Reserved
      OBVIOUS
    <3>2. QED
      BY <1>7, <3>1, ChargesOf
  <2>3. Y = D
    BY <1>7, RowFacts
  <2>4. spent[a] <= attempt[a].charged + Cardinality(D) /\
        Cardinality(R) <= attempt[a].charged + Cardinality(D)
    BY <2>1 DEF Covered
  <2>5. CASE Recorded(a)
    <3>1. X = {}
      BY <2>5, RowFacts DEF RowsBy, Met!Rows
    <3>2. attempt[a].charged = spent[a] /\ Cardinality(R) <= spent[a]
      BY <2>5, RecordFacts DEF Recorded
    <3> HIDE DEF X, Y, R, D
    <3>3. Cardinality(X) = 0
      BY <3>1, FS_EmptySet
    <3>4. Met!Observed(a) = ChargedFor(a) + StatedFor(a) + Cardinality(X) /\ Met!Observed(a) \in Int
          /\ Met!Observed(a) <= ChargedFor(a) + Cardinality(Y)
      BY <1>2, <1>4, <1>5, <2>1, <2>2, <3>2, <3>3
    <3>5. QED
      BY <1>2, <2>1, <2>2, <3>4 DEF X, Y
  <2>6. CASE ~Recorded(a)
    <3>1. X = Y
      BY <2>6, RowFacts DEF RowsBy, Met!Rows
    <3> HIDE DEF X, Y, R, D
    <3>2. Met!Observed(a) <= ChargedFor(a) + Cardinality(Y) /\ Met!Observed(a) \in Int
          /\ ChargedFor(a) \in Int
      BY <1>2, <1>4, <1>5, <2>1, <2>2, <2>3, <2>4
    <3>3. Met!Observed(a) <= ChargedFor(a) + StatedFor(a) + Cardinality(X)
      BY <1>4, <2>1, <3>1, <3>2
    <3>4. QED
      BY <1>1, <1>7, <2>1, <2>6, <3>2, <3>3 DEF X, Y
  <2>7. QED
    BY <2>5, <2>6
<1>8. QED
  BY <1>6, <1>7

LEMMA ConsumedIs ==
  ASSUME MetersHyp, MetersInv
  PROVE  Met!Consumed =
      Total([a \in Metered |-> Met!Observed(a)], Metered) + Cardinality(Met!Rows(Hand))
<1> DEFINE o == [a \in Metered |-> Met!Observed(a)]
<1>1. Met!SumFunction(o) = Total(o, DOMAIN o) /\ DOMAIN o = Metered
  BY SumOf
<1>2. Met!Consumed = Met!SumFunction(o) + Cardinality(Met!Rows(Hand))
  BY MetersCount DEF Met!Consumed
<1> HIDE DEF o
<1>3. Met!Consumed = Total(o, Metered) + Cardinality(Met!Rows(Hand))
  BY <1>1, <1>2
<1>4. QED
  BY <1>3 DEF o

LEMMA TotalCovers ==
  ASSUME MetersHyp, MetersInv, Met!Legacy = {}
  PROVE  /\ Met!TotalRuns >= Met!Consumed
         /\ (\A a \in Met!Present : Recorded(a)) => Met!TotalRuns = Met!Consumed
<1> DEFINE X == Loose \ Told
           H == Met!Rows(Hand) \cap X
           RH == Met!Rows(Hand)
           Y == {r \in X : Owner[r] # Hand}
           c == [a \in Metered |-> ChargedFor(a)]
           t == [a \in Metered |-> IF a \in DOMAIN tombs THEN tombs[a] ELSE 0]
           d == [a \in Metered |-> Cardinality(Met!Rows(a) \cap X)]
           o == [a \in Metered |-> Met!Observed(a)]
           ct == [a \in Metered |-> c[a] + t[a]]
           all == [a \in Metered |-> ct[a] + d[a]]
<1>1. IsFiniteSet(Metered)
  BY DEF MetersHyp
<1>2. X \in SUBSET meterLedger
  BY DEF Loose
<1>3. /\ Cardinality(Y) = Total(d, Metered) /\ Cardinality(X) = Cardinality(Y) + Cardinality(H)
      /\ Cardinality(Y) \in Nat /\ Cardinality(H) \in Nat
      /\ \A a : Cardinality(Met!Rows(a) \cap X) \in Nat
  <2> HIDE DEF X
  <2>1. QED
    BY <1>2, RowsByOwner
<1>4. H = RH
  BY RowFacts DEF RowsBy, Met!Rows, MetersHyp
<1>5. Met!Charges(Reserved) = Total(c, Metered)
  <2> DEFINE f == [a \in Reserved |-> attempt[a].charged]
  <2>1. Reserved \in SUBSET Reserved /\ Reserved \in SUBSET Metered
    BY DEF Reserved
  <2>2. Met!Charges(Reserved) = Total(f, Reserved) /\ \A a \in Reserved : attempt[a].charged \in Nat
    BY <2>1, ChargesOf
  <2>3. \A a \in Reserved : f[a] \in Int /\ c[a] = f[a]
    BY <2>1, <2>2 DEF ChargedFor
  <2>4. \A a \in Metered \ Reserved : c[a] = 0
    BY DEF ChargedFor
  <2> HIDE DEF f, c
  <2>5. QED
    BY <1>1, <2>1, <2>2, <2>3, <2>4, SumWithin
<1>6. Met!Stated = Total(t, Metered)
  BY StatedOf
<1>7. ASSUME NEW a \in Metered
      PROVE  /\ c[a] \in Int /\ t[a] \in Int /\ ct[a] \in Int /\ d[a] \in Int /\ all[a] \in Int
             /\ o[a] \in Int /\ ct[a] = c[a] + t[a] /\ all[a] = ct[a] + d[a] /\ o[a] <= all[a]
             /\ (a \in Met!Present => Recorded(a)) => o[a] = all[a]
  <2>1. /\ c[a] = ChargedFor(a) /\ t[a] = StatedFor(a) /\ d[a] = Cardinality(Met!Rows(a) \cap X)
        /\ o[a] = Met!Observed(a) /\ ct[a] = c[a] + t[a] /\ all[a] = ct[a] + d[a]
    BY DEF StatedFor
  <2>2. /\ Met!Observed(a) \in Int /\ ChargedFor(a) \in Int /\ StatedFor(a) \in Int
        /\ Met!Observed(a) <= ChargedFor(a) + StatedFor(a) + Cardinality(Met!Rows(a) \cap X)
        /\ (a \in Met!Present => Recorded(a)) =>
              Met!Observed(a) = ChargedFor(a) + StatedFor(a) + Cardinality(Met!Rows(a) \cap X)
    BY CoversOne
  <2> HIDE DEF c, t, ct, d, o, all, X
  <2>3. QED
    BY <1>3, <2>1, <2>2
<1> HIDE DEF c, t, ct, d, o, all, Y, H, RH
<1>8. Total(all, Metered) = Total(c, Metered) + Total(t, Metered) + Total(d, Metered)
  <2>1. Total(ct, Metered) = Total(c, Metered) + Total(t, Metered)
    BY <1>1, <1>7, SumPlus
  <2>2. Total(all, Metered) = Total(ct, Metered) + Total(d, Metered)
    BY <1>1, <1>7, SumPlus
  <2>3. QED
    BY <2>1, <2>2
<1>9. Total(o, Metered) <= Total(all, Metered)
  BY <1>1, <1>7, SumOrder
<1>10. (\A a \in Met!Present : Recorded(a)) => Total(o, Metered) = Total(all, Metered)
  BY <1>1, <1>7, SumSame
<1>11. Total(c, Metered) \in Int /\ Total(t, Metered) \in Int /\ Total(o, Metered) \in Int
       /\ Total(d, Metered) \in Int
  BY <1>1, <1>7, SumTake
<1>12. Met!TotalRuns = Total(all, Metered) + Cardinality(H)
  <2>1. Met!TotalRuns = Met!Charges(Reserved) + Cardinality(X) + Met!Stated
    BY TotalIs
  <2> HIDE DEF X
  <2>2. QED
    BY <2>1, <1>3, <1>5, <1>6, <1>8, <1>11
<1>13. Met!Consumed = Total(o, Metered) + Cardinality(RH)
  BY ConsumedIs DEF o, RH
<1>14. QED
  BY <1>3, <1>4, <1>8, <1>9, <1>10, <1>11, <1>12, <1>13

LEMMA ClaimCovers ==
  ASSUME MetersHyp, MetersInv, Met!Legacy = {}
  PROVE  Met!ClaimRuns >= Met!SumFunction([a \in Met!Present |-> Met!Observed(a)])
<1> DEFINE Y == {r \in Loose : Owner[r] # Hand}
           c == [a \in Metered |-> ChargedFor(a)]
           e == [a \in Metered |-> Cardinality(Met!Rows(a) \cap Loose)]
           s == [a \in Metered |-> c[a] + e[a]]
           p == [a \in Met!Present |-> Met!Observed(a)]
           o == [a \in Metered |-> IF a \in Met!Present THEN Met!Observed(a) ELSE 0]
           named == Met!SumFunction([i \in DOMAIN records |->
                                        Met!Charges(records[i].attempts \cap Met!Present)])
<1>1. IsFiniteSet(Metered) /\ Met!Present = Reserved /\ Met!Present \in SUBSET Metered
  BY DEF MetersHyp, Met!Legacy, Met!Present, Reserved
<1>2. Loose \in SUBSET meterLedger
  BY DEF Loose
<1>3. /\ Cardinality(Y) = Total(e, Metered) /\ Cardinality(Y) \in Nat
      /\ \A a : Cardinality(Met!Rows(a) \cap Loose) \in Nat
  BY <1>2, RowsByOwner
<1>4. Met!Charges(Met!Present) = Total(c, Metered) /\ Met!Charges(Met!Present) \in Int
  <2> DEFINE f == [a \in Met!Present |-> attempt[a].charged]
  <2>1. Met!Present \in SUBSET Reserved
    BY <1>1
  <2>2. Met!Charges(Met!Present) = Total(f, Met!Present) /\ Met!Charges(Met!Present) \in Nat
        /\ \A a \in Met!Present : attempt[a].charged \in Nat
    BY <2>1, ChargesOf
  <2>3. \A a \in Met!Present : f[a] \in Int /\ c[a] = f[a]
    BY <1>1, <2>2 DEF ChargedFor
  <2>4. \A a \in Metered \ Met!Present : c[a] = 0
    BY <1>1 DEF ChargedFor
  <2> HIDE DEF f, c
  <2>5. QED
    BY <1>1, <2>2, <2>3, <2>4, SumWithin
<1>5. ASSUME NEW a \in Metered
      PROVE  /\ c[a] \in Int /\ e[a] \in Int /\ s[a] \in Int /\ o[a] \in Int
             /\ s[a] = c[a] + e[a] /\ o[a] <= s[a]
             /\ a \in Met!Present => p[a] = o[a] /\ p[a] \in Int
             /\ a \notin Met!Present => o[a] = 0
  <2>1. /\ c[a] = ChargedFor(a) /\ e[a] = Cardinality(Met!Rows(a) \cap Loose) /\ s[a] = c[a] + e[a]
        /\ o[a] = (IF a \in Met!Present THEN Met!Observed(a) ELSE 0)
        /\ a \in Met!Present => p[a] = Met!Observed(a)
    OBVIOUS
  <2>2. /\ Met!Observed(a) \in Int /\ ChargedFor(a) \in Int
        /\ a \in Met!Present =>
             Met!Observed(a) <= ChargedFor(a) + Cardinality(Met!Rows(a) \cap Loose)
        /\ a \notin Met!Present => ChargedFor(a) = 0
    BY <1>1, CoversOne DEF ChargedFor
  <2> HIDE DEF c, e, s, p, o
  <2>3. QED
    BY <1>3, <2>1, <2>2
<1>6. Met!SumFunction(p) = Total(p, Met!Present)
  <2>1. Met!SumFunction(p) = Total(p, DOMAIN p) /\ DOMAIN p = Met!Present
    BY SumOf
  <2> HIDE DEF p
  <2>2. QED
    BY <2>1
<1>7. DOMAIN records = 1..Len(records) /\ IsFiniteSet(DOMAIN records)
  <2>1. records \in Seq(Iterations)
    BY DEF MetersInv, MetersShape
  <2>2. QED
    BY <2>1, FS_Interval
<1>8. Met!Reported \in Int
  <2> DEFINE f == [i \in DOMAIN records |-> Met!SumFunction(records[i].byEntry)]
  <2>1. Met!Reported = Total(f, DOMAIN f) /\ DOMAIN f = DOMAIN records
    BY SumOf DEF Met!Reported
  <2>2. ASSUME NEW i \in DOMAIN records PROVE f[i] \in Int
    <3>1. records[i].runs = Total(records[i].byEntry, records[i].attempts)
          /\ records[i].attempts = DOMAIN records[i].byEntry /\ records[i].runs \in Nat
      BY <1>7, RecordFacts DEF Iterations
    <3>2. PICK A : A = records[i].attempts
      OBVIOUS
    <3>3. A = DOMAIN records[i].byEntry
      BY <3>1, <3>2
    <3>4. Met!SumFunction(records[i].byEntry) = Total(records[i].byEntry, A)
      BY <3>3, SumOf
    <3>5. QED
      BY <3>1, <3>2, <3>4
  <2> HIDE DEF f
  <2>3. QED
    BY <1>7, <2>1, <2>2, SumTake
<1>9. named \in Int
  <2> DEFINE f == [i \in DOMAIN records |-> Met!Charges(records[i].attempts \cap Met!Present)]
  <2>1. named = Total(f, DOMAIN f) /\ DOMAIN f = DOMAIN records
    BY SumOf
  <2>2. ASSUME NEW i \in DOMAIN records PROVE f[i] \in Int
    <3> DEFINE A == records[i].attempts \cap Met!Present
    <3>1. A \in SUBSET Reserved
      BY <1>1
    <3> HIDE DEF A
    <3>2. Met!Charges(A) \in Nat
      BY <3>1, ChargesOf
    <3>3. QED
      BY <3>2 DEF A
  <2> HIDE DEF f, named
  <2>3. QED
    BY <1>7, <2>1, <2>2, SumTake
<1> DEFINE most == Met!Max({Met!Reported - named, Cardinality(Y)})
<1>10. Met!ClaimRuns = Met!Charges(Met!Present) + most
  BY MetersCount DEF Met!ClaimRuns, Loose
<1> HIDE DEF named, c, e, s, p, o, Y
<1>11. most \in Int /\ most >= Cardinality(Y)
  <2> DEFINE x == Met!Reported - named y == Cardinality(Y)
  <2>1. x \in Int /\ y \in Int
    BY <1>3, <1>8, <1>9
  <2> HIDE DEF x, y
  <2>2. \E m \in {x, y} : \A k \in {x, y} : m >= k
    BY <2>1
  <2>3. Met!Max({x, y}) \in {x, y} /\ Met!Max({x, y}) >= y
    BY <2>2 DEF Met!Max
  <2>4. QED
    BY <2>1, <2>3 DEF x, y
<1>12. Total(p, Met!Present) = Total(o, Metered)
  BY <1>1, <1>5, SumWithin
<1>13. Total(o, Metered) <= Total(s, Metered)
  BY <1>1, <1>5, SumOrder
<1>14. Total(s, Metered) = Total(c, Metered) + Total(e, Metered)
  BY <1>1, <1>5, SumPlus
<1>15. Total(o, Metered) \in Int /\ Total(s, Metered) \in Int
  BY <1>1, <1>5, SumTake
<1> HIDE DEF most
<1>16. Met!ClaimRuns >= Met!SumFunction(p)
  BY <1>3, <1>4, <1>6, <1>10, <1>11, <1>12, <1>13, <1>14, <1>15
<1>17. QED
  BY <1>16 DEF p

LEMMA InvIsExact == ASSUME MetersHyp, MetersInv PROVE Met!TotalsExact
<1>1. Met!Legacy = {} => Met!TotalRuns >= Met!Consumed
      /\ Met!ClaimRuns >= Met!SumFunction([a \in Met!Present |-> Met!Observed(a)])
  BY TotalCovers, ClaimCovers
<1>2. Met!Legacy = {} /\
      (\A a \in Met!Present : \E i \in DOMAIN records : a \in records[i].attempts)
        => Met!TotalRuns = Met!Consumed
  <2>1. DOMAIN records = 1..Len(records)
    BY DEF MetersInv, MetersShape
  <2>2. QED
    BY <2>1, TotalCovers DEF Recorded
<1>3. QED
  BY <1>1, <1>2 DEF Met!TotalsExact

(* The rest of the type: the usage ledger.                                  *)
LEMMA UsageShapeKept ==
  ASSUME MetersHyp, UsageShape, [Met!MetersNext]_Met!metersVars
  PROVE  UsageShape'
<1>1. /\ MaxUsage \in Nat /\ MaxPaid \in Nat /\ Idle \notin UsageRows
      /\ usage \in Seq(UsageRows) /\ Len(usage) \in Nat /\ paid \in Nat
      /\ appending \in [Appenders -> {Idle} \union UsageRows]
  BY DEF MetersHyp, UsageShape
<1>2. ASSUME NEW p \in Appenders, Met!NumberRow(p) PROVE UsageShape'
  <2>1. usage' = usage /\ paid' = paid
    BY <1>2 DEF Met!NumberRow
  <2>2. PICK row \in UsageRows : appending' = [appending EXCEPT ![p] = row]
    <3>1. CASE \E c \in {1, Unpriced} :
            appending' = [appending EXCEPT ![p] =
                [line |-> Len(usage) + 1, cost |-> c, target |-> 0]]
      <4>1. PICK c \in {1, Unpriced} :
              appending' = [appending EXCEPT ![p] =
                  [line |-> Len(usage) + 1, cost |-> c, target |-> 0]]
        BY <3>1
      <4>2. [line |-> Len(usage) + 1, cost |-> c, target |-> 0] \in UsageRows
        BY <1>1 DEF UsageRows
      <4>3. QED
        BY <4>1, <4>2
    <3>2. CASE \E k \in Met!Originals :
            appending' = [appending EXCEPT ![p] =
                [line |-> Len(usage) + 1, cost |-> 1, target |-> k]]
      <4>1. PICK k \in Met!Originals :
              appending' = [appending EXCEPT ![p] =
                  [line |-> Len(usage) + 1, cost |-> 1, target |-> k]]
        BY <3>2
      <4>2. k \in Nat
        BY <1>1 DEF Met!Originals
      <4>3. [line |-> Len(usage) + 1, cost |-> 1, target |-> k] \in UsageRows
        BY <1>1, <4>2 DEF UsageRows
      <4>4. QED
        BY <4>1, <4>3
    <3>3. QED
      BY <1>2, <3>1, <3>2 DEF Met!NumberRow
  <2>3. appending' \in [Appenders -> {Idle} \union UsageRows]
    BY <1>1, <2>2
  <2>4. QED
    BY <2>1, <2>3 DEF UsageShape
<1>3. ASSUME NEW p \in Appenders, Met!WriteRow(p) PROVE UsageShape'
  <2>1. appending[p] \in UsageRows /\ usage' = Append(usage, appending[p]) /\ Len(usage) < MaxUsage
        /\ appending' = [appending EXCEPT ![p] = Idle] /\ paid' = paid
    BY <1>1, <1>3 DEF Met!WriteRow
  <2>2. usage' \in Seq(UsageRows) /\ Len(usage') = Len(usage) + 1
    BY <1>1, <2>1
  <2>3. appending' \in [Appenders -> {Idle} \union UsageRows]
    BY <1>1, <2>1
  <2>4. QED
    BY <1>1, <2>1, <2>2, <2>3 DEF UsageShape
<1>4. CASE Met!Charge
  BY <1>1, <1>4 DEF Met!Charge, Met!KeepUsage, UsageShape
<1>5. ASSUME UNCHANGED <<usage, appending, paid>> PROVE UsageShape'
  BY <1>5 DEF UsageShape
<1>6. CASE Met!BeginIteration \/ Met!Record \/ Met!CoordinatorDies
  BY <1>5, <1>6 DEF Met!BeginIteration, Met!Record, Met!CoordinatorDies, Met!KeepUsage
<1>7. ASSUME NEW a \in Metered, Met!Reserve(a) \/ Met!Attribute(a) \/ Met!Settle(a)
      PROVE  UsageShape'
  BY <1>5, <1>7 DEF Met!Reserve, Met!Attribute, Met!Settle, Met!KeepUsage
<1>8. ASSUME NEW a \in Metered, Met!CancelAttempt(a) \/ Met!Archive(a) \/ Met!UnlinkRecord(a)
      PROVE  UsageShape'
  BY <1>5, <1>8 DEF Met!CancelAttempt, Met!Archive, Met!UnlinkRecord, Met!KeepUsage
<1>9. ASSUME NEW r \in MeteredRuns, Met!Retain(r) PROVE UsageShape'
  BY <1>5, <1>9 DEF Met!Retain, Met!KeepUsage
<1>10. CASE UNCHANGED Met!metersVars
  BY <1>5, <1>10 DEF Met!metersVars
<1>11. QED
  BY <1>2, <1>3, <1>4, <1>6, <1>7, <1>8, <1>9, <1>10 DEF Met!MetersNext

LEMMA InvIsType == ASSUME MetersHyp, MetersInv, UsageShape PROVE Met!MetersTypeOK
<1>1. \A a \in Met!Present : attempt[a] \in AttemptRecords
  BY DEF MetersInv, MetersShape, Met!Present
<1>2. Met!Cardinality(MeteredRuns) = Cardinality(MeteredRuns)
  BY MetersCount
<1>3. open # Idle => open.ids \subseteq MeteredRuns
  BY DEF MetersInv, MetersShape, Iterations
<1>4. QED
  BY <1>1, <1>2, <1>3
     DEF Met!MetersTypeOK, AttemptRecords, Figures, MetersInv, MetersShape, UsageShape

THEOREM MetersSafe == MetersHyp => (Met!MetersSpec => [](MetersInv /\ UsageShape))
<1> SUFFICES ASSUME MetersHyp PROVE Met!MetersSpec => [](MetersInv /\ UsageShape)
  OBVIOUS
<1>1. Met!MetersInit => MetersInv /\ UsageShape
  <2>1. Met!MetersInit => UsageShape
    BY DEF Met!MetersInit, UsageShape, MetersHyp
  <2>2. QED
    BY <2>1, MetersStart
<1>2. MetersInv /\ UsageShape /\ [Met!MetersNext]_Met!metersVars => (MetersInv /\ UsageShape)'
  BY MetersStepsKeep, UsageShapeKept
<1>3. QED
  BY <1>1, <1>2, PTL DEF Met!MetersSpec

(* Every figure of the meters has its type.                                 *)
THEOREM MetersTypes == MetersHyp => (Met!MetersSpec => []Met!MetersTypeOK)
<1> SUFFICES ASSUME MetersHyp PROVE Met!MetersSpec => []Met!MetersTypeOK
  OBVIOUS
<1>1. MetersInv /\ UsageShape => Met!MetersTypeOK
  BY InvIsType
<1>2. QED
  BY <1>1, MetersSafe, PTL

(* The meters never say less than was consumed, and say just that once all  *)
(* of it is recorded (budget.py total_runs, claim_runs), for any attempts,  *)
(* measurements and iterations.                                             *)
THEOREM TotalsExactHolds == MetersHyp => (Met!MetersSpec => []Met!TotalsExact)
<1> SUFFICES ASSUME MetersHyp PROVE Met!MetersSpec => []Met!TotalsExact
  OBVIOUS
<1>1. MetersInv => Met!TotalsExact
  BY InvIsExact
<1>2. QED
  BY <1>1, MetersSafe, PTL

-----------------------------------------------------------------------------
(* On the row MCToolkit runs, where a behaviour is of one component.       *)

LEMMA CoordinatorChosen ==
  CoordinationSpec => \/ [](~Coordinating)
                      \/ []Coordinating /\ Coord!CoordSpec
<1>1. CoordinationInit /\ Coordinating => Coord!CoordInit
  BY DEF CoordinationInit, Coordinating
<1>2. Coordinating /\ [CoordinationNext]_vars =>
          Coordinating' /\ [Coord!CoordNext]_Coord!coordVars
  BY DEF CoordinationNext, Rest13, vars, pool, Coord!coordVars, Coordinating
<1>3. ~Coordinating /\ [CoordinationNext]_vars => (~Coordinating)'
  BY DEF CoordinationNext, Rest9, vars, Coordinating
<1>4. QED
  BY <1>1, <1>2, <1>3, PTL DEF CoordinationSpec, Coord!CoordSpec

LEMMA MetersChosen ==
  CoordinationSpec => \/ [](~(subject = "meters"))
                      \/ [](subject = "meters") /\ Met!MetersSpec
<1>1. CoordinationInit /\ subject = "meters" => Met!MetersInit
  BY DEF CoordinationInit
<1>2. subject = "meters" /\ [CoordinationNext]_vars =>
          (subject = "meters")' /\ [Met!MetersNext]_Met!metersVars
  BY DEF CoordinationNext, Rest9, vars, pool, Met!metersVars
<1>3. ~(subject = "meters") /\ [CoordinationNext]_vars => (~(subject = "meters"))'
  BY DEF CoordinationNext, Rest13, vars
<1>4. QED
  BY <1>1, <1>2, <1>3, PTL DEF CoordinationSpec, Met!MetersSpec

(* A recorded iteration holds no card (driver/loop.py qc).                 *)
THEOREM ToolkitNoSquat == CoordinationSpec => []NoSquat
<1>1. NoneIsNone
  BY CoordinationAssumption
<1>2. ~Coordinating \/ Coord!NoSquat => NoSquat
  BY DEF NoSquat
<1>3. QED
  BY <1>1, <1>2, CoordinatorChosen, NoSquatHolds, PTL

(* A card has one verdict (driver/loop.py _apply_verdict).                 *)
THEOREM ToolkitOneVerdict == CoordinationSpec => OneVerdict
<1>1. NoneIsNone
  BY CoordinationAssumption
<1>2. ~Coordinating => [Coordinating => Coord!VerdictStands]_vars
  OBVIOUS
<1>3. [Coord!VerdictStands]_Coord!coordVars => [Coordinating => Coord!VerdictStands]_vars
  BY DEF Coord!VerdictStands, Coord!coordVars
<1>4. QED
  BY <1>1, <1>2, <1>3, CoordinatorChosen, OneVerdictHolds, PTL
     DEF Coord!OneVerdict, OneVerdict

(* A ceiling is compared with what was consumed, once (budget.py).         *)
THEOREM ToolkitTotalsExact == CoordinationSpec => []TotalsExact
<1>1. MetersHyp
  BY CoordinationAssumption
<1>2. ~(subject = "meters") \/ Met!TotalsExact => TotalsExact
  BY DEF TotalsExact
<1>3. QED
  BY <1>1, <1>2, MetersChosen, TotalsExactHolds, PTL

(* Every variable of the coordinators or the meters has its type.          *)
THEOREM ToolkitCoordinationTypes == CoordinationSpec => []CoordinationTypeOK
<1>1. NoneIsNone /\ CoordBounds /\ MetersHyp
  BY CoordinationAssumption
<1>2. /\ ~Coordinating \/ Coord!CoordTypeOK
      /\ ~(subject = "meters") \/ Met!MetersTypeOK
      => CoordinationTypeOK
  BY DEF CoordinationTypeOK
<1>3. QED
  BY <1>1, <1>2, CoordinatorChosen, CoordinatorTypes, MetersChosen, MetersTypes, PTL

-----------------------------------------------------------------------------
(* The row as a whole.  A behaviour of MCToolkit is one of one group, and  *)
(* what the others promise is not at stake in it.                          *)
OfEvidence == subject \in {"ledger", "workspaces", "sessions", "relocation", "bundles"}
OfRecords == subject \in {"lineage", "defects", "skills", "pages"}
OfDecisions ==
    subject \in {"ranking", "frontier", "escalation", "leaderboard", "upgrade", "spending",
                "inherit"}
OfCoordination == subject \in {"coordinator", "coordinators", "meters"}

OneOfThem ==
    /\ OfEvidence => ~OfRecords /\ ~OfDecisions /\ ~OfCoordination
    /\ OfRecords => ~OfEvidence /\ ~OfDecisions /\ ~OfCoordination
    /\ OfDecisions => ~OfEvidence /\ ~OfRecords /\ ~OfCoordination
    /\ OfCoordination => ~OfEvidence /\ ~OfRecords /\ ~OfDecisions

LEMMA GroupsApart == OneOfThem
BY DEF OneOfThem, OfEvidence, OfRecords, OfDecisions, OfCoordination

LEMMA EvidenceStays ==
  /\ EvidenceInit => OfEvidence
  /\ EvidenceNext => OfEvidence /\ UNCHANGED subject
BY DEF EvidenceInit, EvidenceNext, OfEvidence, Rest5, Rest9, Rest11

LEMMA RecordsStay ==
  /\ RecordsInit => OfRecords
  /\ RecordsNext => OfRecords /\ UNCHANGED subject
BY DEF RecordsInit, RecordsNext, OfRecords, Rest4, Rest5

LEMMA DecisionsStay ==
  /\ DecisionsInit => OfDecisions
  /\ DecisionsNext => OfDecisions /\ UNCHANGED subject
BY DEF DecisionsInit, DecisionsNext, OfDecisions, Rest2, Rest3, Rest7, Rest8, Rest9, Rest12

LEMMA CoordinationStays ==
  /\ CoordinationInit => OfCoordination
  /\ CoordinationNext => OfCoordination /\ UNCHANGED subject
BY DEF CoordinationInit, CoordinationNext, OfCoordination, Rest9, Rest13

LEMMA StutterStays ==
  ASSUME UNCHANGED vars
  PROVE  /\ OfEvidence' = OfEvidence /\ OfRecords' = OfRecords
         /\ OfDecisions' = OfDecisions /\ OfCoordination' = OfCoordination
BY DEF vars, OfEvidence, OfRecords, OfDecisions, OfCoordination

LEMMA GroupStays ==
  ASSUME [Next]_vars
  PROVE  /\ OfEvidence => OfEvidence' /\ [EvidenceNext]_vars
         /\ OfRecords => OfRecords' /\ [RecordsNext]_vars
         /\ OfDecisions => OfDecisions' /\ [DecisionsNext]_vars
         /\ OfCoordination => OfCoordination' /\ [CoordinationNext]_vars
<1>1. CASE UNCHANGED vars
  BY <1>1, StutterStays
<1>2. CASE EvidenceNext
  <2>1. OfEvidence /\ OfEvidence'
    BY <1>2, EvidenceStays DEF OfEvidence
  <2>2. QED
    BY <1>2, <2>1, GroupsApart DEF OneOfThem
<1>3. CASE RecordsNext
  <2>1. OfRecords /\ OfRecords'
    BY <1>3, RecordsStay DEF OfRecords
  <2>2. QED
    BY <1>3, <2>1, GroupsApart DEF OneOfThem
<1>4. CASE DecisionsNext
  <2>1. OfDecisions /\ OfDecisions'
    BY <1>4, DecisionsStay DEF OfDecisions
  <2>2. QED
    BY <1>4, <2>1, GroupsApart DEF OneOfThem
<1>5. CASE CoordinationNext
  <2>1. OfCoordination /\ OfCoordination'
    BY <1>5, CoordinationStays DEF OfCoordination
  <2>2. QED
    BY <1>5, <2>1, GroupsApart DEF OneOfThem
<1>6. QED
  BY <1>1, <1>2, <1>3, <1>4, <1>5 DEF Next

LEMMA OneGroup ==
  Spec => \/ []OfEvidence /\ EvidenceSpec
          \/ []OfRecords /\ RecordsSpec
          \/ []OfDecisions /\ DecisionsSpec
          \/ []OfCoordination /\ CoordinationSpec
<1>1. Init => \/ OfEvidence /\ EvidenceInit
              \/ OfRecords /\ RecordsInit
              \/ OfDecisions /\ DecisionsInit
              \/ OfCoordination /\ CoordinationInit
  BY EvidenceStays, RecordsStay, DecisionsStay, CoordinationStays DEF Init
<1>2. OfEvidence /\ [Next]_vars => OfEvidence' /\ [EvidenceNext]_vars
  BY GroupStays
<1>3. OfRecords /\ [Next]_vars => OfRecords' /\ [RecordsNext]_vars
  BY GroupStays
<1>4. OfDecisions /\ [Next]_vars => OfDecisions' /\ [DecisionsNext]_vars
  BY GroupStays
<1>5. OfCoordination /\ [Next]_vars => OfCoordination' /\ [CoordinationNext]_vars
  BY GroupStays
<1>6. QED
  BY <1>1, <1>2, <1>3, <1>4, <1>5, PTL
     DEF Spec, EvidenceSpec, RecordsSpec, DecisionsSpec, CoordinationSpec

(* Every variable of every component around the claim protocol has its     *)
(* type, for every value of the constants.                                 *)
THEOREM ToolkitTypes == Spec => []TypeOK
<1>1. OfEvidence => RecordsTypeOK /\ DecisionsTypeOK /\ CoordinationTypeOK
  BY DEF OfEvidence, RecordsTypeOK, DecisionsTypeOK, CoordinationTypeOK, Coordinating
<1>2. OfRecords => EvidenceTypeOK /\ DecisionsTypeOK /\ CoordinationTypeOK
  BY DEF OfRecords, EvidenceTypeOK, DecisionsTypeOK, CoordinationTypeOK, Coordinating
<1>3. OfDecisions => EvidenceTypeOK /\ RecordsTypeOK /\ CoordinationTypeOK
  BY DEF OfDecisions, EvidenceTypeOK, RecordsTypeOK, CoordinationTypeOK, Coordinating
<1>4. OfCoordination => EvidenceTypeOK /\ RecordsTypeOK /\ DecisionsTypeOK
  BY DEF OfCoordination, EvidenceTypeOK, RecordsTypeOK, DecisionsTypeOK
<1>5. TypeOK <=> EvidenceTypeOK /\ RecordsTypeOK /\ DecisionsTypeOK /\ CoordinationTypeOK
  BY DEF TypeOK
<1>6. QED
  BY <1>1, <1>2, <1>3, <1>4, <1>5, OneGroup, ToolkitEvidenceTypes, ToolkitRecordTypes,
     ToolkitDecisionTypes, ToolkitCoordinationTypes, PTL

(* What the components promise in each state, together: evidence is kept,  *)
(* the record stands, decisions rest on it, iterations are accounted for.  *)
EvidencePromised == EvidenceKept /\ LedgerProven
RecordsPromised == SiblingCapHeld /\ RetirementNamed /\ IngestedOnce /\ ReadersCurrent
DecisionsPromised ==
    /\ NoDeadWork /\ ReproducedStands /\ PeeksMetered /\ WinsBacked
    /\ RentsTheCheapestThatPays /\ TargetFollowsBoard /\ UpgradeSafe /\ CeilingHolds
CoordinationPromised == NoSquat /\ TotalsExact
Promised ==
    EvidencePromised /\ RecordsPromised /\ DecisionsPromised /\ CoordinationPromised

(* Outside a group, what the group promises holds of itself.               *)
LEMMA NotAtStake ==
  /\ ~OfEvidence => EvidencePromised
  /\ ~OfRecords => RecordsPromised
  /\ ~OfDecisions => DecisionsPromised
  /\ ~OfCoordination => CoordinationPromised
<1>1. ~OfEvidence => EvidencePromised
  BY DEF OfEvidence, EvidencePromised, EvidenceKept, LedgerProven
<1>2. ~OfRecords => RecordsPromised
  BY DEF OfRecords, RecordsPromised, SiblingCapHeld, RetirementNamed, IngestedOnce,
         ReadersCurrent
<1>3. ~OfDecisions => DecisionsPromised
  BY DEF OfDecisions, DecisionsPromised, NoDeadWork, ReproducedStands, PeeksMetered,
         WinsBacked, RentsTheCheapestThatPays, TargetFollowsBoard, UpgradeSafe, CeilingHolds
<1>4. ~OfCoordination => CoordinationPromised
  BY DEF OfCoordination, CoordinationPromised, NoSquat, TotalsExact, Coordinating
<1>5. QED
  BY <1>1, <1>2, <1>3, <1>4

(* All that Toolkit.cfg checks of a state, and that no coordinator's       *)
(* verdict is replaced, on the row and for every value of the constants:   *)
(* only two relocations that overlap must be ruled out (relocate.py).      *)
THEOREM ToolkitPromises == ~MayOverlap => (Spec => []Promised /\ OneVerdict)
<1> SUFFICES ASSUME ~MayOverlap PROVE Spec => []Promised /\ OneVerdict
  OBVIOUS
<1>1. EvidenceSpec => []EvidencePromised
  BY ToolkitEvidenceKept, ToolkitLedgerProven, PTL DEF EvidencePromised
<1>2. RecordsSpec => []RecordsPromised
  BY ToolkitSiblingCap, ToolkitRetirementNamed, ToolkitIngestedOnce, ToolkitReadersCurrent, PTL
     DEF RecordsPromised
<1>3. DecisionsSpec => []DecisionsPromised
  BY ToolkitNoDeadWork, ToolkitReproducedStands, ToolkitPeeksMetered, ToolkitWinsBacked,
     ToolkitRentsTheCheapest, ToolkitTargetFollows, ToolkitUpgradeSafe, ToolkitCeilingHolds, PTL
     DEF DecisionsPromised
<1>4. CoordinationSpec => []CoordinationPromised
  BY ToolkitNoSquat, ToolkitTotalsExact, PTL DEF CoordinationPromised
<1>5. /\ OfEvidence => RecordsPromised /\ DecisionsPromised /\ CoordinationPromised
      /\ OfRecords => EvidencePromised /\ DecisionsPromised /\ CoordinationPromised
      /\ OfDecisions => EvidencePromised /\ RecordsPromised /\ CoordinationPromised
      /\ OfCoordination => EvidencePromised /\ RecordsPromised /\ DecisionsPromised
  BY NotAtStake, GroupsApart DEF OneOfThem
<1>6. Promised <=>
          EvidencePromised /\ RecordsPromised /\ DecisionsPromised /\ CoordinationPromised
  BY DEF Promised
<1>7. ~OfCoordination => [Coordinating => Coord!VerdictStands]_vars
  BY DEF OfCoordination, Coordinating
<1>8. OfEvidence \/ OfRecords \/ OfDecisions => ~OfCoordination
  BY GroupsApart DEF OneOfThem
<1>9. Spec => []Promised
  BY <1>1, <1>2, <1>3, <1>4, <1>5, <1>6, OneGroup, PTL
<1>10. Spec => OneVerdict
  BY <1>7, <1>8, OneGroup, ToolkitOneVerdict, PTL DEF OneVerdict
<1>11. QED
  BY <1>9, <1>10, PTL
=============================================================================
