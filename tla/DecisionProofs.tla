-------------------------- MODULE DecisionProofs --------------------------
(***************************************************************************)
(* What is decided, and on what: wins and the evidence behind them,        *)
(* hardware worth its money, a target that moves, a core upgraded or put   *)
(* back, the ceiling over every backend and what a member may change of    *)
(* its umbrella.                                                           *)
(*                                                                         *)
(* Each component has a part of its own, on its instance in the row that   *)
(* MCToolkit runs; the row's variables go by the names of the modules, or  *)
(* near them where two components share a name.                            *)
(* Only the last part, which states the properties as MCToolkit checks     *)
(* them, speaks of a group together. A theorem whose component needs its   *)
(* constants to be numbers, or its model values to be told apart, has that *)
(* as a hypothesis, named ...Hyp.                                          *)
(***************************************************************************)
EXTENDS Decisions, Sequences, SequenceTheorems,
        FiniteSetTheorems, WellFoundedInduction, TLAPS

(* The row, by the names of the modules.                                   *)
heldOut == x1
epoch == x2
rows == x3
promoted == x4
passed == x5
confirmed == x6
consults == x7
stop == x8
wins == x9
ask == x1
answer == x2
boardClock == x1
moves == x2
site == x3
declared == x4
snapshot == x5
pull == x6
target == x7
head == x1
core == x2
namedCore == x3
own == x4
upgradeMemos == x5
upgradeJob == x6
lastUpgrade == x7
handEdits == x8
routes == x2
priced == x3
askSpent == x4
unknown == x5
asks == x6
askPaid == x7
unseen == x8
umbrella == x1
member == x2
loaded == x3
status == x1
reach == x2
scoped == x3
ranking == x8
fanOut == x11
shortlist == x12

USE DEF heldOut, epoch, rows, promoted, passed, confirmed, consults, stop, wins, ask,
    answer, boardClock, moves, site, declared, snapshot, pull, target, head, core,
    namedCore, own, upgradeMemos, upgradeJob, lastUpgrade, handEdits, routes, priced,
    askSpent, unknown, asks,
    askPaid, unseen, umbrella, member, loaded, status, reach, scoped, ranking, fanOut,
    shortlist

-----------------------------------------------------------------------------
(* What the library does not say of numbers and finite sets.                *)

(* A set of numbers has a least one: induction over the naturals.          *)
LEMMA LeastOf ==
  ASSUME NEW T \in SUBSET Nat, T # {}
  PROVE  \E x \in T : \A y \in T : x <= y
<1>1. IsWellFoundedOn({s \in Nat \X Nat : s[1] < s[2]}, Nat)
  BY NatLessThanWellFounded DEF OpToRel
<1> PICK R : R = {s \in Nat \X Nat : s[1] < s[2]}
  OBVIOUS
<1>2. PICK x \in T : \A y \in T : ~(<<y, x>> \in R)
  BY <1>1, WFMin
<1>3. ASSUME NEW y \in T PROVE x <= y
  <2>1. ~(<<y, x>> \in {s \in Nat \X Nat : s[1] < s[2]})
    BY <1>2, <1>3
  <2>2. <<y, x>> \in Nat \X Nat
    OBVIOUS
  <2>3. ~(y < x)
    BY <2>1, <2>2
  <2>4. QED
    BY <2>3
<1>4. QED
  BY <1>3

StrictOn(R, S) ==
    /\ \A x \in S : <<x, x>> \notin R
    /\ \A x, y, z \in S : <<x, y>> \in R /\ <<y, z>> \in R => <<x, z>> \in R

Minimal(x, R, S) == x \in S /\ \A y \in S : <<y, x>> \notin R

(* A finite set has a minimal element under a strict order.                *)
LEMMA MinimalOf ==
  ASSUME NEW S, IsFiniteSet(S), S # {}, NEW R, StrictOn(R, S)
  PROVE  \E x \in S : Minimal(x, R, S)
<1> SUFFICES ASSUME \A x \in S : \E y \in S : <<y, x>> \in R
             PROVE  FALSE
  BY DEF Minimal
<1> USE DEF StrictOn
<1> DEFINE Endless(T) == T # {} /\ \A x \in T : \E y \in T : <<y, x>> \in R
           Sizes == {Cardinality(T) : T \in {T \in SUBSET S : Endless(T)}}
<1>1. ASSUME NEW T \in SUBSET S PROVE IsFiniteSet(T) /\ Cardinality(T) \in Nat
  BY FS_Subset, FS_CardinalityType
<1>2. Sizes \in SUBSET Nat /\ Sizes # {}
  <2>1. S \in {T \in SUBSET S : Endless(T)}
    OBVIOUS
  <2>2. QED
    BY <1>1, <2>1
<1>3. PICK n \in Sizes : \A m \in Sizes : n <= m
  BY <1>2, LeastOf
<1>4. PICK T \in SUBSET S : Endless(T) /\ n = Cardinality(T)
  OBVIOUS
<1>5. PICK x \in T : TRUE
  BY <1>4
<1> PICK D : D = {y \in T : <<y, x>> \in R}
  OBVIOUS
<1>6. D \subseteq T \ {x} /\ D # {} /\ D \in SUBSET S
  BY <1>4
<1>7. Cardinality(D) < Cardinality(T) /\ Cardinality(D) \in Nat /\ n \in Nat
  <2>1. Cardinality(T \ {x}) = Cardinality(T) - 1 /\ IsFiniteSet(T \ {x})
    BY <1>1, FS_RemoveElement
  <2>2. Cardinality(D) <= Cardinality(T \ {x})
    BY <1>6, <2>1, FS_Subset
  <2>3. Cardinality(D) \in Nat /\ Cardinality(T) \in Nat
    BY <1>1, <1>6
  <2>4. n \in Nat
    BY <1>4, <2>3
  <2>5. QED
    BY <2>1, <2>2, <2>3, <2>4
<1>8. Endless(D)
  <2>1. ASSUME NEW y \in D PROVE \E z \in D : <<z, y>> \in R
    <3>1. PICK z \in T : <<z, y>> \in R
      BY <1>4
    <3>2. <<z, x>> \in R
      BY <3>1
    <3>3. QED
      BY <3>1, <3>2
  <2>2. QED
    BY <1>6, <2>1
<1>9. Cardinality(D) \in Sizes
  BY <1>6, <1>8
<1>10. QED
  BY <1>3, <1>4, <1>7, <1>9

(* A common factor is dropped.                                             *)
LEMMA Cancel ==
  ASSUME NEW a \in Nat, NEW b \in Nat, NEW k \in Nat, k > 0
  PROVE  /\ a * k < b * k <=> a < b
         /\ a * k <= b * k <=> a <= b
<1>1. ASSUME NEW x \in Nat, NEW y \in Nat, x < y PROVE x * k < y * k
  <2>1. PICK d \in Nat : y = x + d /\ d > 0
    <3>1. y - x \in Nat /\ y - x > 0 /\ y = x + (y - x)
      BY <1>1
    <3>2. QED
      BY <3>1
  <2>2. y * k = x * k + d * k
    BY <2>1
  <2>3. d * k > 0
    BY <2>1
  <2>4. x * k \in Nat /\ d * k \in Nat
    BY <2>1
  <2>5. QED
    BY <2>2, <2>3, <2>4
<1>2. a * k \in Nat /\ b * k \in Nat
  OBVIOUS
<1>3. a < b => a * k < b * k
  BY <1>1
<1>4. b < a => b * k < a * k
  BY <1>1
<1>5. a = b => a * k = b * k
  OBVIOUS
<1>6. QED
  BY <1>2, <1>3, <1>4, <1>5


(* Induction over the naturals, of a set in place of a predicate.          *)
LEMMA AllNaturals ==
  ASSUME NEW S, 0 \in S, \A n \in Nat : n \in S => n + 1 \in S
  PROVE  Nat \subseteq S
<1> SUFFICES ASSUME Nat \ S # {} PROVE FALSE
  OBVIOUS
<1>1. PICK x \in Nat \ S : \A y \in Nat \ S : x <= y
  BY LeastOf
<1>2. x - 1 \in Nat /\ x - 1 \in S
  BY <1>1
<1>3. QED
  BY <1>1, <1>2

Before(i, R, S) == {j \in S : <<j, i>> \in R}

CostTotal(R, S) == StrictOn(R, S) /\ \A x, y \in S : x = y \/ <<x, y>> \in R \/ <<y, x>> \in R

(* In a finite total order some element has any given number before it.    *)
LEMMA KthOf ==
  ASSUME NEW S, IsFiniteSet(S), NEW R, CostTotal(R, S), NEW k \in Nat, k < Cardinality(S)
  PROVE  \E i \in S : Cardinality(Before(i, R, S)) = k
<1> SUFFICES ASSUME \A i \in S : Cardinality(Before(i, R, S)) # k
             PROVE  FALSE
  OBVIOUS
<1> DEFINE Bad(T) == \E n \in Nat : /\ n < Cardinality(T)
                                    /\ \A i \in T : Cardinality(Before(i, R, T)) # n
           Sizes == {Cardinality(T) : T \in {T \in SUBSET S : Bad(T)}}
<1>1. ASSUME NEW T \in SUBSET S PROVE IsFiniteSet(T) /\ Cardinality(T) \in Nat
  BY FS_Subset, FS_CardinalityType
<1>2. Sizes \in SUBSET Nat /\ Sizes # {}
  <2>1. S \in {T \in SUBSET S : Bad(T)}
    OBVIOUS
  <2>2. QED
    BY <1>1, <2>1
<1>3. PICK s \in Sizes : \A m \in Sizes : s <= m
  BY <1>2, LeastOf
<1>4. PICK T \in SUBSET S : Bad(T) /\ s = Cardinality(T)
  OBVIOUS
<1>5. PICK n \in Nat : n < Cardinality(T) /\ \A i \in T : Cardinality(Before(i, R, T)) # n
  BY <1>4
<1>6. T # {} /\ IsFiniteSet(T) /\ s \in Nat
  BY <1>1, <1>4, <1>5, FS_EmptySet
<1> PICK V : V = {p \in T \X T : <<p[2], p[1]>> \in R}
  OBVIOUS
<1>7. \A x, y \in T : <<x, y>> \in V <=> <<y, x>> \in R
  OBVIOUS
<1>8. PICK m \in T : Minimal(m, V, T)
  <2>1. StrictOn(V, T)
    BY <1>7 DEF StrictOn, CostTotal
  <2>2. QED
    BY <1>6, <2>1, MinimalOf
<1>9. \A j \in T : <<m, j>> \notin R
  BY <1>7, <1>8 DEF Minimal
<1> PICK U : U = T \ {m}
  OBVIOUS
<1>10. /\ U \in SUBSET S /\ IsFiniteSet(U) /\ Cardinality(U) = s - 1 /\ Cardinality(U) \in Nat
  BY <1>1, <1>4, <1>6, FS_RemoveElement
<1>11. Before(m, R, T) = U
  BY <1>9 DEF Before, CostTotal, StrictOn
<1>12. n # s - 1
  BY <1>5, <1>10, <1>11
<1>13. n < Cardinality(U)
  BY <1>4, <1>5, <1>6, <1>10, <1>12
<1>14. ~Bad(U)
  <2>1. Bad(U) => Cardinality(U) \in Sizes
    BY <1>10
  <2>2. Cardinality(U) \notin Sizes
    <3> HIDE DEF Sizes
    <3>1. ~(s <= Cardinality(U))
      BY <1>6, <1>10
    <3>2. QED
      BY <1>3, <3>1
  <2>3. QED
    BY <2>1, <2>2
<1>15. PICK i \in U : Cardinality(Before(i, R, U)) = n
  BY <1>13, <1>14
<1>16. Before(i, R, T) = Before(i, R, U)
  BY <1>9 DEF Before
<1>17. QED
  BY <1>5, <1>15, <1>16

Recursive(f, N, a, G) == f[0] = a /\ \A n \in 1..N : f[n] = G[n][f[n - 1]]

(* A function that is defined by recursion is there.                       *)
LEMMA RecursionOf ==
  ASSUME NEW N \in Nat, NEW A, NEW a \in A, NEW G \in [1..N -> [A -> A]]
  PROVE  \E f \in [0..N -> A] : Recursive(f, N, a, G)
<1> DEFINE Reached == {m \in Nat : m <= N => \E f \in [0..m -> A] :
                                       f[0] = a /\ \A n \in 1..m : f[n] = G[n][f[n - 1]]}
<1>1. 0 \in Reached
  <2> PICK f : f = [n \in 0..0 |-> a]
    OBVIOUS
  <2>1. f \in [0..0 -> A] /\ f[0] = a
    OBVIOUS
  <2>2. \A n \in 1..0 : f[n] = G[n][f[n - 1]]
    OBVIOUS
  <2>3. QED
    BY <2>1, <2>2
<1>2. ASSUME NEW m \in Nat, m \in Reached PROVE m + 1 \in Reached
  <2> SUFFICES ASSUME m + 1 <= N
               PROVE  \E f \in [0..(m + 1) -> A] :
                         f[0] = a /\ \A n \in 1..(m + 1) : f[n] = G[n][f[n - 1]]
    OBVIOUS
  <2>1. PICK f \in [0..m -> A] : f[0] = a /\ \A n \in 1..m : f[n] = G[n][f[n - 1]]
    BY <1>2
  <2> PICK g : g = [n \in 0..(m + 1) |-> IF n = m + 1 THEN G[m + 1][f[m]] ELSE f[n]]
    OBVIOUS
  <2>2. G[m + 1] \in [A -> A] /\ f[m] \in A
    OBVIOUS
  <2>3. g \in [0..(m + 1) -> A] /\ g[0] = a
    BY <2>1, <2>2
  <2>4. ASSUME NEW n \in 1..(m + 1) PROVE g[n] = G[n][g[n - 1]]
    <3>1. CASE n = m + 1
      BY <3>1
    <3>2. CASE n # m + 1
      <4>1. n \in 1..m /\ n - 1 \in 0..m
        BY <3>2
      <4>2. g[n] = f[n] /\ g[n - 1] = f[n - 1]
        BY <3>2, <4>1
      <4>3. QED
        BY <2>1, <4>1, <4>2
    <3>3. QED
      BY <3>1, <3>2
  <2>5. QED
    BY <2>3, <2>4
<1>3. Nat \subseteq Reached
  <2> HIDE DEF Reached
  <2>1. QED
    BY <1>1, <1>2, AllNaturals
<1>4. N \in Reached
  BY <1>3
<1>5. QED
  BY <1>4 DEF Recursive

(* Induction up to a number.                                               *)
LEMMA AllUpTo ==
  ASSUME NEW N \in Nat, NEW A, NEW f, f[0] \in A, \A n \in 1..N : f[n - 1] \in A => f[n] \in A
  PROVE  \A n \in 0..N : f[n] \in A
<1> DEFINE Reached == {m \in Nat : m <= N => f[m] \in A}
<1>1. 0 \in Reached
  OBVIOUS
<1>2. ASSUME NEW m \in Nat, m \in Reached PROVE m + 1 \in Reached
  <2>1. CASE m + 1 <= N
    <3>1. m + 1 \in 1..N /\ (m + 1) - 1 = m /\ f[m] \in A
      BY <1>2, <2>1
    <3>2. f[m + 1] \in A
      BY <3>1
    <3>3. QED
      BY <3>2
  <2>2. QED
    BY <2>1
<1>3. Nat \subseteq Reached
  <2> HIDE DEF Reached
  <2>1. QED
    BY <1>1, <1>2, AllNaturals
<1>4. QED
  BY <1>3

LEMMA LeqTransitive ==
  ASSUME NEW a \in Nat, NEW b \in Nat, NEW c \in Nat, a <= b, b <= c PROVE a <= c
OBVIOUS

LEMMA LessLeq ==
  ASSUME NEW a \in Nat, NEW b \in Nat, NEW c \in Nat, a < b, b <= c PROVE a <= c
OBVIOUS

-----------------------------------------------------------------------------
(* Frontier: what a win rests on.                                          *)

LEMMA FrontierCounts == ASSUME NEW S PROVE Fron!Cardinality(S) = Cardinality(S)
BY DEF Fron!Cardinality, Cardinality


RowType == [of : Measurements, epoch : Nat]

RowsTyped == rows \in Seq(RowType) /\ epoch \in Nat

LEMMA RowTyped ==
  ASSUME FrontierHyp, RowsTyped, NEW i \in DOMAIN rows
  PROVE  /\ rows[i].of \in Measurements /\ rows[i].epoch \in Nat /\ rows[i].of.value \in Nat
         /\ i \in Nat /\ i \in 1..Len(rows)
<1>1. rows[i] \in RowType /\ i \in 1..Len(rows) /\ Len(rows) \in Nat
  BY DEF RowsTyped
<1>2. QED
  BY <1>1 DEF RowType, FrontierHyp

LEMMA MeasuredFinite ==
  ASSUME RowsTyped, NEW R \in SUBSET DOMAIN rows
  PROVE  IsFiniteSet(R) /\ Cardinality(R) \in Nat
<1>1. DOMAIN rows = 1..Len(rows) /\ Len(rows) \in Nat
  BY DEF RowsTyped
<1>2. IsFiniteSet(1..Len(rows))
  BY <1>1, FS_Interval
<1>3. QED
  BY <1>1, <1>2, FS_Subset, FS_CardinalityType

Below(j, i) ==
    \/ rows[j].of.value < rows[i].of.value
    \/ (rows[j].of.value = rows[i].of.value /\ j < i)

(* A unit stands on a row of its own: one has as many rows below it as half*)
(* the others.                                                             *)
LEMMA StandsOn ==
  ASSUME FrontierHyp, RowsTyped, NEW u \in SUBSET DOMAIN rows, u # {}
  PROVE  Fron!Representative(u) \in u /\ Fron!Value(u) \in Nat
<1>1. IsFiniteSet(u) /\ Cardinality(u) \in Nat /\ Cardinality(u) # 0
  BY MeasuredFinite, FS_EmptySet
<1> PICK c : c = Cardinality(u)
  OBVIOUS
<1> PICK k : k = (c - 1) \div 2
  OBVIOUS
<1>2. k \in Nat /\ k < c
  BY <1>1
<1> PICK R : R = {p \in u \X u : Below(p[1], p[2])}
  OBVIOUS
<1>3. \A i, j \in u : <<j, i>> \in R <=> Below(j, i)
  OBVIOUS
<1>4. \A i \in u : rows[i].of.value \in Nat /\ i \in Nat
  BY RowTyped
<1>5. CostTotal(R, u)
  <2>1. \A x \in u : ~Below(x, x)
    BY <1>4 DEF Below
  <2>2. \A x, y, z \in u : Below(x, y) /\ Below(y, z) => Below(x, z)
    BY <1>4 DEF Below
  <2>3. \A x, y \in u : x = y \/ Below(x, y) \/ Below(y, x)
    BY <1>4 DEF Below
  <2>4. QED
    BY <1>3, <2>1, <2>2, <2>3 DEF CostTotal, StrictOn
<1>6. PICK i \in u : Cardinality(Before(i, R, u)) = k
  BY <1>1, <1>2, <1>5, KthOf
<1>7. Before(i, R, u) = {j \in u : Below(j, i)}
  BY <1>3 DEF Before
<1>8. Cardinality({j \in u : Below(j, i)}) = (Cardinality(u) - 1) \div 2
  BY <1>6, <1>7
<1>9. Fron!Representative(u) \in u
  BY <1>8, FrontierCounts DEF Fron!Representative, Below
<1>10. QED
  BY <1>4, <1>9 DEF Fron!Value

(* The rows of a unit are of one configuration.                            *)
LEMMA UnitRight ==
  ASSUME FrontierHyp, RowsTyped, NEW R \in SUBSET DOMAIN rows, NEW u \in Fron!Units(R)
  PROVE  /\ u \subseteq R /\ u # {} /\ Fron!Representative(u) \in u /\ Fron!Value(u) \in Nat
         /\ \A i \in u : Fron!SameConfig(R, i) = Fron!SameConfig(R, Fron!Representative(u))
<1>1. u \subseteq R /\ u # {} /\ \A i, j \in u : rows[i].of.config = rows[j].of.config
  BY DEF Fron!Units, Fron!Unit, Fron!SameConfig
<1>2. Fron!Representative(u) \in u /\ Fron!Value(u) \in Nat
  BY <1>1, StandsOn
<1>3. QED
  BY <1>1, <1>2 DEF Fron!SameConfig

-----------------------------------------------------------------------------
(* The rows of the configuration of i, and their sources, that beat it.    *)
Beating(R, i, beaten) == {j \in Fron!SameConfig(R, i) : rows[j].of.value > beaten}

(* What admit() has along the way: a row it holds as suspect is measured   *)
(* better than the best by one source at most.                             *)
HeldRightly(R, acc) ==
    \A i \in acc.suspect : /\ acc.best # {}
                           /\ Cardinality(Fron!Sources(Beating(R, i, Fron!Value(acc.best)))) < 2

Accs(R) == {acc \in [best : {{}} \union Fron!Units(R), step : Nat, suspect : SUBSET R] :
                HeldRightly(R, acc)}

LEMMA SourcesFinite ==
  ASSUME RowsTyped, NEW R \in SUBSET DOMAIN rows, NEW S \in SUBSET R
  PROVE  /\ Cardinality(Fron!Sources(R)) \in Nat /\ Cardinality(Fron!Sources(S)) \in Nat
         /\ Cardinality(Fron!Sources(S)) <= Cardinality(Fron!Sources(R))
<1>1. IsFiniteSet(R)
  BY MeasuredFinite
<1> PICK T : T = {rows[i].of.source : i \in R}
  OBVIOUS
<1>2. IsFiniteSet(T)
  <2> PICK f : f = [i \in R |-> rows[i].of.source]
    OBVIOUS
  <2>1. f \in [R -> T] /\ \A t \in T : \E i \in R : f[i] = t
    OBVIOUS
  <2>2. f \in Surjection(R, T)
    BY <2>1 DEF Surjection
  <2>3. QED
    BY <1>1, <2>2, FS_Surjection
<1>3. Fron!Sources(R) \subseteq T /\ Fron!Sources(S) \subseteq Fron!Sources(R)
  BY DEF Fron!Sources
<1>4. IsFiniteSet(Fron!Sources(R)) /\ IsFiniteSet(Fron!Sources(S))
  BY <1>2, <1>3, FS_Subset
<1>5. QED
  BY <1>3, <1>4, FS_Subset, FS_CardinalityType

LEMMA DisplaceRight ==
  ASSUME FrontierHyp, RowsTyped, NEW R \in SUBSET DOMAIN rows, NEW free,
         NEW acc \in Accs(R), NEW u \in Fron!Units(R)
  PROVE  Fron!Displace(R, free, acc, u) \in Accs(R)
<1> PICK next : next = Fron!Displace(R, free, acc, u)
  OBVIOUS
<1> PICK gain : gain = Fron!Value(u) - Fron!Value(acc.best)
  OBVIOUS
<1>1. /\ acc.best \in {{}} \union Fron!Units(R) /\ acc.step \in Nat /\ acc.suspect \in SUBSET R
      /\ HeldRightly(R, acc) /\ DOMAIN acc = {"best", "step", "suspect"}
  BY DEF Accs
<1>2. /\ u \subseteq R /\ u # {} /\ Fron!Value(u) \in Nat
      /\ \A i \in u : Fron!SameConfig(R, i) = Fron!SameConfig(R, Fron!Representative(u))
  BY UnitRight
<1>3. SUFFICES /\ next \in [best : {{}} \union Fron!Units(R), step : Nat, suspect : SUBSET R]
               /\ HeldRightly(R, next)
  BY DEF Accs
<1>4. CASE acc.best = {}
  <2>1. next = [acc EXCEPT !.best = u]
    BY <1>4 DEF Fron!Displace
  <2>2. acc.suspect = {}
    BY <1>1, <1>4 DEF HeldRightly
  <2>3. next.suspect = {} /\ next.best = u /\ next.step = acc.step
    BY <1>1, <2>1, <2>2
  <2>4. next \in [best : {{}} \union Fron!Units(R), step : Nat, suspect : SUBSET R]
    BY <2>1 DEF Accs
  <2>5. QED
    BY <2>3, <2>4 DEF HeldRightly
<1>5. CASE acc.best # {} /\ (Fron!Value(u) <= Fron!Value(acc.best) \/ ~Fron!ClearsNoise(gain))
  BY <1>1, <1>5 DEF Fron!Displace, Accs
<1>6. CASE /\ acc.best # {} /\ ~(Fron!Value(u) <= Fron!Value(acc.best) \/ ~Fron!ClearsNoise(gain))
           /\ Fron!Suspicious(gain, acc.step) /\ ~Fron!Released(R, free, u, Fron!Value(acc.best))
  <2>1. next = [acc EXCEPT !.suspect = acc.suspect \union u]
    BY <1>6 DEF Fron!Displace
  <2>2. next.suspect = acc.suspect \union u /\ next.best = acc.best /\ next.step = acc.step
    BY <1>1, <2>1
  <2>3. next \in [best : {{}} \union Fron!Units(R), step : Nat, suspect : SUBSET R]
    BY <1>1, <1>2, <2>1 DEF Accs
  <2>4. ASSUME NEW i \in u
        PROVE  Cardinality(Fron!Sources(Beating(R, i, Fron!Value(acc.best)))) < 2
    <3>1. Beating(R, i, Fron!Value(acc.best)) =
          Beating(R, Fron!Representative(u), Fron!Value(acc.best))
      BY <1>2 DEF Beating
    <3>2. ~(Cardinality(Fron!Sources(Beating(R, Fron!Representative(u),
          Fron!Value(acc.best)))) >= 2)
      BY <1>6, FrontierCounts DEF Fron!Released, Beating
    <3>3. Beating(R, i, Fron!Value(acc.best)) \in SUBSET DOMAIN rows
      BY DEF Beating, Fron!SameConfig
    <3>4. Cardinality(Fron!Sources(Beating(R, i, Fron!Value(acc.best)))) \in Nat
      BY <3>3, SourcesFinite
    <3>5. QED
      BY <3>1, <3>2, <3>4
  <2>5. QED
    BY <1>1, <1>6, <2>2, <2>3, <2>4 DEF HeldRightly
<1>7. CASE /\ acc.best # {} /\ ~(Fron!Value(u) <= Fron!Value(acc.best) \/ ~Fron!ClearsNoise(gain))
           /\ ~(Fron!Suspicious(gain, acc.step) /\ ~Fron!Released(R, free, u, Fron!Value(acc.best)))
  <2>1. next = [acc EXCEPT !.best = u, !.step = IF gain > acc.step THEN gain ELSE acc.step]
    BY <1>7 DEF Fron!Displace
  <2>2. acc.best \in Fron!Units(R) /\ Fron!Value(acc.best) \in Nat
    BY <1>1, <1>7, UnitRight
  <2>3. Fron!Value(acc.best) < Fron!Value(u) /\ gain \in Nat
    BY <1>2, <1>7, <2>2
  <2>4. /\ next.suspect = acc.suspect /\ next.best = u
        /\ next.step = (IF gain > acc.step THEN gain ELSE acc.step)
    BY <1>1, <2>1
  <2>5. next \in [best : {{}} \union Fron!Units(R), step : Nat, suspect : SUBSET R]
    BY <1>1, <2>1, <2>3 DEF Accs
  <2>6. ASSUME NEW i \in acc.suspect
        PROVE  Cardinality(Fron!Sources(Beating(R, i, Fron!Value(u)))) < 2
    <3>1. Beating(R, i, Fron!Value(acc.best)) \in SUBSET DOMAIN rows
      BY DEF Beating, Fron!SameConfig
    <3>2. Beating(R, i, Fron!Value(u)) \subseteq Beating(R, i, Fron!Value(acc.best))
      <4>1. \A j \in Fron!SameConfig(R, i) : rows[j].of.value \in Nat
        BY RowTyped DEF Fron!SameConfig
      <4>2. QED
        BY <1>2, <2>2, <2>3, <4>1 DEF Beating
    <3>3. /\ Cardinality(Fron!Sources(Beating(R, i, Fron!Value(acc.best)))) \in Nat
          /\ Cardinality(Fron!Sources(Beating(R, i, Fron!Value(u)))) \in Nat
          /\ Cardinality(Fron!Sources(Beating(R, i, Fron!Value(u))))
                <= Cardinality(Fron!Sources(Beating(R, i, Fron!Value(acc.best))))
      BY <3>1, <3>2, SourcesFinite
    <3>4. Cardinality(Fron!Sources(Beating(R, i, Fron!Value(acc.best)))) < 2
      BY <1>1 DEF HeldRightly
    <3>5. QED
      BY <3>3, <3>4
  <2>7. QED
    BY <1>2, <2>4, <2>5, <2>6 DEF HeldRightly
<1>8. QED
  BY <1>4, <1>5, <1>6, <1>7

LEMMA JudgeRight ==
  ASSUME FrontierHyp, RowsTyped, NEW R \in SUBSET DOMAIN rows, NEW free,
         NEW acc \in Accs(R), NEW n
  PROVE  Fron!Judge(R, free, acc, n) \in Accs(R)
<1>1. n \in R => Fron!Unit(R, n) \in Fron!Units(R)
  BY DEF Fron!Units
<1>2. QED
  BY <1>1, DisplaceRight DEF Fron!Judge

LEMMA WalkRight ==
  ASSUME FrontierHyp, RowsTyped, NEW R \in SUBSET DOMAIN rows, NEW free
  PROVE  Fron!Walk(R, free) \in Accs(R)
<1> DEFINE Defined(f) ==
        f = [n \in 0..Len(rows) |-> IF n = 0 THEN Fron!NoUnit ELSE Fron!Judge(R, free, f[n - 1], n)]
           walk == CHOOSE f : Defined(f)
<1> PICK N : N = Len(rows)
  OBVIOUS
<1> PICK A : A = Accs(R)
  OBVIOUS
<1>1. N \in Nat /\ Fron!NoUnit \in A
  <2>1. Fron!NoUnit \in [best : {{}} \union Fron!Units(R), step : Nat, suspect : SUBSET R]
    BY DEF Fron!NoUnit
  <2>2. Fron!NoUnit.suspect = {}
    BY DEF Fron!NoUnit
  <2>3. QED
    BY <2>1, <2>2 DEF RowsTyped, Accs, HeldRightly
<1>2. \A acc \in A, n \in 1..N : Fron!Judge(R, free, acc, n) \in A
  BY JudgeRight
<1> PICK G : G = [n \in 1..N |-> [acc \in A |-> Fron!Judge(R, free, acc, n)]]
  OBVIOUS
<1>3. G \in [1..N -> [A -> A]]
  BY <1>2
<1>4. PICK f \in [0..N -> A] : Recursive(f, N, Fron!NoUnit, G)
  BY <1>1, <1>3, RecursionOf
<1>5. ASSUME NEW n \in 0..N
      PROVE  f[n] = IF n = 0 THEN Fron!NoUnit ELSE Fron!Judge(R, free, f[n - 1], n)
  <2>1. CASE n = 0
    BY <1>4, <2>1 DEF Recursive
  <2>2. CASE n # 0
    <3>1. n \in 1..N /\ n - 1 \in 0..N
      BY <1>1, <2>2
    <3>2. f[n - 1] \in A
      BY <3>1
    <3>3. f[n] = G[n][f[n - 1]]
      BY <1>4, <3>1 DEF Recursive
    <3>4. QED
      BY <2>2, <3>1, <3>2, <3>3
  <2>3. QED
    BY <2>1, <2>2
<1>6. Defined(f)
  BY <1>5
<1>7. Defined(walk)
  BY <1>6
<1>8. Fron!Walk(R, free) = walk[N]
  BY DEF Fron!Walk
<1> PICK w : w = walk
  OBVIOUS
<1>9. /\ w = [n \in 0..N |-> IF n = 0 THEN Fron!NoUnit ELSE Fron!Judge(R, free, w[n - 1], n)]
      /\ Fron!Walk(R, free) = w[N]
  BY <1>7, <1>8
<1> HIDE DEF walk, Defined
<1>10. w[0] \in A
  BY <1>1, <1>9
<1>11. ASSUME NEW n \in 1..N, w[n - 1] \in A PROVE w[n] \in A
  <2>1. w[n] = Fron!Judge(R, free, w[n - 1], n)
    BY <1>1, <1>9
  <2>2. QED
    BY <1>2, <1>11, <2>1
<1>12. \A n \in 0..N : w[n] \in A
  BY <1>1, <1>10, <1>11, AllUpTo
<1>13. QED
  BY <1>1, <1>9, <1>12

LEMMA SettleRight ==
  ASSUME FrontierHyp, RowsTyped, NEW R \in SUBSET DOMAIN rows, NEW free, NEW acc \in Accs(R)
  PROVE  Fron!Settle(R, free, acc) \in Accs(R)
<1> PICK U : U = Fron!Better(R, acc)
  OBVIOUS
<1>1. CASE ~Grouped \/ U = {}
  BY <1>1 DEF Fron!Settle
<1>2. CASE Grouped /\ U # {}
  <2>1. U \subseteq Fron!Units(R) /\ \A u \in U : Fron!Value(u) \in Nat
    BY UnitRight DEF Fron!Better
  <2>2. IsFiniteSet(U)
    <3> PICK f : f = [i \in R |-> Fron!Unit(R, i)]
      OBVIOUS
    <3>1. f \in Surjection(R, Fron!Units(R))
      BY DEF Fron!Units, Surjection
    <3>2. IsFiniteSet(Fron!Units(R))
      BY <3>1, MeasuredFinite, FS_Surjection
    <3>3. QED
      BY <2>1, <3>2, FS_Subset
  <2> PICK M : M = {p \in U \X U : Fron!Value(p[1]) > Fron!Value(p[2])}
    OBVIOUS
  <2>3. \A u, v \in U : <<u, v>> \in M <=> Fron!Value(u) > Fron!Value(v)
    OBVIOUS
  <2>4. StrictOn(M, U)
    BY <2>1, <2>3 DEF StrictOn
  <2>5. PICK u \in U : Minimal(u, M, U)
    BY <1>2, <2>2, <2>4, MinimalOf
  <2>6. \E t \in U : \A v \in U : Fron!Value(v) <= Fron!Value(t)
    <3>1. \A v \in U : ~(Fron!Value(v) > Fron!Value(u))
      BY <2>3, <2>5 DEF Minimal
    <3>2. \A v \in U : Fron!Value(v) <= Fron!Value(u)
      BY <2>1, <3>1
    <3>3. QED
      BY <3>2
  <2>7. (CHOOSE t \in U : \A v \in U : Fron!Value(v) <= Fron!Value(t)) \in Fron!Units(R)
    BY <2>1, <2>6
  <2>8. Fron!Settle(R, free, acc)
           = Fron!Displace(R, free, acc, CHOOSE t \in U : \A v \in U :
               Fron!Value(v) <= Fron!Value(t))
    BY <1>2 DEF Fron!Settle
  <2>9. QED
    BY <2>7, <2>8, DisplaceRight
<1>3. QED
  BY <1>1, <1>2

LEMMA AdmitRight ==
  ASSUME FrontierHyp, RowsTyped, NEW R \in SUBSET DOMAIN rows, NEW free
  PROVE  Fron!Admit(R, free) \in Accs(R)
<1> DEFINE Defined(f) ==
        f = [n \in 0..Cardinality(Configs) |->
                IF n = 0 THEN Fron!Walk(R, free) ELSE Fron!Settle(R, free, f[n - 1])]
           settle == CHOOSE f : Defined(f)
<1> PICK N : N = Cardinality(Configs)
  OBVIOUS
<1> PICK A : A = Accs(R)
  OBVIOUS
<1> PICK a : a = Fron!Walk(R, free)
  OBVIOUS
<1>1. N \in Nat /\ a \in A
  BY WalkRight, FS_CardinalityType DEF FrontierHyp
<1>2. \A acc \in A : Fron!Settle(R, free, acc) \in A
  BY SettleRight
<1> PICK G : G = [n \in 1..N |-> [acc \in A |-> Fron!Settle(R, free, acc)]]
  OBVIOUS
<1>3. G \in [1..N -> [A -> A]]
  BY <1>2
<1>4. PICK f \in [0..N -> A] : Recursive(f, N, a, G)
  BY <1>1, <1>3, RecursionOf
<1>5. ASSUME NEW n \in 0..N PROVE f[n] = IF n = 0 THEN a ELSE Fron!Settle(R, free, f[n - 1])
  <2>1. CASE n = 0
    BY <1>4, <2>1 DEF Recursive
  <2>2. CASE n # 0
    <3>1. n \in 1..N /\ n - 1 \in 0..N
      BY <1>1, <2>2
    <3>2. f[n - 1] \in A
      BY <3>1
    <3>3. f[n] = G[n][f[n - 1]]
      BY <1>4, <3>1 DEF Recursive
    <3>4. QED
      BY <2>2, <3>1, <3>2, <3>3
  <2>3. QED
    BY <2>1, <2>2
<1>6. Defined(f)
  BY <1>5
<1>7. Defined(settle)
  BY <1>6
<1>8. Fron!Admit(R, free) = settle[N]
  BY FrontierCounts DEF Fron!Admit
<1> PICK w : w = settle
  OBVIOUS
<1>9. /\ w = [n \in 0..N |-> IF n = 0 THEN a ELSE Fron!Settle(R, free, w[n - 1])]
      /\ Fron!Admit(R, free) = w[N]
  BY <1>7, <1>8
<1> HIDE DEF settle, Defined
<1>10. w[0] \in A
  BY <1>1, <1>9
<1>11. ASSUME NEW n \in 1..N, w[n - 1] \in A PROVE w[n] \in A
  <2>1. w[n] = Fron!Settle(R, free, w[n - 1])
    BY <1>1, <1>9
  <2>2. QED
    BY <1>2, <1>11, <2>1
<1>12. \A n \in 0..N : w[n] \in A
  BY <1>1, <1>10, <1>11, AllUpTo
<1>13. QED
  BY <1>1, <1>9, <1>12

LEMMA EligibleRows == RowsTyped => Fron!Eligible \in SUBSET DOMAIN rows
BY DEF Fron!Eligible, Fron!CurrentRows

(* The best row is a row.                                                  *)
LEMMA BestIsRow ==
  ASSUME FrontierHyp, RowsTyped, Fron!Best # None
  PROVE  Fron!Best \in DOMAIN rows
<1> PICK u : u = Fron!Admit(Fron!Eligible, promoted).best
  OBVIOUS
<1>1. u \in {{}} \union Fron!Units(Fron!Eligible)
  BY EligibleRows, AdmitRight DEF Accs
<1>2. u # {} /\ Fron!Best = Fron!Representative(u)
  BY DEF Fron!Best
<1>3. QED
  BY <1>1, <1>2, EligibleRows, UnitRight

LEMMA NoneHeldThatTwoMeasured ==
  ASSUME FrontierHyp, RowsTyped
  PROVE  Fron!ReproducedStands
<1> PICK acc : acc = Fron!Admit(Fron!Eligible, promoted)
  OBVIOUS
<1>1. HeldRightly(Fron!Eligible, acc)
  BY EligibleRows, AdmitRight DEF Accs
<1>2. QED
  BY <1>1, FrontierCounts DEF HeldRightly, Fron!ReproducedStands, Beating

-----------------------------------------------------------------------------
Consult == [epoch : Nat, config : Configs, said : Fron!Outcomes]

PassedHeldOut(b) ==
    \E i \in DOMAIN consults : /\ consults[i].said = "pass"
                               /\ consults[i].config = rows[b].of.config
                               /\ consults[i].epoch >= rows[b].epoch

(* A decision under way is about a row; the pass it goes by is recorded.   *)
StopRight(p) ==
    stop[p] # None =>
        /\ DOMAIN stop[p] = {"at", "best", "said"} /\ stop[p].best \in DOMAIN rows
        /\ stop[p].said = "pass" => PassedHeldOut(stop[p].best)

Asking == {p \in Judges : Fron!At(p, "peek")}

(* A peek under way counts as taken, until its epoch is over.              *)
PeeksRight ==
    /\ \A e \in Nat : e < epoch => Fron!Peeks(e) <= Cap + Cardinality(Judges) - 1
    /\ \A e \in Nat : e > epoch => Fron!Peeks(e) = 0
    /\ Fron!Peeks(epoch) + Cardinality(Asking) <= Cap + Cardinality(Judges) - 1

FrontierInv ==
    /\ RowsTyped /\ \A i \in DOMAIN rows : rows[i].epoch <= epoch
    /\ consults \in Seq(Consult)
    /\ DOMAIN stop = Judges /\ \A p \in Judges : StopRight(p)
    /\ wins \subseteq DOMAIN rows /\ Fron!WinsBacked
    /\ PeeksRight

LEMMA PeeksCounted ==
  ASSUME FrontierHyp, consults \in Seq(Consult)
  PROVE  /\ \A e : Fron!Peeks(e) \in Nat
         /\ \A S \in SUBSET Judges : /\ IsFiniteSet(S) /\ Cardinality(S) \in Nat
                                     /\ Cardinality(S) <= Cardinality(Judges)
         /\ Cardinality(Judges) \in Nat /\ Cardinality(Judges) > 0
<1>1. IsFiniteSet(DOMAIN consults)
  <2>1. DOMAIN consults = 1..Len(consults) /\ Len(consults) \in Nat
    OBVIOUS
  <2>2. QED
    BY <2>1, FS_Interval
<1>2. ASSUME NEW e PROVE Fron!Peeks(e) \in Nat
  <2> PICK S : S = {i \in DOMAIN consults : consults[i].epoch = e}
    OBVIOUS
  <2>1. IsFiniteSet(S)
    BY <1>1, FS_Subset
  <2>2. QED
    BY <2>1, FS_CardinalityType, FrontierCounts DEF Fron!Peeks
<1>3. ASSUME NEW S \in SUBSET Judges
      PROVE  /\ IsFiniteSet(S) /\ Cardinality(S) \in Nat /\ Cardinality(S) <= Cardinality(Judges)
  BY FS_Subset, FS_CardinalityType DEF FrontierHyp
<1>4. Cardinality(Judges) \in Nat /\ Cardinality(Judges) > 0
  BY FS_CardinalityType, FS_EmptySet DEF FrontierHyp
<1>5. QED
  BY <1>2, <1>3, <1>4

-----------------------------------------------------------------------------
(* Steps that leave the ledgers and the decisions alone.                   *)
LEMMA OtherSafe ==
  ASSUME FrontierHyp, FrontierInv,
         UNCHANGED <<heldOut, epoch, rows, consults, stop, wins>>
  PROVE  FrontierInv'
<1>1. PeeksRight'
  BY FrontierCounts DEF FrontierInv, PeeksRight, Fron!Peeks, Asking, Fron!At
<1>2. Fron!WinsBacked'
  BY DEF FrontierInv, Fron!WinsBacked, Fron!Sources, Fron!Meets, Fron!Excluded
<1>3. \A p \in Judges : StopRight(p)'
  BY DEF FrontierInv, StopRight, PassedHeldOut
<1>4. QED
  BY <1>1, <1>2, <1>3 DEF FrontierInv, RowsTyped

LEMMA NewEpochSafe ==
  ASSUME FrontierHyp, FrontierInv, Fron!NewEpoch
  PROVE  FrontierInv'
<1>1. epoch' = epoch + 1 /\ UNCHANGED <<heldOut, rows, consults, stop, wins>> /\ epoch \in Nat
  BY DEF Fron!NewEpoch, Fron!KeepDecision, FrontierInv, RowsTyped
<1>2. Fron!WinsBacked'
  <2>1. Fron!WinsBacked /\ UNCHANGED <<heldOut, rows, consults, wins>>
    BY <1>1 DEF FrontierInv
  <2>2. QED
    BY <2>1 DEF Fron!WinsBacked, Fron!Sources, Fron!Meets, Fron!Excluded
<1>3. \A p \in Judges : StopRight(p)'
  BY <1>1 DEF FrontierInv, StopRight, PassedHeldOut
<1>4. RowsTyped' /\ \A i \in DOMAIN rows' : rows'[i].epoch <= epoch'
  <2>1. \A i \in DOMAIN rows : rows[i].epoch \in Nat /\ rows[i].epoch <= epoch
    BY RowTyped DEF FrontierInv
  <2>2. QED
    BY <1>1, <2>1 DEF FrontierInv, RowsTyped
<1>5. PeeksRight'
  <2>1. /\ \A e : Fron!Peeks(e) \in Nat /\ Fron!Peeks(e)' = Fron!Peeks(e)
        /\ Cardinality(Asking) \in Nat /\ Cardinality(Asking) <= Cardinality(Judges)
        /\ Cardinality(Judges) \in Nat /\ Asking' = Asking
    BY <1>1, PeeksCounted, FrontierCounts DEF FrontierInv, Fron!Peeks, Asking, Fron!At
  <2> PICK n, a : n = Cardinality(Judges) /\ a = Cardinality(Asking)
    OBVIOUS
  <2>2. /\ \A e \in Nat : e < epoch => Fron!Peeks(e) <= Cap + n - 1
        /\ \A e \in Nat : e > epoch => Fron!Peeks(e) = 0
        /\ Fron!Peeks(epoch) + a <= Cap + n - 1
    BY DEF FrontierInv, PeeksRight
  <2>3. ASSUME NEW e \in Nat, e < epoch' PROVE Fron!Peeks(e) <= Cap + n - 1
    <3>1. CASE e < epoch
      BY <2>2, <3>1
    <3>2. CASE e = epoch
      BY <2>1, <2>2, <3>2 DEF FrontierHyp
    <3>3. QED
      BY <1>1, <2>3, <3>1, <3>2
  <2>4. ASSUME NEW e \in Nat, e > epoch' PROVE Fron!Peeks(e) = 0
    BY <1>1, <2>2, <2>4
  <2>5. Fron!Peeks(epoch') + a <= Cap + n - 1
    <3>1. Fron!Peeks(epoch') = 0
      BY <1>1, <2>2
    <3>2. QED
      BY <2>1, <3>1 DEF FrontierHyp
  <2>6. Fron!Peeks(epoch)' = Fron!Peeks(epoch')
    BY <1>1, FrontierCounts DEF Fron!Peeks
  <2>7. QED
    BY <2>1, <2>3, <2>4, <2>5, <2>6 DEF PeeksRight
<1>6. QED
  BY <1>1, <1>2, <1>3, <1>4, <1>5 DEF FrontierInv

LEMMA FrontierMeasureSafe ==
  ASSUME FrontierHyp, FrontierInv, NEW m \in Measurements, Fron!Measure(m)
  PROVE  FrontierInv'
<1> PICK r : r = [of |-> m, epoch |-> epoch]
  OBVIOUS
<1>1. rows' = Append(rows, r) /\ UNCHANGED <<heldOut, epoch, consults, stop, wins>>
  BY DEF Fron!Measure, Fron!KeepDecision
<1>2. r \in RowType /\ r.epoch = epoch /\ epoch \in Nat /\ rows \in Seq(RowType)
  BY DEF FrontierInv, RowsTyped, RowType
<1>3. /\ rows' \in Seq(RowType) /\ DOMAIN rows \subseteq DOMAIN rows'
      /\ \A i \in DOMAIN rows : rows'[i] = rows[i]
      /\ \A i \in DOMAIN rows' : i \in DOMAIN rows \/ rows'[i] = r
  BY <1>1, <1>2
<1>4. RowsTyped' /\ \A i \in DOMAIN rows' : rows'[i].epoch <= epoch'
  <2>1. \A i \in DOMAIN rows : rows[i].epoch <= epoch
    BY DEF FrontierInv
  <2>2. ASSUME NEW i \in DOMAIN rows' PROVE rows'[i].epoch <= epoch'
    BY <1>1, <1>2, <1>3, <2>1
  <2>3. QED
    BY <1>1, <1>2, <1>3, <2>2 DEF RowsTyped
<1>5. \A p \in Judges : StopRight(p)'
  BY <1>1, <1>3 DEF FrontierInv, StopRight, PassedHeldOut
<1>6. wins' \subseteq DOMAIN rows'
  BY <1>1, <1>3 DEF FrontierInv
<1>7. Fron!WinsBacked'
  <2>1. ASSUME NEW w \in wins, heldOut
        PROVE  \E i \in DOMAIN consults : /\ consults[i].said = "pass"
                                          /\ consults[i].config = rows'[w].of.config
                                          /\ consults[i].epoch >= rows'[w].epoch
    BY <1>3, <2>1 DEF FrontierInv, Fron!WinsBacked
  <2>2. ASSUME NEW w \in wins, ~heldOut
        PROVE  Fron!Sources({i \in DOMAIN rows : Fron!Meets(i) /\
            ~Fron!Excluded(i)})' \ {rows'[w].of.source} # {}
    <3>1. Fron!Sources({i \in DOMAIN rows : Fron!Meets(i) /\
          ~Fron!Excluded(i)}) \ {rows[w].of.source} # {}
      BY <2>2 DEF FrontierInv, Fron!WinsBacked
    <3>2. Fron!Sources({i \in DOMAIN rows : Fron!Meets(i) /\ ~Fron!Excluded(i)})
             \subseteq Fron!Sources({i \in DOMAIN rows : Fron!Meets(i) /\ ~Fron!Excluded(i)})'
      BY <1>3 DEF Fron!Sources, Fron!Meets, Fron!Excluded
    <3>3. rows'[w] = rows[w]
      BY <1>3 DEF FrontierInv
    <3>4. QED
      BY <3>1, <3>2, <3>3
  <2>3. QED
    BY <1>1, <2>1, <2>2 DEF Fron!WinsBacked
<1>8. PeeksRight'
  BY <1>1, FrontierCounts DEF FrontierInv, PeeksRight, Fron!Peeks, Asking, Fron!At
<1>9. QED
  BY <1>1, <1>4, <1>5, <1>6, <1>7, <1>8 DEF FrontierInv

-----------------------------------------------------------------------------
Fields == {"at", "best", "said"}

(* A step of one decision that consults nothing.                           *)
LEMMA DecisionStep ==
  ASSUME FrontierHyp, FrontierInv, Fron!KeepRecord, consults' = consults, NEW p \in Judges, NEW j,
         stop' = [stop EXCEPT ![p] = j],
         j # None => /\ DOMAIN j = Fields /\ j.best \in DOMAIN rows
                     /\ j.said = "pass" => PassedHeldOut(j.best)
                     /\ j.at = "peek" => Fron!Peeks(epoch) < Cap,
         wins' \subseteq DOMAIN rows, Fron!WinsBacked'
  PROVE  FrontierInv'
<1>1. /\ DOMAIN stop' = Judges /\ stop'[p] = j /\ \A q \in Judges : q # p => stop'[q] = stop[q]
      /\ UNCHANGED <<heldOut, epoch, rows>>
  BY DEF FrontierInv, Fron!KeepRecord
<1>2. ASSUME NEW q \in Judges PROVE StopRight(q)'
  <2>1. CASE q = p
    BY <1>1, <2>1 DEF StopRight, PassedHeldOut, Fields
  <2>2. CASE q # p
    BY <1>1, <2>2 DEF FrontierInv, StopRight, PassedHeldOut
  <2>3. QED
    BY <2>1, <2>2
<1>3. PeeksRight'
  <2>1. /\ Asking' \subseteq Judges /\ Asking \subseteq Judges
        /\ (j = None \/ j.at # "peek") => Asking' \subseteq Asking
    BY <1>1 DEF Asking, Fron!At
  <2>2. /\ IsFiniteSet(Asking) /\ Cardinality(Asking) \in Nat /\ Cardinality(Asking') \in Nat
        /\ Cardinality(Asking') <= Cardinality(Judges) /\ Cardinality(Judges) \in Nat
        /\ Cardinality(Judges) > 0 /\ Fron!Peeks(epoch) \in Nat
    BY <2>1, PeeksCounted DEF FrontierInv
  <2> PICK n, a, b, k : /\ n = Cardinality(Judges) /\ a = Cardinality(Asking)
                        /\ b = Cardinality(Asking') /\ k = Fron!Peeks(epoch)
    OBVIOUS
  <2>3. k + b <= Cap + n - 1
    <3>1. CASE j = None \/ j.at # "peek"
      <4>1. b <= a
        BY <2>1, <2>2, <3>1, FS_Subset
      <4>2. k + a <= Cap + n - 1
        BY DEF FrontierInv, PeeksRight
      <4>3. QED
        BY <2>2, <4>1, <4>2 DEF FrontierHyp
    <3>2. CASE j # None /\ j.at = "peek"
      <4>1. k < Cap /\ b <= n
        BY <2>2, <3>2
      <4>2. QED
        BY <2>2, <4>1 DEF FrontierHyp
    <3>3. QED
      BY <3>1, <3>2
  <2>4. /\ \A e : Fron!Peeks(e)' = Fron!Peeks(e) /\ Fron!Peeks(epoch)' = k
    BY <1>1, FrontierCounts DEF Fron!Peeks
  <2>5. QED
    BY <1>1, <2>3, <2>4 DEF FrontierInv, PeeksRight
<1>4. RowsTyped' /\ \A i \in DOMAIN rows' : rows'[i].epoch <= epoch'
  BY <1>1 DEF FrontierInv, RowsTyped
<1>5. QED
  BY <1>1, <1>2, <1>3, <1>4 DEF FrontierInv

LEMMA WinsKept ==
  ASSUME FrontierInv, Fron!KeepRecord, consults' = consults, wins' = wins
  PROVE  wins' \subseteq DOMAIN rows /\ Fron!WinsBacked'
BY DEF FrontierInv, Fron!KeepRecord, Fron!WinsBacked, Fron!Sources, Fron!Meets, Fron!Excluded

LEMMA ReadBestSafe ==
  ASSUME FrontierHyp, FrontierInv, NEW p \in Judges, Fron!ReadBest(p)
  PROVE  FrontierInv'
<1> PICK b : b = Fron!Best
  OBVIOUS
<1> PICK j : j = [at |-> IF heldOut THEN "holdout" ELSE "decide", best |-> b, said |-> None]
  OBVIOUS
<1>1. /\ stop' = [stop EXCEPT ![p] = j] /\ b # None
      /\ Fron!KeepRecord /\ consults' = consults /\ wins' = wins
  BY DEF Fron!ReadBest
<1>2. b \in DOMAIN rows
  BY <1>1, BestIsRow DEF FrontierInv
<1>3. DOMAIN j = Fields /\ j.best = b /\ j.said # "pass" /\ j.at # "peek"
  BY DEF FrontierHyp, Fields
<1>4. QED
  BY <1>1, <1>2, <1>3, WinsKept, DecisionStep

(* The last verdict of the epoch is one of them.                           *)
LEMMA SaidIsRecorded ==
  ASSUME FrontierHyp, FrontierInv, NEW c, Fron!Said(c) = "pass"
  PROVE  \E i \in DOMAIN consults : /\ consults[i].said = "pass" /\ consults[i].config = c
                                    /\ consults[i].epoch = epoch
<1> PICK V : V = Fron!Verdicts(c)
  OBVIOUS
<1>1. V # {} /\ consults[Fron!Max(V)].said = "pass"
  BY DEF Fron!Said, FrontierHyp
<1>2. V \subseteq 1..Len(consults) /\ Len(consults) \in Nat
  BY DEF Fron!Verdicts, FrontierInv
<1>3. \E x \in V : \A y \in V : x >= y
  <2> PICK T : T = {Len(consults) - i : i \in V}
    OBVIOUS
  <2>1. T \in SUBSET Nat /\ T # {}
    BY <1>1, <1>2
  <2>2. PICK t \in T : \A u \in T : t <= u
    BY <2>1, LeastOf
  <2>3. PICK x \in V : t = Len(consults) - x
    BY <2>2
  <2>4. ASSUME NEW y \in V PROVE x >= y
    <3>1. t <= Len(consults) - y
      BY <2>2
    <3>2. QED
      BY <1>2, <2>3, <3>1
  <2>5. QED
    BY <2>4
<1>4. Fron!Max(V) \in V
  BY <1>3 DEF Fron!Max
<1>5. QED
  BY <1>1, <1>4 DEF Fron!Verdicts

LEMMA UseCachedSafe ==
  ASSUME FrontierHyp, FrontierInv, NEW p \in Judges, Fron!UseCached(p)
  PROVE  FrontierInv'
<1> PICK b : b = stop[p].best
  OBVIOUS
<1> PICK o : o = Fron!Said(rows[b].of.config)
  OBVIOUS
<1>1. /\ stop' = [stop EXCEPT ![p].at = "decide", ![p].said = o] /\ stop[p] # None
      /\ Fron!KeepRecord /\ consults' = consults /\ wins' = wins
  BY DEF Fron!UseCached, Fron!At
<1>2. DOMAIN stop[p] = Fields /\ b \in DOMAIN rows
  BY <1>1 DEF FrontierInv, StopRight, Fields
<1> PICK j : j = [stop[p] EXCEPT !.at = "decide", !.said = o]
  OBVIOUS
<1>3. stop' = [stop EXCEPT ![p] = j]
  BY <1>1 DEF FrontierInv
<1>4. DOMAIN j = Fields /\ j.best = b /\ j.said = o /\ j.at = "decide"
  BY <1>2 DEF Fields
<1>5. o = "pass" => PassedHeldOut(b)
  <2> SUFFICES ASSUME o = "pass" PROVE PassedHeldOut(b)
    OBVIOUS
  <2>1. PICK i \in DOMAIN consults :
           consults[i].said = "pass" /\ consults[i].config = rows[b].of.config
           /\ consults[i].epoch = epoch
    BY SaidIsRecorded
  <2>2. rows[b].epoch <= epoch
    BY <1>2 DEF FrontierInv
  <2>3. rows[b].epoch \in Nat /\ epoch \in Nat
    BY <1>2, RowTyped DEF FrontierInv, RowsTyped
  <2>4. QED
    BY <2>1, <2>2, <2>3 DEF PassedHeldOut
<1>6. QED
  BY <1>1, <1>2, <1>3, <1>4, <1>5, WinsKept, DecisionStep

LEMMA PeekSafe ==
  ASSUME FrontierHyp, FrontierInv, NEW p \in Judges, Fron!Peek(p) \/ Fron!Retry(p)
  PROVE  FrontierInv'
<1>1. /\ stop' = [stop EXCEPT ![p].at = "peek"] /\ stop[p] # None /\ Fron!Peeks(epoch) < Cap
      /\ Fron!KeepRecord /\ consults' = consults /\ wins' = wins
  BY DEF Fron!Peek, Fron!Retry, Fron!At
<1>2. /\ DOMAIN stop[p] = Fields /\ stop[p].best \in DOMAIN rows
      /\ stop[p].said = "pass" => PassedHeldOut(stop[p].best)
  BY <1>1 DEF FrontierInv, StopRight, Fields
<1> PICK j : j = [stop[p] EXCEPT !.at = "peek"]
  OBVIOUS
<1>3. stop' = [stop EXCEPT ![p] = j]
  BY <1>1 DEF FrontierInv
<1>4. DOMAIN j = Fields /\ j.best = stop[p].best /\ j.said = stop[p].said
  BY <1>2 DEF Fields
<1>5. QED
  BY <1>1, <1>2, <1>3, <1>4, WinsKept, DecisionStep

LEMMA GoOnSafe ==
  ASSUME FrontierHyp, FrontierInv, NEW p \in Judges, Fron!GoOn(p)
  PROVE  FrontierInv'
<1>1. /\ stop' = [stop EXCEPT ![p] = None]
      /\ Fron!KeepRecord /\ consults' = consults /\ wins' = wins
  BY DEF Fron!GoOn
<1>2. QED
  BY <1>1, WinsKept, DecisionStep

LEMMA WinSafe ==
  ASSUME FrontierHyp, FrontierInv, NEW p \in Judges, Fron!Win(p)
  PROVE  FrontierInv'
<1> PICK b : b = stop[p].best
  OBVIOUS
<1>1. /\ stop' = [stop EXCEPT ![p] = None] /\ stop[p] # None /\ wins' = wins \union {b}
      /\ Fron!KeepRecord /\ consults' = consults
      /\ IF heldOut THEN stop[p].said = "pass" ELSE Fron!ConfirmedElsewhere(b)
  BY DEF Fron!Win, Fron!At
<1>2. b \in DOMAIN rows /\ wins' \subseteq DOMAIN rows
  BY <1>1 DEF FrontierInv, StopRight
<1>3. CASE heldOut
  <2>1. PassedHeldOut(b)
    BY <1>1, <1>3 DEF FrontierInv, StopRight
  <2>2. Fron!WinsBacked'
    BY <1>1, <1>3, <2>1 DEF FrontierInv, Fron!KeepRecord, Fron!WinsBacked, PassedHeldOut
  <2>3. QED
    BY <1>1, <1>2, <2>2, DecisionStep
<1>4. CASE ~heldOut
  <2> PICK S : S = Fron!Sources({i \in DOMAIN rows : Fron!Meets(i) /\ ~Fron!Excluded(i)})
    OBVIOUS
  <2>1. Fron!Sources({i \in Fron!ConfirmationRows : Fron!Meets(i)}) \subseteq S
    BY DEF Fron!Sources, Fron!ConfirmationRows, Fron!Eligible, Fron!CurrentRows
  <2>2. S \ {rows[b].of.source} # {}
    BY <1>1, <1>4, <2>1 DEF Fron!ConfirmedElsewhere
  <2>3. \A w \in wins : S \ {rows[w].of.source} # {}
    BY <1>4 DEF FrontierInv, Fron!WinsBacked
  <2>4. Fron!Sources({i \in DOMAIN rows : Fron!Meets(i) /\ ~Fron!Excluded(i)})' = S
    BY <1>1 DEF Fron!KeepRecord, Fron!Sources, Fron!Meets, Fron!Excluded
  <2>5. Fron!WinsBacked'
    BY <1>1, <1>4, <2>2, <2>3, <2>4 DEF Fron!KeepRecord, Fron!WinsBacked
  <2>6. QED
    BY <1>1, <1>2, <2>5, DecisionStep
<1>5. QED
  BY <1>3, <1>4

(* A peek is recorded: it was counted as taken, and counts now as recorded.*)
LEMMA RecordPeekSafe ==
  ASSUME FrontierHyp, FrontierInv, NEW p \in Judges, Fron!RecordPeek(p)
  PROVE  FrontierInv'
<1> PICK b : b = stop[p].best
  OBVIOUS
<1> PICK o \in Fron!Outcomes :
        /\ consults' = Append(consults, Fron!Line(p, o))
        /\ stop' = [stop EXCEPT ![p].at = "decide", ![p].said = o]
  BY DEF Fron!RecordPeek
<1> PICK c : c = Fron!Line(p, o)
  OBVIOUS
<1>1. /\ stop[p] # None /\ stop[p].at = "peek" /\ wins' = wins
      /\ UNCHANGED <<heldOut, epoch, rows>>
  BY DEF Fron!RecordPeek, Fron!At, Fron!KeepRecord
<1>2. DOMAIN stop[p] = Fields /\ b \in DOMAIN rows
  BY <1>1 DEF FrontierInv, StopRight, Fields
<1>3. c \in Consult /\ c.epoch = epoch /\ c.said = o /\ c.config = rows[b].of.config
  <2>1. rows[b].of \in Measurements /\ epoch \in Nat
    BY <1>2, RowTyped DEF FrontierInv, RowsTyped
  <2>2. QED
    BY <2>1 DEF Fron!Line, Consult, FrontierHyp
<1> PICK N : N = Len(consults) + 1
  OBVIOUS
<1>4. /\ consults' \in Seq(Consult) /\ DOMAIN consults' = DOMAIN consults \union {N}
      /\ N \notin DOMAIN consults /\ consults'[N] = c
      /\ \A i \in DOMAIN consults : consults'[i] = consults[i]
  <2>1. consults \in Seq(Consult) /\ consults' = Append(consults, c)
    BY DEF FrontierInv
  <2>2. QED
    BY <1>3, <2>1
<1> PICK j : j = [stop[p] EXCEPT !.at = "decide", !.said = o]
  OBVIOUS
<1>5. /\ DOMAIN stop' = Judges /\ stop'[p] = j /\ \A q \in Judges : q # p => stop'[q] = stop[q]
  BY DEF FrontierInv
<1>6. DOMAIN j = Fields /\ j.best = b /\ j.said = o /\ j.at = "decide"
  BY <1>2 DEF Fields
<1>7. \A r \in DOMAIN rows : PassedHeldOut(r) => PassedHeldOut(r)'
  BY <1>1, <1>4 DEF PassedHeldOut
<1>8. o = "pass" => PassedHeldOut(b)'
  <2>1. rows[b].epoch <= epoch /\ rows[b].epoch \in Nat /\ epoch \in Nat
    BY <1>2, RowTyped DEF FrontierInv, RowsTyped
  <2>2. o = "pass" => /\ N \in DOMAIN consults' /\ consults'[N].said = "pass"
                      /\ consults'[N].config = rows[b].of.config
                      /\ consults'[N].epoch >= rows[b].epoch
    BY <1>3, <1>4, <2>1
  <2>3. o = "pass" => /\ N \in DOMAIN consults' /\ consults'[N].said = "pass"
                      /\ consults'[N].config = rows'[b].of.config
                      /\ consults'[N].epoch >= rows'[b].epoch
    BY <1>1, <2>2
  <2>4. QED
    BY <2>3 DEF PassedHeldOut
<1>9. ASSUME NEW q \in Judges PROVE StopRight(q)'
  <2>1. CASE q = p
    BY <1>1, <1>2, <1>5, <1>6, <1>8, <2>1 DEF StopRight, Fields
  <2>2. CASE q # p
    BY <1>1, <1>5, <1>7, <2>2 DEF FrontierInv, StopRight
  <2>3. QED
    BY <2>1, <2>2
<1>10. Fron!WinsBacked'
  <2>1. ASSUME NEW w \in wins, heldOut
        PROVE  \E i \in DOMAIN consults' : /\ consults'[i].said = "pass"
                                           /\ consults'[i].config = rows[w].of.config
                                           /\ consults'[i].epoch >= rows[w].epoch
    BY <1>4, <2>1 DEF FrontierInv, Fron!WinsBacked
  <2>2. ASSUME NEW w \in wins, ~heldOut
        PROVE  Fron!Sources({i \in DOMAIN rows : Fron!Meets(i) /\
            ~Fron!Excluded(i)})' \ {rows[w].of.source} # {}
    BY <1>1, <2>2 DEF FrontierInv, Fron!WinsBacked, Fron!Sources, Fron!Meets, Fron!Excluded
  <2>3. QED
    BY <1>1, <2>1, <2>2 DEF Fron!WinsBacked
<1>11. PeeksRight'
  <2>1. Asking' = Asking \ {p} /\ p \in Asking /\ Asking \in SUBSET Judges
    BY <1>1, <1>5, <1>6 DEF Asking, Fron!At
  <2>2. /\ IsFiniteSet(Asking) /\ Cardinality(Asking) \in Nat /\ Cardinality(Judges) \in Nat
        /\ \A e : Fron!Peeks(e) \in Nat
    BY <2>1, PeeksCounted DEF FrontierInv
  <2>3. Cardinality(Asking') = Cardinality(Asking) - 1
    BY <2>1, <2>2, FS_RemoveElement
  <2>4. ASSUME NEW e, e # epoch PROVE Fron!Peeks(e)' = Fron!Peeks(e)
    <3>1. {i \in DOMAIN consults : consults[i].epoch = e}
             = {i \in DOMAIN consults' : consults'[i].epoch = e}
      BY <1>3, <1>4, <2>4
    <3>2. QED
      BY <3>1, FrontierCounts DEF Fron!Peeks
  <2>5. Fron!Peeks(epoch)' = Fron!Peeks(epoch) + 1
    <3> PICK S : S = {i \in DOMAIN consults : consults[i].epoch = epoch}
      OBVIOUS
    <3>1. {i \in DOMAIN consults' : consults'[i].epoch = epoch} = S \union {N} /\ N \notin S
      BY <1>3, <1>4
    <3>2. IsFiniteSet(S)
      <4>1. DOMAIN consults = 1..Len(consults) /\ Len(consults) \in Nat
        BY DEF FrontierInv
      <4>2. QED
        BY <4>1, FS_Interval, FS_Subset
    <3>3. Cardinality(S \union {N}) = Cardinality(S) + 1
      BY <3>1, <3>2, FS_AddElement
    <3>4. QED
      BY <1>1, <3>1, <3>3, FrontierCounts DEF Fron!Peeks
  <2> PICK n, a, k : n = Cardinality(Judges) /\ a = Cardinality(Asking) /\ k = Fron!Peeks(epoch)
    OBVIOUS
  <2>6. k + a <= Cap + n - 1 /\ k \in Nat /\ a \in Nat /\ n \in Nat
    BY <2>2 DEF FrontierInv, PeeksRight
  <2>7. (k + 1) + (a - 1) <= Cap + n - 1
    BY <2>6 DEF FrontierHyp
  <2>8. Fron!Peeks(epoch)' + Cardinality(Asking)' <= Cap + Cardinality(Judges) - 1
    BY <2>3, <2>5, <2>7
  <2>9. epoch \in Nat
    BY DEF FrontierInv, RowsTyped
  <2>10. \A e \in Nat : /\ e < epoch => Fron!Peeks(e)' <= Cap + Cardinality(Judges) - 1
                        /\ e > epoch => Fron!Peeks(e)' = 0
    <3>1. ASSUME NEW e \in Nat, e < epoch PROVE Fron!Peeks(e)' <= Cap + Cardinality(Judges) - 1
      <4>1. e # epoch
        BY <2>9, <3>1
      <4>2. Fron!Peeks(e)' = Fron!Peeks(e)
        BY <2>4, <4>1
      <4>3. QED
        BY <3>1, <4>2 DEF FrontierInv, PeeksRight
    <3>2. ASSUME NEW e \in Nat, e > epoch PROVE Fron!Peeks(e)' = 0
      <4>1. e # epoch
        BY <2>9, <3>2
      <4>2. Fron!Peeks(e)' = Fron!Peeks(e)
        BY <2>4, <4>1
      <4>3. QED
        BY <3>2, <4>2 DEF FrontierInv, PeeksRight
    <3>3. QED
      BY <3>1, <3>2
  <2>11. QED
    BY <1>1, <2>8, <2>10 DEF PeeksRight
<1>12. RowsTyped' /\ \A i \in DOMAIN rows' : rows'[i].epoch <= epoch'
  BY <1>1 DEF FrontierInv, RowsTyped
<1>13. wins' \subseteq DOMAIN rows'
  BY <1>1 DEF FrontierInv
<1>14. QED
  BY <1>4, <1>5, <1>9, <1>10, <1>11, <1>12, <1>13 DEF FrontierInv

LEMMA FrontierStarts == ASSUME FrontierHyp, Fron!FrontierInit PROVE FrontierInv
<1>1. RowsTyped /\ DOMAIN rows = {} /\ DOMAIN consults = {} /\ consults \in Seq(Consult)
  BY DEF Fron!FrontierInit, RowsTyped
<1>2. \A e : Fron!Peeks(e) = 0
  BY <1>1, FS_EmptySet, FrontierCounts DEF Fron!Peeks
<1>3. Cardinality(Asking) = 0
  <2>1. Asking = {}
    BY DEF Fron!FrontierInit, Asking, Fron!At
  <2>2. QED
    BY <2>1, FS_EmptySet
<1>4. PeeksRight
  BY <1>1, <1>2, <1>3, PeeksCounted DEF Fron!FrontierInit, PeeksRight, FrontierHyp
<1>5. QED
  BY <1>1, <1>4 DEF Fron!FrontierInit, FrontierInv, StopRight, Fron!WinsBacked

LEMMA FrontierKept ==
  ASSUME FrontierHyp, FrontierInv, [Fron!FrontierNext]_Fron!frontierVars
  PROVE  FrontierInv'
<1>1. ASSUME \/ \E i \in DOMAIN rows : Fron!Promote(i)
             \/ \E c \in Configs :
                   Fron!Confirm(c) \/
                       \E P \in {passed \union {c}, passed \ {c}} : Fron!SetGates(c, P)
             \/ UNCHANGED Fron!frontierVars
      PROVE  FrontierInv'
  <2>1. UNCHANGED <<heldOut, epoch, rows, consults, stop, wins>>
    BY <1>1, FrontierCounts
       DEF Fron!Promote, Fron!Confirm, Fron!SetGates, Fron!KeepDecision, Fron!frontierVars
  <2>2. QED
    BY <2>1, OtherSafe
<1>2. QED
  BY <1>1, NewEpochSafe, FrontierMeasureSafe, ReadBestSafe, UseCachedSafe, PeekSafe, RecordPeekSafe,
     WinSafe, GoOnSafe DEF Fron!FrontierNext

(* A win is never the word of one measurement (budget.py should_stop), for *)
(* any number of rows, configurations, epochs and deciding processes.      *)
THEOREM WinsBackedHolds == FrontierHyp => (Fron!FrontierSpec => []Fron!WinsBacked)
<1> SUFFICES ASSUME FrontierHyp PROVE Fron!FrontierSpec => []Fron!WinsBacked
  OBVIOUS
<1>1. Fron!FrontierInit => FrontierInv
  BY FrontierStarts
<1>2. FrontierInv /\ [Fron!FrontierNext]_Fron!frontierVars => FrontierInv'
  BY FrontierKept
<1>3. FrontierInv => Fron!WinsBacked
  BY DEF FrontierInv
<1>4. QED
  BY <1>1, <1>2, <1>3, PTL DEF Fron!FrontierSpec

(* The cap on held-out answers is overshot only by the peeks under way in  *)
(* other processes (holdout.py consult).                                   *)
THEOREM PeeksMeteredHolds ==
  FrontierHyp /\ MaxEpoch \in Nat => (Fron!FrontierSpec => []Fron!PeeksMetered)
<1> SUFFICES ASSUME FrontierHyp, MaxEpoch \in Nat PROVE Fron!FrontierSpec => []Fron!PeeksMetered
  OBVIOUS
<1>1. Fron!FrontierInit => FrontierInv
  BY FrontierStarts
<1>2. FrontierInv /\ [Fron!FrontierNext]_Fron!frontierVars => FrontierInv'
  BY FrontierKept
<1>3. ASSUME FrontierInv PROVE Fron!PeeksMetered
  <2>1. ASSUME NEW e \in 0..MaxEpoch PROVE Fron!Peeks(e) <= Cap + Cardinality(Judges) - 1
    <3>1. /\ e \in Nat /\ epoch \in Nat /\ Fron!Peeks(e) \in Nat /\ Cardinality(Judges) \in Nat
          /\ Cardinality(Judges) > 0 /\ Cardinality(Asking) \in Nat
      BY <1>3, PeeksCounted DEF FrontierInv, RowsTyped, Asking
    <3> PICK n, a, k : n = Cardinality(Judges) /\ a = Cardinality(Asking) /\ k = Fron!Peeks(e)
      OBVIOUS
    <3>2. CASE e < epoch
      BY <1>3, <3>1, <3>2 DEF FrontierInv, PeeksRight
    <3>3. CASE e = epoch
      <4>1. k + a <= Cap + n - 1
        BY <1>3, <3>3 DEF FrontierInv, PeeksRight
      <4>2. k <= Cap + n - 1
        BY <3>1, <4>1 DEF FrontierHyp
      <4>3. QED
        BY <4>2
    <3>4. CASE e > epoch
      <4>1. k = 0
        BY <1>3, <3>1, <3>4 DEF FrontierInv, PeeksRight
      <4>2. k <= Cap + n - 1
        BY <3>1, <4>1 DEF FrontierHyp
      <4>3. QED
        BY <4>2
    <3>5. QED
      BY <3>1, <3>2, <3>3, <3>4
  <2>2. QED
    BY <2>1, FrontierCounts DEF Fron!PeeksMetered, Fron!Peeks
<1>4. QED
  BY <1>1, <1>2, <1>3, PTL DEF Fron!FrontierSpec

(* What two sources measured beating the best is not held back as suspect  *)
(* (noise.py admit), whatever rows there are, in whatever order.           *)
THEOREM ReproducedStandsHolds == FrontierHyp => (Fron!FrontierSpec => []Fron!ReproducedStands)
<1> SUFFICES ASSUME FrontierHyp PROVE Fron!FrontierSpec => []Fron!ReproducedStands
  OBVIOUS
<1>1. Fron!FrontierInit => FrontierInv
  BY FrontierStarts
<1>2. FrontierInv /\ [Fron!FrontierNext]_Fron!frontierVars => FrontierInv'
  BY FrontierKept
<1>3. FrontierInv => Fron!ReproducedStands
  BY NoneHeldThatTwoMeasured DEF FrontierInv
<1>4. QED
  BY <1>1, <1>2, <1>3, PTL DEF Fron!FrontierSpec

(* What FrontierInv does not say of the types.                             *)
FrontierBounded ==
    /\ heldOut \in BOOLEAN /\ epoch \in 0..MaxEpoch
    /\ promoted \subseteq DOMAIN rows /\ confirmed \subseteq Configs /\ passed \subseteq Configs
    /\ \A i \in DOMAIN consults : consults[i].epoch \in 0..MaxEpoch

LEMMA FrontierIsTyped ==
  ASSUME FrontierHyp, FrontierInv, FrontierBounded PROVE Fron!FrontierTypeOK
<1>1. ASSUME NEW i \in DOMAIN rows
      PROVE  rows[i].of \in Measurements /\ rows[i].epoch \in 0..epoch
  <2>1. rows[i].of \in Measurements /\ rows[i].epoch \in Nat /\ rows[i].epoch <= epoch
    BY <1>1, RowTyped DEF FrontierInv
  <2>2. epoch \in Nat
    BY DEF FrontierInv, RowsTyped
  <2>3. QED
    BY <2>1, <2>2
<1>2. ASSUME NEW i \in DOMAIN consults
      PROVE  consults[i] \in [epoch : 0..MaxEpoch, config : Configs, said : Fron!Outcomes]
  <2>1. consults[i] \in Consult /\ consults[i].epoch \in 0..MaxEpoch
    BY <1>2 DEF FrontierInv, FrontierBounded
  <2>2. QED
    BY <2>1 DEF Consult
<1>3. QED
  BY <1>1, <1>2 DEF FrontierInv, FrontierBounded, StopRight, Fron!FrontierTypeOK

(* However often the epoch turns, rows, promotions and consultations name  *)
(* configurations and epochs there are (runs.py, holdout.py).              *)
THEOREM FrontierTypes ==
  FrontierHyp /\ MaxEpoch \in Nat => (Fron!FrontierSpec => []Fron!FrontierTypeOK)
<1> SUFFICES ASSUME FrontierHyp, MaxEpoch \in Nat PROVE Fron!FrontierSpec => []Fron!FrontierTypeOK
  OBVIOUS
<1>1. Fron!FrontierInit => FrontierInv /\ FrontierBounded
  BY FrontierStarts DEF Fron!FrontierInit, FrontierBounded
<1>2. ASSUME FrontierInv, FrontierBounded, [Fron!FrontierNext]_Fron!frontierVars
      PROVE  FrontierBounded'
  <2>1. epoch \in Nat /\ rows \in Seq(RowType)
    BY <1>2 DEF FrontierInv, RowsTyped
  <2>2. CASE Fron!NewEpoch
    <3>1. epoch' = epoch + 1 /\ epoch < MaxEpoch
          /\ UNCHANGED <<heldOut, rows, promoted, passed, confirmed, consults>>
      BY <2>2 DEF Fron!NewEpoch, Fron!KeepDecision
    <3>2. epoch' \in 0..MaxEpoch
      BY <2>1, <3>1
    <3>3. QED
      BY <1>2, <3>1, <3>2 DEF FrontierBounded
  <2>3. ASSUME NEW m \in Measurements, Fron!Measure(m) PROVE FrontierBounded'
    <3>1. rows' = Append(rows, [of |-> m, epoch |-> epoch])
          /\ UNCHANGED <<heldOut, epoch, promoted, passed, confirmed, consults>>
      BY <2>3 DEF Fron!Measure, Fron!KeepDecision
    <3>2. DOMAIN rows \subseteq DOMAIN rows'
      BY <2>1, <3>1
    <3>3. QED
      BY <1>2, <3>1, <3>2 DEF FrontierBounded
  <2>4. ASSUME NEW i \in DOMAIN rows, Fron!Promote(i) PROVE FrontierBounded'
    BY <1>2, <2>4 DEF FrontierBounded, Fron!Promote, Fron!KeepDecision
  <2>5. ASSUME NEW c \in Configs,
               Fron!Confirm(c) \/ \E P \in {passed \union {c}, passed \ {c}} : Fron!SetGates(c, P)
        PROVE  FrontierBounded'
    BY <1>2, <2>5 DEF FrontierBounded, Fron!Confirm, Fron!SetGates, Fron!KeepDecision
  <2>6. ASSUME NEW p \in Judges, Fron!RecordPeek(p) PROVE FrontierBounded'
    <3>1. PICK o \in Fron!Outcomes : consults' = Append(consults, Fron!Line(p, o))
      BY <2>6 DEF Fron!RecordPeek
    <3>2. Fron!KeepRecord
      BY <2>6 DEF Fron!RecordPeek
    <3> PICK c : c = Fron!Line(p, o)
      OBVIOUS
    <3>3. c.epoch = epoch
      BY DEF Fron!Line
    <3>4. consults \in Seq(Consult) /\ consults' = Append(consults, c)
      BY <1>2, <3>1 DEF FrontierInv
    <3>5. \A i \in DOMAIN consults' :
            consults'[i] = c \/ (i \in DOMAIN consults /\ consults'[i] = consults[i])
      <4>1. rows[stop[p].best].of \in Measurements
        <5>1. stop[p].best \in DOMAIN rows
          BY <1>2, <2>6 DEF Fron!RecordPeek, Fron!At, FrontierInv, StopRight
        <5>2. QED
          BY <1>2, <5>1, RowTyped DEF FrontierInv
      <4>2. c \in Consult
        BY <2>1, <4>1 DEF Fron!Line, Consult, FrontierHyp
      <4>3. QED
        BY <3>4, <4>2
    <3>6. QED
      BY <1>2, <3>2, <3>3, <3>5 DEF FrontierBounded, Fron!KeepRecord
  <2>7. ASSUME NEW p \in Judges,
               \/ Fron!ReadBest(p) \/ Fron!UseCached(p) \/ Fron!Peek(p) \/ Fron!Retry(p)
               \/ Fron!Win(p) \/ Fron!GoOn(p)
        PROVE  FrontierBounded'
    <3>1. Fron!KeepRecord /\ consults' = consults
      BY <2>7 DEF Fron!ReadBest, Fron!UseCached, Fron!Peek, Fron!Retry, Fron!Win, Fron!GoOn
    <3>2. QED
      BY <1>2, <3>1 DEF FrontierBounded, Fron!KeepRecord
  <2>8. CASE UNCHANGED Fron!frontierVars
    BY <1>2, <2>8 DEF FrontierBounded, Fron!frontierVars
  <2>9. QED
    BY <1>2, <2>2, <2>3, <2>4, <2>5, <2>6, <2>7, <2>8 DEF Fron!FrontierNext
<1>3. QED
  BY <1>1, <1>2, FrontierKept, FrontierIsTyped, PTL DEF Fron!FrontierSpec

-----------------------------------------------------------------------------
(* Escalation: compute that is worth its money.                            *)

-----------------------------------------------------------------------------
LEMMA PricesOf ==
  ASSUME EscalationHyp, ask \in Esc!Asks
  PROVE  /\ Esc!Priced \subseteq Classes /\ ask.need \in Nat /\ ask.rate \in Nat
         /\ (ask.ceiling # None => ask.ceiling \in Nat)
         /\ \A c \in Classes : ask.price[c] \in Nat /\ ask.ratio[c] \in Nat
         /\ \A c \in Esc!Priced : ask.ratio[c] > 0
<1>1. \A c \in Classes : ask.price[c] \in Nat /\ ask.ratio[c] \in Nat
  BY DEF EscalationHyp, Esc!Asks
<1>2. ask.need \in Nat /\ ask.rate \in Nat /\ (ask.ceiling # None => ask.ceiling \in Nat)
  BY DEF EscalationHyp, Esc!Asks
<1>3. Esc!Priced \subseteq Classes /\ \A c \in Esc!Priced : ask.ratio[c] > 0
  BY <1>1 DEF Esc!Priced
<1>4. QED
  BY <1>1, <1>2, <1>3

(* Cheaper for the work done is a strict order of the measured classes.    *)
LEMMA CheaperOrders ==
  ASSUME EscalationHyp, ask \in Esc!Asks, NEW a \in Esc!Priced, NEW b \in Esc!Priced,
      NEW c \in Esc!Priced
  PROVE  /\ ~Esc!Cheaper(a, a)
         /\ Esc!Cheaper(a, b) /\ Esc!Cheaper(b, c) => Esc!Cheaper(a, c)
<1> PICK pa, pb, pc, ra, rb, rc :
        /\ pa = ask.price[a] /\ pb = ask.price[b] /\ pc = ask.price[c]
        /\ ra = ask.ratio[a] /\ rb = ask.ratio[b] /\ rc = ask.ratio[c]
  OBVIOUS
<1>1. /\ pa \in Nat /\ pb \in Nat /\ pc \in Nat /\ ra \in Nat /\ rb \in Nat /\ rc \in Nat
      /\ ra > 0 /\ rb > 0 /\ rc > 0
  BY PricesOf
<1>2. ~(pa * ra < pa * ra)
  BY <1>1
<1>3. ASSUME pa * rb < pb * ra, pb * rc < pc * rb PROVE pa * rc < pc * ra
  <2> PICK u, v, w, x : u = pa * rb /\ v = pb * ra /\ w = pb * rc /\ x = pc * rb
    OBVIOUS
  <2>0. u \in Nat /\ v \in Nat /\ w \in Nat /\ x \in Nat /\ u < v /\ w < x
    BY <1>1, <1>3
  <2>1. u * rc < v * rc
    BY <1>1, <2>0, Cancel
  <2>2. w * ra < x * ra
    BY <1>1, <2>0, Cancel
  <2>3. /\ (pa * rb) * rc = (pa * rc) * rb /\ (pb * ra) * rc = (pb * rc) * ra
        /\ (pc * rb) * ra = (pc * ra) * rb
    BY <1>1
  <2> PICK y, z : y = pa * rc /\ z = pc * ra
    OBVIOUS
  <2>4. y \in Nat /\ z \in Nat
    BY <1>1
  <2>5. /\ y * rb \in Nat /\ z * rb \in Nat /\ v * rc \in Nat
        /\ u * rc = y * rb /\ v * rc = w * ra /\ x * ra = z * rb
    BY <1>1, <2>0, <2>3, <2>4
  <2>6. y * rb < z * rb
    BY <2>1, <2>2, <2>5
  <2>7. QED
    BY <1>1, <2>4, <2>6, Cancel
<1>4. QED
  BY <1>2, <1>3 DEF Esc!Cheaper

(* What the sort of the measured classes picks: one of them; of those that *)
(* meet the deadline, where some do, and none of them cheaper.             *)
LEMMA ChosenRight ==
  ASSUME EscalationHyp, ask \in Esc!Asks, Esc!Priced # {}
  PROVE  /\ Esc!Chosen \in Esc!Priced
         /\ \A c \in Esc!Priced : Esc!Fits(c) => Esc!Fits(Esc!Chosen) /\ ~Esc!Cheaper(c, Esc!Chosen)
<1>1. Esc!Priced \subseteq Classes /\ IsFiniteSet(Esc!Priced)
  BY PricesOf, FS_Subset DEF EscalationHyp
<1> PICK F : F = {c \in Esc!Priced : Esc!Fits(c)}
  OBVIOUS
<1>2. CASE F # {}
  <2> PICK R : R = {p \in Classes \X Classes : Esc!Cheaper(p[1], p[2])}
    OBVIOUS
  <2>1. \A c, d \in Classes : <<c, d>> \in R <=> Esc!Cheaper(c, d)
    OBVIOUS
  <2>2. F \subseteq Classes /\ IsFiniteSet(F)
    BY <1>1, FS_Subset
  <2>3. /\ \A x \in F : <<x, x>> \notin R
        /\ \A x, y, z \in F : <<x, y>> \in R /\ <<y, z>> \in R => <<x, z>> \in R
    BY <2>1, <2>2, CheaperOrders
  <2>4. PICK c \in F : Minimal(c, R, F)
    <3>1. StrictOn(R, F)
      BY <2>3 DEF StrictOn
    <3>2. QED
      BY <1>2, <2>2, <3>1, MinimalOf
  <2>5. \E e \in F : \A d \in F : ~Esc!Cheaper(d, e)
    BY <2>1, <2>2, <2>4 DEF Minimal
  <2>6. Esc!Chosen = CHOOSE e \in F : \A d \in F : ~Esc!Cheaper(d, e)
    BY <1>2 DEF Esc!Chosen
  <2>7. Esc!Chosen \in F /\ \A d \in F : ~Esc!Cheaper(d, Esc!Chosen)
    BY <2>5, <2>6
  <2>8. QED
    BY <2>7
<1>3. CASE F = {}
  <2> PICK R : R = {p \in Classes \X Classes : ask.ratio[p[1]] > ask.ratio[p[2]]}
    OBVIOUS
  <2>1. \A c, d \in Classes : <<c, d>> \in R <=> ask.ratio[c] > ask.ratio[d]
    OBVIOUS
  <2>2. \A c \in Esc!Priced : ask.ratio[c] \in Nat
    BY <1>1, PricesOf
  <2>3. /\ \A x \in Esc!Priced : <<x, x>> \notin R
        /\ \A x, y, z \in Esc!Priced : <<x, y>> \in R /\ <<y, z>> \in R => <<x, z>> \in R
    BY <1>1, <2>1, <2>2
  <2>4. PICK c \in Esc!Priced : Minimal(c, R, Esc!Priced)
    <3>1. StrictOn(R, Esc!Priced)
      BY <2>3 DEF StrictOn
    <3>2. QED
      BY <1>1, <3>1, MinimalOf
  <2>5. ASSUME NEW d \in Esc!Priced PROVE ask.ratio[d] <= ask.ratio[c]
    <3>1. <<d, c>> \notin R
      BY <2>4 DEF Minimal
    <3>2. ~(ask.ratio[d] > ask.ratio[c])
      BY <1>1, <2>1, <3>1
    <3>3. QED
      BY <2>2, <3>2
  <2>6. Esc!Chosen = CHOOSE e \in Esc!Priced : \A d \in Esc!Priced : ask.ratio[d] <= ask.ratio[e]
    BY <1>3 DEF Esc!Chosen
  <2>7. Esc!Chosen \in Esc!Priced
    BY <2>5, <2>6
  <2>8. QED
    BY <1>3, <2>7
<1>4. QED
  BY <1>2, <1>3

(* Where a class is paid for, one that is not dearer is.                   *)
LEMMA CheaperIsAffordable ==
  ASSUME EscalationHyp, ask \in Esc!Asks, NEW c \in Esc!Priced, NEW d \in Esc!Priced,
         ~Esc!Cheaper(c, d), Esc!Affordable(c)
  PROVE  Esc!Affordable(d)
<1> SUFFICES ASSUME ask.ceiling # None
             PROVE  ask.need * ask.price[d] <= ask.ceiling * ask.rate * ask.ratio[d]
  BY DEF Esc!Affordable
<1> PICK pc, pd, rc, rd, n, m :
        /\ pc = ask.price[c] /\ pd = ask.price[d] /\ rc = ask.ratio[c] /\ rd = ask.ratio[d]
        /\ n = ask.need /\ m = ask.ceiling * ask.rate
  OBVIOUS
<1>1. /\ pc \in Nat /\ pd \in Nat /\ rc \in Nat /\ rd \in Nat /\ n \in Nat /\ m \in Nat
      /\ rc > 0 /\ rd > 0
  <2>1. ask.ceiling \in Nat /\ ask.rate \in Nat
    BY PricesOf
  <2>2. m \in Nat
    BY <2>1
  <2>3. QED
    BY <2>2, PricesOf
<1>2. pd * rc <= pc * rd /\ n * pc <= m * rc
  BY <1>1 DEF Esc!Cheaper, Esc!Affordable
<1>3. (n * pd) * rc <= (m * rd) * rc
  <2> PICK u, v, w, x : u = pd * rc /\ v = pc * rd /\ w = n * pc /\ x = m * rc
    OBVIOUS
  <2>1. u \in Nat /\ v \in Nat /\ w \in Nat /\ x \in Nat /\ u <= v /\ w <= x
    BY <1>1, <1>2
  <2>2. w * rd <= x * rd
    BY <1>1, <2>1, Cancel
  <2>3. n * u <= n * v
    <3>1. n = 0 => n * u = 0 /\ n * v = 0
      BY <2>1
    <3>2. n > 0 => u * n <= v * n
      BY <1>1, <2>1, Cancel
    <3>3. u * n = n * u /\ v * n = n * v
      BY <1>1, <2>1
    <3>4. QED
      BY <1>1, <3>1, <3>2, <3>3
  <2>4. n * u = (n * pd) * rc /\ n * v = w * rd /\ x * rd = (m * rd) * rc
    BY <1>1
  <2>5. /\ n * u \in Nat /\ n * v \in Nat /\ x * rd \in Nat /\ w * rd \in Nat
    BY <1>1, <2>1
  <2>6. QED
    BY <2>2, <2>3, <2>4, <2>5
<1>4. n * pd \in Nat /\ m * rd \in Nat
  BY <1>1
<1>5. n * pd <= m * rd
  BY <1>1, <1>3, <1>4, Cancel
<1>6. QED
  BY <1>5

EscalationInv == ask \in Esc!Asks /\ Esc!RentsTheCheapestThatPays

LEMMA AnswerRight ==
  ASSUME EscalationHyp, ask \in Esc!Asks, Esc!Answer, ask.rate # 0
  PROVE  Esc!RentsTheCheapestThatPays'
<1> PICK paying : paying = {c \in Classes : ask.ratio[c] # 0 /\ Esc!Fits(c) /\ Esc!Affordable(c)}
  OBVIOUS
<1> PICK a : a = Esc!Recommend
  OBVIOUS
<1>1. answer' = a /\ ask' = ask
  BY DEF Esc!Answer
<1>2. SUFFICES /\ a.verdict = "GO" <=> Esc!Triggered /\ ask.correct /\ paying # {}
               /\ a.verdict = "GO" => a.best \in paying /\ \A c \in paying : ~Esc!Cheaper(c, a.best)
  BY <1>1
     DEF Esc!RentsTheCheapestThatPays, Esc!Fits, Esc!Affordable, Esc!Cheaper,
         Esc!Triggered, Esc!Capable
<1>3. paying = {c \in Esc!Priced : Esc!Fits(c) /\ Esc!Affordable(c)}
  BY DEF Esc!Priced
<1>4. CASE ~Esc!Triggered \/ ~ask.correct \/ Esc!Priced = {}
  <2>1. a.verdict # "GO"
    BY <1>4 DEF Esc!Recommend
  <2>2. Esc!Triggered /\ ask.correct => paying = {}
    BY <1>3, <1>4
  <2>3. QED
    BY <2>1, <2>2
<1>5. CASE Esc!Triggered /\ ask.correct /\ Esc!Priced # {}
  <2> PICK c : c = Esc!Chosen
    OBVIOUS
  <2>1. c \in Esc!Priced /\ \A d \in Esc!Priced : Esc!Fits(d) => Esc!Fits(c) /\ ~Esc!Cheaper(d, c)
    BY <1>5, ChosenRight
  <2>2. a.verdict = "GO" <=> Esc!Fits(c) /\ Esc!Affordable(c)
    BY <1>5 DEF Esc!Recommend
  <2>3. a.verdict = "GO" => a.best = c
    BY <1>5 DEF Esc!Recommend
  <2>4. ASSUME NEW d \in paying PROVE Esc!Fits(c) /\ Esc!Affordable(c) /\ ~Esc!Cheaper(d, c)
    BY <1>3, <2>1, CheaperIsAffordable
  <2>5. QED
    BY <1>3, <1>5, <2>1, <2>2, <2>3, <2>4
<1>6. QED
  BY <1>4, <1>5

(* Money is recommended exactly when a measured class meets the deadline   *)
(* and the ceiling, and then none that does is cheaper (escalate.py        *)
(* recommend), for any number of classes at any prices.                    *)
THEOREM RentsTheCheapestHolds ==
  EscalationHyp => (Esc!EscalationSpec => []Esc!RentsTheCheapestThatPays)
<1> SUFFICES ASSUME EscalationHyp PROVE Esc!EscalationSpec => []Esc!RentsTheCheapestThatPays
  OBVIOUS
<1>1. Esc!EscalationInit => EscalationInv
  BY DEF Esc!EscalationInit, EscalationInv, Esc!RentsTheCheapestThatPays
<1>2. EscalationInv /\ [Esc!EscalationNext]_Esc!escalationVars => EscalationInv'
  <2>1. ASSUME EscalationInv, Esc!EscalationNext PROVE EscalationInv'
    <3>1. ask \in Esc!Asks /\ Esc!Answer /\ ask' = ask
      BY <2>1 DEF EscalationInv, Esc!EscalationNext, Esc!Answer
    <3>2. CASE ask.rate # 0
      BY <3>1, <3>2, AnswerRight DEF EscalationInv
    <3>3. CASE ask.rate = 0
      BY <3>1, <3>3 DEF EscalationInv, Esc!RentsTheCheapestThatPays
    <3>4. QED
      BY <3>2, <3>3
  <2>2. EscalationInv /\ UNCHANGED Esc!escalationVars => EscalationInv'
    BY DEF Esc!escalationVars, EscalationInv, Esc!RentsTheCheapestThatPays, Esc!Fits,
           Esc!Affordable, Esc!Cheaper, Esc!Triggered, Esc!Capable
  <2>3. QED
    BY <2>1, <2>2
<1>3. EscalationInv => Esc!RentsTheCheapestThatPays
  BY DEF EscalationInv
<1>4. QED
  BY <1>1, <1>2, <1>3, PTL DEF Esc!EscalationSpec

(* The ask and the answer are of the kind `ar escalate` reads and writes   *)
(* (escalate.py).                                                          *)
THEOREM EscalationTypes == EscalationHyp => (Esc!EscalationSpec => []Esc!EscalationTypeOK)
<1> SUFFICES ASSUME EscalationHyp PROVE Esc!EscalationSpec => []Esc!EscalationTypeOK
  OBVIOUS
<1>1. Esc!EscalationInit => Esc!EscalationTypeOK
  BY DEF Esc!EscalationInit, Esc!EscalationTypeOK
<1>2. ASSUME Esc!EscalationTypeOK, [Esc!EscalationNext]_Esc!escalationVars
      PROVE  Esc!EscalationTypeOK'
  <2>1. CASE UNCHANGED Esc!escalationVars
    BY <1>2, <2>1 DEF Esc!escalationVars, Esc!EscalationTypeOK
  <2>2. CASE Esc!Answer
    <3>1. ask \in Esc!Asks /\ ask' = ask
      BY <1>2, <2>2 DEF Esc!Answer, Esc!EscalationTypeOK
    <3>2. Esc!Triggered /\ ask.correct /\ Esc!Priced # {} => Esc!Chosen \in Classes
      BY <3>1, ChosenRight DEF Esc!Priced
    <3>3. ask.rate # 0 =>
            Esc!Recommend.verdict \in Esc!Verdicts /\ Esc!Recommend.best \in {None} \union Classes
      BY <3>2 DEF Esc!Recommend, Esc!Verdicts
    <3>4. QED
      BY <2>2, <3>1, <3>3 DEF Esc!Answer, Esc!EscalationTypeOK, Esc!Verdicts
  <2>3. QED
    BY <1>2, <2>1, <2>2 DEF Esc!EscalationNext
<1>3. QED
  BY <1>1, <1>2, PTL DEF Esc!EscalationSpec

-----------------------------------------------------------------------------
(* Leaderboard: a target that moves.                                       *)

(* What a puller that has its answer is about to publish was read off the  *)
(* page it asked for, and no earlier than it asked.                        *)
PullRight(p) ==
    pull[p] # Idle =>
        /\ DOMAIN pull[p] = {"at", "asked", "since", "got"} /\ pull[p].since \in 0..boardClock
        /\ pull[p].at \in {"open", "write"} =>
            /\ pull[p].got.board = pull[p].asked
            /\ pull[p].got.at \in pull[p].since..boardClock

(* The number in use: read after it was asked for, or off a snapshot that  *)
(* was still fresh then.                                                   *)
TargetRight ==
    target # None =>
        /\ target.at \in 0..boardClock /\ target.fetched \in Nat
        /\ target.fell \/ /\ target.board = target.asked
                          /\ target.at <= target.fetched \/ target.at < target.fetched + RefreshAge

BoardInv ==
    /\ boardClock \in Board!Times
    /\ Board!Whole => snapshot.at \in Nat
    /\ DOMAIN pull = Board!Pullers /\ \A p \in Board!Pullers : PullRight(p)
    /\ TargetRight

(* A step of one puller that settles nothing.                              *)
LEMMA PullStep ==
  ASSUME BoardHyp, BoardInv, NEW p \in Board!Pullers, NEW j,
         pull' = [pull EXCEPT ![p] = j], UNCHANGED <<boardClock, target>>,
         Board!Whole' => snapshot'.at \in Nat,
         j # Idle => /\ DOMAIN j = {"at", "asked", "since", "got"} /\ j.since \in 0..boardClock
                     /\ j.at \in {"open", "write"} => /\ j.got.board = j.asked
                                                      /\ j.got.at \in j.since..boardClock
  PROVE  BoardInv'
<1>1. DOMAIN pull' = Board!Pullers
  BY DEF BoardInv
<1>2. ASSUME NEW q \in Board!Pullers PROVE PullRight(q)'
  <2>1. CASE q = p
    BY <2>1 DEF PullRight, BoardInv
  <2>2. CASE q # p
    BY <2>2 DEF PullRight, BoardInv
  <2>3. QED
    BY <2>1, <2>2
<1>3. TargetRight'
  BY DEF TargetRight, BoardInv
<1>4. QED
  BY <1>1, <1>2, <1>3 DEF BoardInv

(* What a probe settles on.                                                *)
LEMMA SettleBoardRight ==
  ASSUME BoardHyp, BoardInv, boardClock' = boardClock, NEW p, NEW shot, NEW asked,
         NEW since \in 0..boardClock,
         NEW fell \in BOOLEAN, Board!Settle(p, shot, asked, since, fell), shot.at \in Nat,
         fell \/ (shot.board = asked /\ (since <= shot.at \/ since < shot.at + RefreshAge))
  PROVE  TargetRight'
<1>1. CASE target' = target
  BY <1>1 DEF TargetRight, BoardInv
<1>2. CASE target' # target
  <2>1. target' = [value |-> Board!TargetValue(shot), board |-> shot.board, fetched |-> shot.at,
                   asked |-> asked, at |-> since, fell |-> fell]
    BY <1>2 DEF Board!Settle
  <2>2. /\ target'.at = since /\ target'.fetched = shot.at /\ target'.fell = fell
        /\ target'.board = shot.board /\ target'.asked = asked
    BY <2>1
  <2>3. QED
    BY <2>2 DEF TargetRight
<1>3. QED
  BY <1>1, <1>2

LEMMA ServeSafe ==
  ASSUME BoardHyp, BoardInv, NEW p \in Board!Pullers, Board!Serve(p)
  PROVE  BoardInv'
<1>1. /\ Board!Whole /\ snapshot.board = declared /\ boardClock - snapshot.at < RefreshAge
      /\ Board!Settle(p, snapshot, declared, boardClock, FALSE)
      /\ UNCHANGED <<boardClock, snapshot, pull>>
  BY DEF Board!Serve, Board!Fresh, Board!KeepWorld
<1>2. boardClock \in Nat /\ snapshot.at \in Nat
  BY <1>1 DEF BoardInv, Board!Times
<1>3. TargetRight'
  <2>1. boardClock < snapshot.at + RefreshAge /\ boardClock \in 0..boardClock
    BY <1>1, <1>2 DEF BoardHyp
  <2>2. QED
    BY <1>1, <1>2, <2>1, SettleBoardRight
<1>4. QED
  BY <1>1, <1>3 DEF BoardInv, PullRight, Board!Whole

LEMMA BeginFetchSafe ==
  ASSUME BoardHyp, BoardInv, NEW p \in Board!Pullers, Board!BeginFetch(p)
  PROVE  BoardInv'
<1> PICK j : j = [at |-> "fetch", asked |-> declared, since |-> boardClock, got |-> None]
  OBVIOUS
<1>1. /\ pull' = [pull EXCEPT ![p] = j] /\ UNCHANGED <<boardClock, target, snapshot>>
      /\ DOMAIN j = {"at", "asked", "since", "got"} /\ j.since = boardClock /\ j.at = "fetch"
  BY DEF Board!BeginFetch, Board!KeepWorld
<1>2. j.since \in 0..boardClock
  BY <1>1 DEF BoardInv, Board!Times
<1>3. Board!Whole' => snapshot'.at \in Nat
  BY <1>1 DEF BoardInv, Board!Whole
<1>4. QED
  BY <1>1, <1>2, <1>3, PullStep

LEMMA FetchSafe ==
  ASSUME BoardHyp, BoardInv, NEW p \in Board!Pullers, Board!Fetch(p)
  PROVE  BoardInv'
<1> PICK r : r = Board!Parse(pull[p].asked)
  OBVIOUS
<1>1. r.board = pull[p].asked /\ r.at = boardClock
  BY DEF Board!Parse, Board!FromYukon, Board!FromProvablyfast
<1>2. /\ pull' = [pull EXCEPT ![p].at = "open", ![p].got = r]
      /\ pull[p] # Idle /\ UNCHANGED <<boardClock, target, snapshot>>
  BY DEF Board!Fetch, Board!At, Board!KeepWorld
<1> PICK j : j = [pull[p] EXCEPT !.at = "open", !.got = r]
  OBVIOUS
<1>3. pull' = [pull EXCEPT ![p] = j]
  BY <1>2 DEF BoardInv
<1>4. Board!Whole' => snapshot'.at \in Nat
  BY <1>2 DEF BoardInv, Board!Whole
<1>5. pull[p].since \in 0..boardClock /\ boardClock \in Nat /\ PullRight(p)
  BY <1>2 DEF BoardInv, PullRight, Board!Times
<1>6. /\ DOMAIN j = {"at", "asked", "since", "got"} /\ j.since = pull[p].since
      /\ j.asked = pull[p].asked /\ j.got = r
  BY <1>2, <1>5 DEF PullRight
<1>7. j.got.board = j.asked /\ j.got.at \in j.since..boardClock /\ j.since \in 0..boardClock
  BY <1>1, <1>5, <1>6
<1>8. UNCHANGED <<boardClock, target>>
  BY <1>2
<1>9. QED
  BY <1>3, <1>4, <1>6, <1>7, <1>8, PullStep
LEMMA FetchFailsSafe ==
  ASSUME BoardHyp, BoardInv, NEW p \in Board!Pullers, Board!FetchFails(p)
  PROVE  BoardInv'
<1>1. /\ pull[p] # Idle /\ pull' = [pull EXCEPT ![p] = Idle] /\ UNCHANGED <<boardClock, snapshot>>
      /\ IF Board!Whole THEN Board!Settle(p, snapshot, pull[p].asked, pull[p].since, TRUE)
         ELSE UNCHANGED target
  BY DEF Board!FetchFails, Board!At, Board!KeepWorld
<1>2. pull[p].since \in 0..boardClock
  BY <1>1 DEF BoardInv, PullRight
<1>3. TargetRight'
  <2>1. CASE Board!Whole
    BY <1>1, <1>2, <2>1, SettleBoardRight DEF BoardInv
  <2>2. CASE ~Board!Whole
    BY <1>1, <2>2 DEF BoardInv, TargetRight
  <2>3. QED
    BY <2>1, <2>2
<1>4. QED
  BY <1>1, <1>3 DEF BoardInv, PullRight, Board!Whole

LEMMA OpenSafe ==
  ASSUME BoardHyp, BoardInv, NEW p \in Board!Pullers, Board!OpenSnapshot(p)
  PROVE  BoardInv'
<1>1. /\ pull' = [pull EXCEPT ![p].at = "write"] /\ snapshot' = Torn /\ pull[p] # Idle
      /\ pull[p].at = "open" /\ UNCHANGED <<boardClock, target>>
  BY DEF Board!OpenSnapshot, Board!At, Board!KeepWorld
<1> PICK j : j = [pull[p] EXCEPT !.at = "write"]
  OBVIOUS
<1>2. pull' = [pull EXCEPT ![p] = j]
  BY <1>1 DEF BoardInv
<1>3. PullRight(p)
  BY DEF BoardInv
<1>4. /\ DOMAIN j = {"at", "asked", "since", "got"} /\ j.since = pull[p].since
      /\ j.asked = pull[p].asked /\ j.got = pull[p].got
  BY <1>1, <1>3 DEF PullRight
<1>5. ~Board!Whole'
  BY <1>1 DEF Board!Whole
<1>6. QED
  BY <1>1, <1>2, <1>3, <1>4, <1>5, PullStep DEF PullRight

LEMMA WriteSafe ==
  ASSUME BoardHyp, BoardInv, NEW p \in Board!Pullers, Board!WriteSnapshot(p)
  PROVE  BoardInv'
<1> PICK got : got = pull[p].got
  OBVIOUS
<1>1. /\ pull[p] # Idle /\ pull[p].at = "write" /\ pull' = [pull EXCEPT ![p] = Idle]
      /\ UNCHANGED boardClock /\ snapshot' \in {got, Torn}
      /\ Board!Settle(p, got, pull[p].asked, pull[p].since, FALSE)
  BY DEF Board!WriteSnapshot, Board!At, Board!KeepWorld
<1>2. /\ pull[p].since \in 0..boardClock /\ got.board = pull[p].asked
      /\ got.at \in pull[p].since..boardClock /\ boardClock \in Nat
  BY <1>1 DEF BoardInv, PullRight, Board!Times
<1>3. got.at \in Nat /\ pull[p].since <= got.at
  BY <1>2
<1>4. TargetRight'
  BY <1>1, <1>2, <1>3, SettleBoardRight
<1>5. Board!Whole' => snapshot'.at \in Nat
  BY <1>1, <1>3 DEF Board!Whole
<1>6. QED
  BY <1>1, <1>4, <1>5 DEF BoardInv, PullRight

LEMMA WorldSafe ==
  ASSUME BoardHyp, BoardInv,
         \/ Board!Tick \/ Board!DeleteSnapshot \/ \E b \in BoardNames : Board!SiteChanges(b) \/
              Board!Redeclare(b)
         \/ \E p \in Board!Pullers : Board!Dies(p)
  PROVE  BoardInv'
<1>1. /\ target' = target /\ boardClock' \in Board!Times /\ boardClock \in Board!Times
      /\ boardClock <= boardClock'
      /\ snapshot' = snapshot \/ snapshot' = None
      /\ pull' = pull \/ \E p \in Board!Pullers : pull' = [pull EXCEPT ![p] = Idle]
  BY DEF Board!Tick, Board!DeleteSnapshot, Board!SiteChanges, Board!Redeclare,
         Board!Change, Board!Dies, Board!KeepPulls, Board!KeepWorld, BoardInv,
         Board!Times, BoardHyp
<1>2. /\ boardClock \in Nat /\ boardClock' \in Nat
      /\ \A a \in Nat : 0..boardClock \subseteq 0..boardClock' /\ a..boardClock \subseteq a..boardClock'
  BY <1>1 DEF Board!Times
<1>3. Board!Whole' => snapshot'.at \in Nat
  BY <1>1 DEF BoardInv, Board!Whole
<1>4. TargetRight'
  BY <1>1, <1>2 DEF BoardInv, TargetRight
<1>5. DOMAIN pull' = Board!Pullers /\ \A q \in Board!Pullers : pull'[q] \in {pull[q], Idle}
  BY <1>1 DEF BoardInv
<1>6. ASSUME NEW q \in Board!Pullers PROVE PullRight(q)'
  BY <1>2, <1>5 DEF BoardInv, PullRight
<1>7. QED
  BY <1>1, <1>3, <1>4, <1>5, <1>6 DEF BoardInv

(* A number the loop takes for fresh was read off the page declared when it*)
(* asked, and no longer ago than both caches allow, unless the probe said  *)
(* that it fell back (challenge.py pull, goal.py Target.resolve), whatever *)
(* the site, domain.toml and other pullers do in between.                  *)
THEOREM TargetFollowsBoardHolds == BoardHyp => (Board!BoardSpec => []Board!TargetFollowsBoard)
<1> SUFFICES ASSUME BoardHyp PROVE Board!BoardSpec => []Board!TargetFollowsBoard
  OBVIOUS
<1>1. Board!BoardInit => BoardInv
  BY DEF BoardHyp, Board!BoardInit, BoardInv, Board!Times, Board!Whole, PullRight, TargetRight
<1>2. BoardInv /\ [Board!BoardNext]_Board!boardVars => BoardInv'
  <2>1. BoardInv /\ Board!BoardNext => BoardInv'
    BY WorldSafe, ServeSafe, BeginFetchSafe, FetchSafe, FetchFailsSafe, OpenSafe, WriteSafe
       DEF Board!BoardNext
  <2>2. BoardInv /\ UNCHANGED Board!boardVars => BoardInv'
    BY DEF Board!boardVars, BoardInv, Board!Whole, PullRight, TargetRight
  <2>3. QED
    BY <2>1, <2>2
<1>3. ASSUME BoardInv PROVE Board!TargetFollowsBoard
  <2> SUFFICES ASSUME target # None, boardClock - target.at < Ttl, ~target.fell
               PROVE  target.board = target.asked /\ boardClock - target.fetched < RefreshAge + Ttl
    BY DEF Board!TargetFollowsBoard
  <2>1. /\ target.at \in Nat /\ target.fetched \in Nat /\ target.at <= boardClock
        /\ boardClock \in Nat
        /\ target.board = target.asked
        /\ target.at <= target.fetched \/ target.at < target.fetched + RefreshAge
    BY <1>3 DEF BoardInv, TargetRight, Board!Times
  <2> PICK a, f : a = target.at /\ f = target.fetched
    OBVIOUS
  <2>2. boardClock - f < RefreshAge + Ttl
    BY <2>1 DEF BoardHyp
  <2>3. QED
    BY <2>1, <2>2
<1>4. QED
  BY <1>1, <1>2, <1>3, PTL DEF Board!BoardSpec

(* A record moves with the site, and what is kept of a page, or about to   *)
(* be, has a target.                                                       *)
PullJobs ==
    [at : {"fetch", "open", "write"}, asked : BoardNames, since : Board!Times,
     got : {None} \union Board!Snapshots]

HasTarget(shot) == shot \in Board!Snapshots /\ Board!TargetValue(shot) # None

BoardTyped ==
    /\ boardClock \in Board!Times /\ moves \in 0..MaxMoves /\ declared \in BoardNames
    /\ site \in [BoardNames -> [up : BOOLEAN, readable : BOOLEAN, record : {None} \union 0..moves]]
    /\ Board!Whole => HasTarget(snapshot)
    /\ target \in {None} \union Board!Targets
    /\ pull \in [Board!Pullers -> {Idle} \union PullJobs]
    /\ \A p \in Board!Pullers :
         pull[p] # Idle /\ pull[p].at \in {"open", "write"} => HasTarget(pull[p].got)

LEMMA BoardIsTyped ==
  ASSUME MaxMoves \in Nat, BoardTyped PROVE Board!BoardTypeOK
<1>1. {None} \union 0..moves \subseteq Board!Figures
  <2>1. 0..moves \subseteq 0..MaxMoves
    <3>1. moves \in 0..MaxMoves
      BY DEF BoardTyped
    <3>2. QED
      BY <3>1
  <2>2. QED
    BY <2>1 DEF Board!Figures
<1>2. site \in [BoardNames -> [up : BOOLEAN, readable : BOOLEAN, record : Board!Figures]]
  BY <1>1 DEF BoardTyped
<1>3. pull \in [Board!Pullers -> {Idle} \union PullJobs]
  BY DEF BoardTyped
<1>4. snapshot \in {None, Torn} \union Board!Snapshots
  BY DEF BoardTyped, Board!Whole, HasTarget
<1>5. QED
  BY <1>2, <1>3, <1>4 DEF BoardTyped, Board!BoardTypeOK, PullJobs

(* What a snapshot offers is a target's value.                             *)
LEMMA SettledIsTyped ==
  ASSUME BoardTyped, NEW p, NEW shot, HasTarget(shot), NEW asked \in BoardNames,
         NEW since \in Board!Times, NEW fell \in BOOLEAN, Board!Settle(p, shot, asked, since, fell)
  PROVE  target' \in {None} \union Board!Targets
<1>1. Board!TargetValue(shot) \in {Bar} \union 0..MaxMoves
  BY DEF HasTarget, Board!TargetValue, Board!Snapshots, Board!Figures
<1>2. shot.board \in BoardNames /\ shot.at \in Board!Times
  BY DEF HasTarget, Board!Snapshots
<1>3. target \in {None} \union Board!Targets
  BY DEF BoardTyped
<1>4. QED
  BY <1>1, <1>2, <1>3 DEF Board!Settle, Board!Targets

(* A step of one puller.                                                   *)
LEMMA PullTyped ==
  ASSUME BoardTyped, UNCHANGED <<boardClock, moves, site, declared>>,
         Board!Whole' => HasTarget(snapshot'), target' \in {None} \union Board!Targets,
         NEW p \in Board!Pullers, NEW j, pull' = [pull EXCEPT ![p] = j],
         j # Idle => j \in PullJobs /\ (j.at \in {"open", "write"} => HasTarget(j.got))
  PROVE  BoardTyped'
<1>1. pull' \in [Board!Pullers -> {Idle} \union PullJobs] /\ pull'[p] = j
      /\ \A q \in Board!Pullers : q # p => pull'[q] = pull[q]
  BY DEF BoardTyped
<1>2. ASSUME NEW q \in Board!Pullers, pull'[q] # Idle
      PROVE  pull'[q] \in PullJobs /\ (pull'[q].at \in {"open", "write"} => HasTarget(pull'[q].got))
  BY <1>1, <1>2 DEF BoardTyped
<1>3. BoardTyped => /\ boardClock \in Board!Times /\ moves \in 0..MaxMoves /\ declared \in BoardNames
                    /\ site \in [BoardNames -> [up : BOOLEAN, readable : BOOLEAN,
                                                record : {None} \union 0..moves]]
  BY DEF BoardTyped
<1>4. QED
  BY <1>1, <1>2, <1>3
     DEF BoardTyped, Board!Times, HasTarget, PullJobs, Board!Snapshots, Board!Figures,
     Board!TargetValue

(* Whatever becomes of the site and whoever pulls, a snapshot that is kept *)
(* is of a declared board and has a target (goal.py, leaderboard.py).      *)
THEOREM BoardTypes == BoardHyp /\ MaxMoves \in Nat => (Board!BoardSpec => []Board!BoardTypeOK)
<1> SUFFICES ASSUME BoardHyp, MaxMoves \in Nat PROVE Board!BoardSpec => []Board!BoardTypeOK
  OBVIOUS
<1>1. Board!BoardInit => BoardTyped
  <2> SUFFICES ASSUME Board!BoardInit PROVE BoardTyped
    OBVIOUS
  <2>1. 0 \in Board!Times /\ 0 \in 0..MaxMoves
    BY DEF Board!Times, BoardHyp
  <2>2. QED
    BY <2>1 DEF Board!BoardInit, BoardTyped, Board!Whole
<1>2. ASSUME BoardTyped, [Board!BoardNext]_Board!boardVars PROVE BoardTyped'
  <2>1. CASE Board!Tick \/ Board!DeleteSnapshot \/ UNCHANGED Board!boardVars
    <3>1. boardClock' \in Board!Times
      <4>1. boardClock \in 0..MaxClock /\ MaxClock \in Nat
        BY <1>2 DEF BoardTyped, Board!Times, BoardHyp
      <4>2. boardClock' = boardClock \/ (boardClock' = boardClock + 1 /\ boardClock < MaxClock)
        BY <2>1 DEF Board!Tick, Board!DeleteSnapshot, Board!KeepWorld, Board!boardVars
      <4>3. QED
        BY <4>1, <4>2 DEF Board!Times
    <3>2. /\ UNCHANGED <<moves, site, declared, pull, target>>
          /\ snapshot' = snapshot \/ snapshot' = None
      BY <2>1
         DEF Board!Tick, Board!DeleteSnapshot, Board!KeepWorld, Board!KeepPulls,
             Board!boardVars
    <3>3. Board!Whole' => HasTarget(snapshot')
      BY <1>2, <3>2 DEF BoardTyped, Board!Whole
    <3>4. QED
      BY <1>2, <3>1, <3>2, <3>3 DEF BoardTyped, HasTarget, PullJobs, Board!Times, Board!Snapshots,
         Board!TargetValue
  <2>2. ASSUME NEW b \in BoardNames, Board!SiteChanges(b) \/ Board!Redeclare(b) PROVE BoardTyped'
    <3>1. /\ moves' = moves + 1 /\ moves < MaxMoves
          /\ UNCHANGED <<boardClock, snapshot, pull, target>>
      BY <2>2 DEF Board!SiteChanges, Board!Redeclare, Board!Change, Board!KeepPulls
    <3>2. moves \in Nat /\ moves' \in 0..MaxMoves /\ 0..moves \subseteq 0..moves'
          /\ \A k \in 0..moves : k + 1 \in 0..moves'
      <4>1. moves \in 0..MaxMoves
        BY <1>2 DEF BoardTyped
      <4>2. QED
        BY <3>1, <4>1
    <3>3. declared' \in BoardNames
      BY <1>2, <2>2 DEF BoardTyped, Board!SiteChanges, Board!Redeclare
    <3>4. site' \in [BoardNames -> [up : BOOLEAN, readable : BOOLEAN,
                                    record : {None} \union 0..moves']]
      <4>1. site \in [BoardNames -> [up : BOOLEAN, readable : BOOLEAN,
                                     record : {None} \union 0..moves]]
        BY <1>2 DEF BoardTyped
      <4>2. 0 \in 0..moves'
        BY <3>2
      <4>3. site[b].record = None \/ site[b].record \in 0..moves
        BY <4>1
      <4>4. (IF site[b].record = None THEN 0 ELSE site[b].record + 1) \in {None} \union 0..moves'
        BY <3>2, <4>2, <4>3
      <4>5. site \in [BoardNames -> [up : BOOLEAN, readable : BOOLEAN,
                                     record : {None} \union 0..moves']]
        BY <3>2, <4>1
      <4>6. \/ site' = site \/ site' = [site EXCEPT ![b].up = ~@]
            \/ site' = [site EXCEPT ![b].readable = ~@]
            \/ site' = [site EXCEPT ![b].record = IF @ = None THEN 0 ELSE @ + 1]
        BY <2>2 DEF Board!SiteChanges, Board!Redeclare
      <4>7. CASE site' = [site EXCEPT ![b].record = IF @ = None THEN 0 ELSE @ + 1]
        <5> PICK k : k = IF site[b].record = None THEN 0 ELSE site[b].record + 1
          OBVIOUS
        <5>1. k \in {None} \union 0..moves' /\ site' = [site EXCEPT ![b].record = k]
          BY <4>4, <4>7
        <5>2. QED
          BY <4>5, <5>1
      <4>8. CASE site' = [site EXCEPT ![b].up = ~@]
        <5> PICK u : u = ~site[b].up
          OBVIOUS
        <5>1. u \in BOOLEAN /\ site' = [site EXCEPT ![b].up = u]
          BY <4>8
        <5>2. QED
          BY <4>5, <5>1
      <4>9. CASE site' = [site EXCEPT ![b].readable = ~@]
        <5> PICK u : u = ~site[b].readable
          OBVIOUS
        <5>1. u \in BOOLEAN /\ site' = [site EXCEPT ![b].readable = u]
          BY <4>9
        <5>2. QED
          BY <4>5, <5>1
      <4>10. QED
        BY <4>5, <4>6, <4>7, <4>8, <4>9
    <3>5. QED
      BY <1>2, <3>1, <3>2, <3>3, <3>4 DEF BoardTyped, HasTarget, Board!Whole, PullJobs, Board!Times,
         Board!Snapshots, Board!Figures, Board!TargetValue
  <2>3. ASSUME NEW p \in Board!Pullers, Board!Serve(p) PROVE BoardTyped'
    <3>1. /\ Board!Whole /\ Board!Settle(p, snapshot, declared, boardClock, FALSE)
          /\ UNCHANGED <<snapshot, pull, boardClock, moves, site, declared>>
      BY <2>3 DEF Board!Serve, Board!Fresh, Board!KeepWorld
    <3>2. target' \in {None} \union Board!Targets
      BY <1>2, <3>1, SettledIsTyped DEF BoardTyped
    <3>3. QED
      BY <1>2, <3>1, <3>2 DEF BoardTyped, HasTarget, Board!Whole, PullJobs, Board!Times,
         Board!Snapshots, Board!Figures, Board!TargetValue
  <2>4. ASSUME NEW p \in Board!Pullers, Board!BeginFetch(p) PROVE BoardTyped'
    <3> PICK j : j = [at |-> "fetch", asked |-> declared, since |-> boardClock, got |-> None]
      OBVIOUS
    <3>1. /\ pull' = [pull EXCEPT ![p] = j]
          /\ UNCHANGED <<snapshot, target, boardClock, moves, site, declared>>
      BY <2>4 DEF Board!BeginFetch, Board!KeepWorld
    <3>2. j \in PullJobs /\ j.at = "fetch"
      BY <1>2 DEF BoardTyped, PullJobs
    <3>3. QED
      BY <1>2, <2>4, <3>1, <3>2, PullTyped DEF BoardTyped, Board!Whole
  <2>5. ASSUME NEW p \in Board!Pullers, Board!Fetch(p) PROVE BoardTyped'
    <3> PICK r : r = Board!Parse(pull[p].asked)
      OBVIOUS
    <3> PICK j : j = [pull[p] EXCEPT !.at = "open", !.got = r]
      OBVIOUS
    <3>1. /\ pull' = [pull EXCEPT ![p] = j] /\ Board!TargetValue(r) # None /\ pull[p] \in PullJobs
          /\ UNCHANGED <<snapshot, target, boardClock, moves, site, declared>>
      BY <1>2, <2>5 DEF Board!Fetch, Board!At, Board!Answers, Board!KeepWorld, BoardTyped
    <3>2. HasTarget(r)
      <4>1. pull[p].asked \in BoardNames /\ boardClock \in Board!Times
        BY <1>2, <3>1 DEF BoardTyped, PullJobs
      <4>2. site[pull[p].asked].record \in Board!Figures
        BY <1>2, <4>1, BoardIsTyped DEF Board!BoardTypeOK
      <4>3. QED
        BY <3>1, <4>1, <4>2
           DEF Board!Parse, Board!FromYukon, Board!FromProvablyfast, HasTarget, Board!Snapshots
    <3>3. j \in PullJobs /\ j.got = r
      BY <3>1, <3>2 DEF PullJobs, HasTarget
    <3>4. QED
      BY <1>2, <2>5, <3>1, <3>2, <3>3, PullTyped DEF BoardTyped, Board!Whole
  <2>6. ASSUME NEW p \in Board!Pullers, Board!FetchFails(p) PROVE BoardTyped'
    <3>1. /\ pull' = [pull EXCEPT ![p] = Idle] /\ pull[p] \in PullJobs
          /\ UNCHANGED <<snapshot, boardClock, moves, site, declared>>
          /\ IF Board!Whole THEN Board!Settle(p, snapshot, pull[p].asked, pull[p].since, TRUE)
             ELSE UNCHANGED target
      BY <1>2, <2>6 DEF Board!FetchFails, Board!At, Board!KeepWorld, BoardTyped
    <3>2. target' \in {None} \union Board!Targets
      <4>1. CASE Board!Whole
        BY <1>2, <3>1, <4>1, SettledIsTyped DEF BoardTyped, PullJobs
      <4>2. CASE ~Board!Whole
        BY <1>2, <3>1, <4>2 DEF BoardTyped
      <4>3. QED
        BY <4>1, <4>2
    <3>3. QED
      BY <1>2, <2>6, <3>1, <3>2, PullTyped DEF BoardTyped, Board!Whole
  <2>7. ASSUME NEW p \in Board!Pullers, Board!OpenSnapshot(p) PROVE BoardTyped'
    <3> PICK j : j = [pull[p] EXCEPT !.at = "write"]
      OBVIOUS
    <3>1. /\ pull' = [pull EXCEPT ![p] = j] /\ pull[p] \in PullJobs /\ HasTarget(pull[p].got)
          /\ snapshot' = Torn /\ UNCHANGED <<target, boardClock, moves, site, declared>>
      BY <1>2, <2>7 DEF Board!OpenSnapshot, Board!At, Board!KeepWorld, BoardTyped
    <3>2. j \in PullJobs /\ j.got = pull[p].got
      BY <3>1 DEF PullJobs
    <3>3. QED
      BY <1>2, <2>7, <3>1, <3>2, PullTyped DEF BoardTyped, Board!Whole
  <2>8. ASSUME NEW p \in Board!Pullers, Board!WriteSnapshot(p) PROVE BoardTyped'
    <3>1. /\ pull' = [pull EXCEPT ![p] = Idle] /\ pull[p] \in PullJobs /\ HasTarget(pull[p].got)
          /\ snapshot' \in {pull[p].got, Torn} /\ UNCHANGED <<boardClock, moves, site, declared>>
          /\ Board!Settle(p, pull[p].got, pull[p].asked, pull[p].since, FALSE)
      BY <1>2, <2>8 DEF Board!WriteSnapshot, Board!At, Board!KeepWorld, BoardTyped
    <3>2. target' \in {None} \union Board!Targets
      BY <1>2, <3>1, SettledIsTyped DEF PullJobs
    <3>3. QED
      BY <1>2, <2>8, <3>1, <3>2, PullTyped DEF Board!Whole
  <2>9. ASSUME NEW p \in Board!Pullers, Board!Dies(p) PROVE BoardTyped'
    BY <1>2, <2>9, PullTyped DEF Board!Dies, Board!KeepWorld, BoardTyped, Board!Whole
  <2>10. QED
    BY <1>2, <2>1, <2>2, <2>3, <2>4, <2>5, <2>6, <2>7, <2>8, <2>9 DEF Board!BoardNext
<1>3. QED
  BY <1>1, <1>2, BoardIsTyped, PTL DEF Board!BoardSpec

-----------------------------------------------------------------------------
(* Upgrade: the core replaced by upstream's head, or put back.             *)

(* What an update under way has behind it: the core it is to put back can  *)
(* be imported; the core it installed is there until it is put back; a memo*)
(* is due only when nothing new is said against it.                        *)
UpgradeInv ==
    /\ head \in Upgr!Commits
    /\ upgradeJob # Idle =>
        /\ upgradeJob.base # Partial /\ upgradeJob.head \in Upgr!Commits
        /\ upgradeJob.at \in {"verify", "memo"} => core = upgradeJob.head
        /\ upgradeJob.at = "memo" => Faults[core] \subseteq upgradeJob.before
    /\ Upgr!UpgradeSafe

(* A step that ends no update.                                             *)
LEMMA UpgradeGoesOn ==
  ASSUME UpgradeHyp, UpgradeInv,
         \/ Upgr!Push \/ Upgr!EditDomain \/ Upgr!Reinstall \/ Upgr!PlanUpdate
         \/ Upgr!CheckBefore \/ Upgr!Install
         \/ Upgr!InstallFails \/ Upgr!CheckAfter \/ Upgr!Dies
  PROVE  UpgradeInv'
<1>1. lastUpgrade' = lastUpgrade /\ upgradeMemos' = upgradeMemos
  BY DEF Upgr!Push, Upgr!EditDomain, Upgr!Reinstall, Upgr!PlanUpdate, Upgr!CheckBefore,
         Upgr!Install, Upgr!InstallFails, Upgr!CheckAfter, Upgr!Dies
<1>2. Upgr!UpgradeSafe'
  BY <1>1 DEF UpgradeInv, Upgr!UpgradeSafe
<1>3. head' \in Upgr!Commits
  BY DEF UpgradeHyp, UpgradeInv, Upgr!Commits, Upgr!Push, Upgr!EditDomain, Upgr!Reinstall,
         Upgr!PlanUpdate, Upgr!CheckBefore, Upgr!Install, Upgr!InstallFails,
         Upgr!CheckAfter, Upgr!Dies, Upgr!KeepWorld
<1>4. SUFFICES ASSUME upgradeJob' # Idle
               PROVE  /\ upgradeJob'.base # Partial /\ upgradeJob'.head \in Upgr!Commits
                      /\ upgradeJob'.at \in {"verify", "memo"} => core' = upgradeJob'.head
                      /\ upgradeJob'.at = "memo" => Faults[core'] \subseteq upgradeJob'.before
  BY <1>2, <1>3 DEF UpgradeInv
<1>5. CASE Upgr!Push \/ Upgr!EditDomain
  BY <1>4, <1>5 DEF Upgr!Push, Upgr!EditDomain, Upgr!KeepInstall, UpgradeInv
<1>6. CASE Upgr!Reinstall \/ Upgr!Dies
  BY <1>4, <1>6 DEF Upgr!Reinstall, Upgr!Dies
<1>7. CASE Upgr!PlanUpdate
  <2>1. upgradeJob' =
          [at |-> "check", base |-> core, head |-> head, named |-> namedCore, before |-> {}]
    BY <1>7 DEF Upgr!PlanUpdate
  <2>2. QED
    BY <1>7, <2>1 DEF Upgr!PlanUpdate, UpgradeInv
<1>8. CASE Upgr!CheckBefore
  <2>1. /\ upgradeJob' = [upgradeJob EXCEPT !.at = "install", !.before = Upgr!Verify]
        /\ upgradeJob # Idle
    BY <1>8 DEF Upgr!CheckBefore, Upgr!At
  <2>2. QED
    BY <2>1 DEF UpgradeInv
<1>9. CASE Upgr!Install
  <2>1. /\ upgradeJob' = [upgradeJob EXCEPT !.at = "verify"] /\ upgradeJob # Idle
        /\ core' = upgradeJob.head
    BY <1>9 DEF Upgr!Install, Upgr!At, Upgr!Goto
  <2>2. QED
    BY <2>1 DEF UpgradeInv
<1>10. CASE Upgr!InstallFails
  <2>1. upgradeJob' = [upgradeJob EXCEPT !.at = "rollback"] /\ upgradeJob # Idle
    BY <1>10 DEF Upgr!InstallFails, Upgr!At, Upgr!Goto
  <2>2. QED
    BY <2>1 DEF UpgradeInv
<1>11. CASE Upgr!CheckAfter
  <2>1. /\ upgradeJob' = [upgradeJob EXCEPT !.at = IF Upgr!Worse THEN "rollback" ELSE "memo"]
        /\ upgradeJob # Idle /\ upgradeJob.at = "verify" /\ core' = core
    BY <1>11 DEF Upgr!CheckAfter, Upgr!At, Upgr!Goto, Upgr!KeepInstall
  <2>2. core = upgradeJob.head /\ upgradeJob.head \in Upgr!Commits
    BY <2>1 DEF UpgradeInv
  <2>3. ~Upgr!Worse => Faults[core] \subseteq upgradeJob.before
    BY <2>2 DEF Upgr!Worse, Upgr!Verify, UpgradeHyp
  <2>4. QED
    BY <2>1, <2>2, <2>3 DEF UpgradeInv
<1>12. QED
  BY <1>5, <1>6, <1>7, <1>8, <1>9, <1>10, <1>11

(* A step that ends one, and says how.                                     *)
LEMMA UpgradeEnds ==
  ASSUME UpgradeHyp, UpgradeInv, Upgr!WriteMemo \/ Upgr!RollBack \/ Upgr!RollBackFails
  PROVE  UpgradeInv'
<1>1. upgradeJob' = Idle /\ head' = head
  BY DEF Upgr!WriteMemo, Upgr!RollBack, Upgr!RollBackFails, Upgr!End, Upgr!KeepWorld
<1>2. CASE Upgr!WriteMemo
  <2>1. lastUpgrade'.said = "updated" /\ lastUpgrade'.job = upgradeJob /\ lastUpgrade'.core = core'
    BY <1>2 DEF Upgr!WriteMemo, Upgr!End
  <2>2. /\ core' = upgradeJob.head /\ upgradeMemos' = upgradeMemos \union {upgradeJob.head}
        /\ Faults[core'] \subseteq upgradeJob.before /\ core' # Partial
    BY <1>2 DEF Upgr!WriteMemo, Upgr!At, Upgr!KeepInstall, UpgradeInv, UpgradeHyp
  <2>3. QED
    BY <1>1, <2>1, <2>2 DEF UpgradeInv, Upgr!UpgradeSafe
<1>3. CASE Upgr!RollBack
  <2>1. /\ lastUpgrade'.said = "rolled back" /\ lastUpgrade'.job = upgradeJob
        /\ lastUpgrade'.core = core'
    BY <1>3 DEF Upgr!RollBack, Upgr!End
  <2>2. core' = upgradeJob.base /\ core' # Partial
    BY <1>3 DEF Upgr!RollBack, Upgr!At, UpgradeInv
  <2>3. QED
    BY <1>1, <2>1, <2>2 DEF UpgradeInv, Upgr!UpgradeSafe
<1>4. CASE Upgr!RollBackFails
  <2>1. lastUpgrade'.said = "stranded" /\ lastUpgrade'.job = upgradeJob /\ lastUpgrade'.core = core'
    BY <1>4 DEF Upgr!RollBackFails, Upgr!End
  <2>2. QED
    BY <1>1, <2>1 DEF UpgradeInv, Upgr!UpgradeSafe
<1>5. QED
  BY <1>2, <1>3, <1>4

(* An update that says it went well left the core it planned, with a memo  *)
(* and no new problem; one that says it rolled back left the core it found;*)
(* a core that does not import is left behind only with a word             *)
(* (upstream.py apply_update), however many commits, edits and failures.   *)
THEOREM UpgradeSafeHolds == UpgradeHyp => (Upgr!UpgradeSpec => []Upgr!UpgradeSafe)
<1> SUFFICES ASSUME UpgradeHyp PROVE Upgr!UpgradeSpec => []Upgr!UpgradeSafe
  OBVIOUS
<1>1. Upgr!UpgradeInit => UpgradeInv
  BY DEF UpgradeHyp, Upgr!UpgradeInit, UpgradeInv, Upgr!UpgradeSafe, Upgr!Commits
<1>2. UpgradeInv /\ [Upgr!UpgradeNext]_Upgr!upgradeVars => UpgradeInv'
  <2>1. UpgradeInv /\ Upgr!UpgradeNext => UpgradeInv'
    BY UpgradeGoesOn, UpgradeEnds DEF Upgr!UpgradeNext
  <2>2. UpgradeInv /\ UNCHANGED Upgr!upgradeVars => UpgradeInv'
    BY DEF Upgr!upgradeVars, UpgradeInv, Upgr!UpgradeSafe
  <2>3. QED
    BY <2>1, <2>2
<1>3. UpgradeInv => Upgr!UpgradeSafe
  BY DEF UpgradeInv
<1>4. QED
  BY <1>1, <1>2, <1>3, PTL DEF Upgr!UpgradeSpec

(* A core of upstream's is no later than upstream's head.                  *)
CoreBehind ==
    /\ Upgr!UpgradeTypeOK
    /\ core \in Upgr!Commits => core <= head
    /\ upgradeJob # Idle =>
        /\ DOMAIN upgradeJob = {"at", "base", "head", "named", "before"}
        /\ upgradeJob.base \in Upgr!Commits /\ upgradeJob.head \in Upgr!Commits
        /\ upgradeJob.head <= head

(* However far upstream has moved, the core and the memos of an upgrade    *)
(* name commits there are, or what stands for a core that is not one       *)
(* (upstream.py).                                                          *)
THEOREM UpgradeTypes ==
  UpgradeHyp /\ UpgradeBounds => (Upgr!UpgradeSpec => []Upgr!UpgradeTypeOK)
<1> SUFFICES ASSUME UpgradeHyp, UpgradeBounds PROVE Upgr!UpgradeSpec => []Upgr!UpgradeTypeOK
  OBVIOUS
<1>0. /\ MaxPush \in Nat /\ MaxHandEdits \in Nat /\ Partial \notin Upgr!Commits
      /\ Fork \notin Upgr!Commits
  BY DEF UpgradeHyp, UpgradeBounds
<1>9. MaxPush \in Nat /\ MaxHandEdits \in Nat
  BY <1>0
<1>10. \A k \in Upgr!Commits : k \in Nat
  BY <1>9 DEF Upgr!Commits
<1>1. Upgr!UpgradeInit => CoreBehind
  BY <1>0 DEF Upgr!UpgradeInit, CoreBehind, Upgr!UpgradeTypeOK, Upgr!Commits, UpgradeBounds
<1>2. ASSUME CoreBehind, [Upgr!UpgradeNext]_Upgr!upgradeVars PROVE CoreBehind'
  <2>1. head \in Nat /\ head \in Upgr!Commits
    BY <1>2, <1>10 DEF CoreBehind, Upgr!UpgradeTypeOK
  <2>2. Upgr!Verify \subseteq Upgr!Lines
    <3>1. core \in Upgr!Commits => Faults[core] \subseteq Problems
      BY DEF UpgradeBounds
    <3>2. core \in {Partial, Fork} \union Upgr!Commits /\ own \subseteq Problems
      BY <1>2 DEF CoreBehind, Upgr!UpgradeTypeOK
    <3>3. QED
      BY <3>1, <3>2 DEF Upgr!Verify, Upgr!Lines
  (* The domain, upstream or a hand moves, or an update ends.              *)
  <2>3. ASSUME head' \in Upgr!Commits, head <= head', upgradeJob' \in {upgradeJob, Idle},
               core' \in {core, Partial, Fork} \/ (core' \in Upgr!Commits /\ core' <= head'),
               own' \subseteq Problems, upgradeMemos' \subseteq Upgr!Commits,
               namedCore' \in BOOLEAN,
               lastUpgrade' = Idle \/ lastUpgrade'.said \in {"updated", "rolled back", "stranded"},
               handEdits' \in 0..MaxHandEdits
        PROVE  CoreBehind'
    <3>1. \A k \in Upgr!Commits : k <= head => k <= head'
      <4>1. \A k \in Nat : k <= head => k <= head'
        <5>1. head \in Nat /\ head' \in Nat /\ head <= head'
          BY <2>1, <2>3, <1>10
        <5>2. QED
          BY <5>1, LeqTransitive
      <4>2. QED
        BY <4>1, <1>10
    <3>2. core' \in Upgr!Commits => core' <= head'
      BY <1>0, <1>2, <2>3, <3>1 DEF CoreBehind
    <3>3. QED
      BY <1>2, <2>3, <3>1, <3>2 DEF CoreBehind, Upgr!UpgradeTypeOK
  (* An update goes on.                                                    *)
  <2>4. ASSUME upgradeJob # Idle, NEW where, NEW before, before \subseteq Upgr!Lines,
               upgradeJob' = [upgradeJob EXCEPT !.at = where, !.before = before],
               core' \in {core, Partial, upgradeJob.head}, namedCore' \in {namedCore, TRUE},
               UNCHANGED <<head, own, upgradeMemos, lastUpgrade, handEdits>>
        PROVE  CoreBehind'
    <3>1. /\ DOMAIN upgradeJob = {"at", "base", "head", "named", "before"}
          /\ upgradeJob.base \in Upgr!Commits /\ upgradeJob.head \in Upgr!Commits
          /\ upgradeJob.head <= head
          /\ upgradeJob.base < upgradeJob.head
      BY <1>2, <2>4 DEF CoreBehind, Upgr!UpgradeTypeOK
    <3>2. /\ DOMAIN upgradeJob' = DOMAIN upgradeJob
          /\ upgradeJob'.base = upgradeJob.base /\ upgradeJob'.head = upgradeJob.head
          /\ upgradeJob'.before = before
      BY <2>4, <3>1
    <3>3. core' \in Upgr!Commits => core' <= head
      BY <1>0, <1>2, <2>4, <3>1 DEF CoreBehind
    <3>4. QED
      BY <1>2, <2>4, <3>1, <3>2, <3>3 DEF CoreBehind, Upgr!UpgradeTypeOK
  <2>5. /\ head \in Upgr!Commits /\ head <= head /\ own \subseteq Problems
        /\ upgradeMemos \subseteq Upgr!Commits /\ namedCore \in BOOLEAN
        /\ handEdits \in 0..MaxHandEdits
        /\ lastUpgrade = Idle \/ lastUpgrade.said \in {"updated", "rolled back", "stranded"}
        /\ upgradeJob # Idle => upgradeJob.before \subseteq Upgr!Lines
    <3>1. head <= head
      BY <2>1
    <3>2. QED
      BY <1>2, <3>1 DEF CoreBehind, Upgr!UpgradeTypeOK
  <2>6. CASE Upgr!Push
    <3>1. head' = head + 1 /\ head < MaxPush
          /\ UNCHANGED <<core, namedCore, own, upgradeMemos, upgradeJob, lastUpgrade, handEdits>>
      BY <2>6 DEF Upgr!Push, Upgr!KeepInstall
    <3>2. head' \in Upgr!Commits /\ head <= head'
      BY <1>0, <2>1, <3>1 DEF Upgr!Commits
    <3>3. QED
      BY <2>3, <2>5, <3>1, <3>2
  <2>7. CASE Upgr!EditDomain \/ Upgr!Dies
    <3>1. /\ UNCHANGED <<head, core, namedCore, upgradeMemos, lastUpgrade>>
          /\ upgradeJob' \in {upgradeJob, Idle}
      BY <2>7 DEF Upgr!EditDomain, Upgr!Dies, Upgr!KeepInstall, Upgr!KeepWorld
    <3>2. own' \subseteq Problems
      BY <2>5, <2>7 DEF Upgr!EditDomain, Upgr!Dies, Upgr!KeepWorld
    <3>3. handEdits' = handEdits \/ (handEdits < MaxHandEdits /\ handEdits' = handEdits + 1)
      BY <2>7 DEF Upgr!EditDomain, Upgr!Dies, Upgr!KeepWorld
    <3>4. handEdits' \in 0..MaxHandEdits
      <4>1. handEdits \in 0..MaxHandEdits
        BY <2>5
      <4>2. QED
        BY <1>9, <3>3, <4>1
    <3>5. QED
      BY <2>3, <2>5, <3>1, <3>2, <3>4
  <2>8. CASE Upgr!Reinstall
    <3>1. /\ UNCHANGED <<head, own, upgradeMemos, upgradeJob, lastUpgrade>> /\ namedCore' = TRUE
          /\ core' = Fork \/ core' \in 0..head
          /\ handEdits < MaxHandEdits /\ handEdits' = handEdits + 1
      BY <2>8 DEF Upgr!Reinstall
    <3>2. handEdits' \in 0..MaxHandEdits
      <4>1. handEdits \in 0..MaxHandEdits /\ handEdits < MaxHandEdits /\ handEdits' = handEdits + 1
        BY <2>5, <3>1
      <4>2. QED
        BY <1>9, <4>1
    <3>3. \A k \in 0..head : k \in Upgr!Commits /\ k <= head
      BY <1>0, <2>1 DEF Upgr!Commits
    <3>4. QED
      BY <2>3, <2>5, <3>1, <3>2, <3>3
  <2>9. CASE Upgr!PlanUpdate
    <3>1. /\ upgradeJob' =
               [at |-> "check", base |-> core, head |-> head, named |-> namedCore, before |-> {}]
          /\ core \in Upgr!Commits /\ core # head /\ core <= head
          /\ UNCHANGED <<head, core, namedCore, own, upgradeMemos, lastUpgrade, handEdits>>
      BY <1>2, <2>9
         DEF Upgr!PlanUpdate, Upgr!PullStatus, Upgr!KeepInstall, Upgr!KeepWorld, CoreBehind,
             Upgr!UpgradeTypeOK
    <3>2. core < head
      BY <1>0, <2>1, <3>1 DEF Upgr!Commits
    <3>3. /\ upgradeJob'.base = core /\ upgradeJob'.head = head /\ upgradeJob'.before = {}
          /\ DOMAIN upgradeJob' = {"at", "base", "head", "named", "before"}
      BY <3>1
    <3>4. QED
      BY <1>2, <2>5, <3>1, <3>2, <3>3 DEF CoreBehind, Upgr!UpgradeTypeOK
  <2>10. CASE Upgr!CheckBefore
    <3>1. /\ upgradeJob # Idle
          /\ upgradeJob' = [upgradeJob EXCEPT !.at = "install", !.before = Upgr!Verify]
          /\ UNCHANGED <<head, core, namedCore, own, upgradeMemos, lastUpgrade, handEdits>>
      BY <2>10 DEF Upgr!CheckBefore, Upgr!At, Upgr!KeepInstall, Upgr!KeepWorld
    <3>2. QED
      BY <2>2, <2>4, <3>1
  <2>11. CASE Upgr!Install \/ Upgr!InstallFails \/ Upgr!CheckAfter
    <3>1. /\ upgradeJob # Idle /\ core' \in {core, Partial, upgradeJob.head}
          /\ namedCore' \in {namedCore, TRUE}
          /\ UNCHANGED <<head, own, upgradeMemos, lastUpgrade, handEdits>>
      BY <2>11
         DEF Upgr!Install, Upgr!InstallFails, Upgr!CheckAfter, Upgr!At, Upgr!KeepInstall,
             Upgr!KeepWorld
    <3>2. PICK where : upgradeJob' = [upgradeJob EXCEPT !.at = where]
      BY <2>11 DEF Upgr!Install, Upgr!InstallFails, Upgr!CheckAfter, Upgr!Goto
    <3>3. DOMAIN upgradeJob = {"at", "base", "head", "named", "before"}
      BY <1>2, <3>1 DEF CoreBehind
    <3>4. upgradeJob' = [upgradeJob EXCEPT !.at = where, !.before = upgradeJob.before]
      BY <3>2, <3>3
    <3>5. QED
      BY <2>4, <2>5, <3>1, <3>4
  <2>12. CASE Upgr!WriteMemo \/ Upgr!RollBack \/ Upgr!RollBackFails
    <3>1. /\ upgradeJob # Idle /\ upgradeJob' = Idle /\ UNCHANGED <<head, own, handEdits>>
          /\ core' \in {core, upgradeJob.base, Partial} /\ namedCore' \in {namedCore, TRUE}
          /\ upgradeMemos' \in {upgradeMemos, upgradeMemos \union {upgradeJob.head}}
      BY <2>12
         DEF Upgr!WriteMemo, Upgr!RollBack, Upgr!RollBackFails, Upgr!End, Upgr!At,
             Upgr!KeepWorld, Upgr!KeepInstall
    <3>2. PICK said \in {"updated", "rolled back", "stranded"} :
            lastUpgrade' = [said |-> said, job |-> upgradeJob, core |-> core']
      BY <2>12 DEF Upgr!WriteMemo, Upgr!RollBack, Upgr!RollBackFails, Upgr!End
    <3>3. lastUpgrade'.said = said
      BY <3>2
    <3>4. /\ upgradeJob.base \in Upgr!Commits /\ upgradeJob.head \in Upgr!Commits
          /\ upgradeJob.head <= head
          /\ upgradeJob.base < upgradeJob.head
      BY <1>2, <3>1 DEF CoreBehind, Upgr!UpgradeTypeOK
    <3>5. upgradeJob.base <= head
      <4> PICK b, h : b = upgradeJob.base /\ h = upgradeJob.head
        OBVIOUS
      <4>1. b \in Nat /\ h \in Nat /\ b < h /\ h <= head
        BY <1>10, <3>4
      <4>2. b <= head
        BY <2>1, <4>1, LessLeq
      <4>3. QED
        BY <4>2
    <3>6. QED
      BY <2>3, <2>5, <3>1, <3>3, <3>4, <3>5
  <2>13. CASE UNCHANGED Upgr!upgradeVars
    BY <1>2, <2>13 DEF Upgr!upgradeVars, CoreBehind, Upgr!UpgradeTypeOK
  <2>14. QED
    BY <1>2, <2>6, <2>7, <2>8, <2>9, <2>10, <2>11, <2>12, <2>13 DEF Upgr!UpgradeNext
<1>3. CoreBehind => Upgr!UpgradeTypeOK
  BY DEF CoreBehind
<1>4. QED
  BY <1>1, <1>2, <1>3, PTL DEF Upgr!UpgradeSpec

-----------------------------------------------------------------------------
(* Spending: one ceiling over every backend that costs money.              *)

(* A ceiling, or an ask that can cost anything.                            *)
Busy == {t \in Threads : ask[t] # Idle}

(* What is charged is what was paid and could be seen, until something was *)
(* paid that nobody could say; each ask under way can still cost its most. *)
SpendingInv ==
    /\ askSpent \in Nat /\ askPaid \in Nat /\ unseen \in 0..askPaid
    /\ ask \in [Threads -> {Idle} \union [brain : Spend!Brains, posts : 0..Retries]]
    /\ unknown \/ askPaid - unseen = askSpent
    /\ askPaid - unseen + Cardinality(Busy) * MaxCost < SpendCeiling + Cardinality(Threads) * MaxCost

(* An instance counts as the library does.                                 *)
LEMMA SpendingCounts == ASSUME NEW S PROVE Spend!Cardinality(S) = Cardinality(S)
BY DEF Spend!Cardinality, Cardinality

LEMMA BusyCounted ==
  ASSUME SpendingHyp, NEW S \in SUBSET Threads
  PROVE  /\ IsFiniteSet(S) /\ Cardinality(S) \in Nat /\ Cardinality(Threads) \in Nat
         /\ Cardinality(S) <= Cardinality(Threads)
         /\ \A t \in S : Cardinality(S \ {t}) = Cardinality(S) - 1
         /\ \A t \in Threads \ S : Cardinality(S \union {t}) = Cardinality(S) + 1
<1>1. IsFiniteSet(S) /\ Cardinality(S) <= Cardinality(Threads)
  BY FS_Subset DEF SpendingHyp
<1>2. Cardinality(S) \in Nat /\ Cardinality(Threads) \in Nat
  BY <1>1, FS_CardinalityType DEF SpendingHyp
<1>3. ASSUME NEW t \in S PROVE Cardinality(S \ {t}) = Cardinality(S) - 1
  BY <1>1, FS_RemoveElement
<1>4. ASSUME NEW t \in Threads \ S PROVE Cardinality(S \union {t}) = Cardinality(S) + 1
  BY <1>1, FS_AddElement
<1>5. QED
  BY <1>1, <1>2, <1>3, <1>4

LEMMA MostOf ==
  ASSUME NEW m \in Nat, NEW k \in Nat
  PROVE  /\ k * m \in Nat /\ (k + 1) * m = k * m + m
         /\ \A n \in Nat : k <= n => k * m <= n * m
<1>1. k * m \in Nat /\ (k + 1) * m = k * m + m
  OBVIOUS
<1>2. ASSUME NEW n \in Nat, k <= n PROVE k * m <= n * m
  <2>1. PICK d \in Nat : n = k + d
    BY <1>2
  <2>2. n * m = k * m + d * m /\ d * m \in Nat /\ k * m \in Nat
    BY <2>1
  <2>3. QED
    BY <2>2
<1>3. QED
  BY <1>1, <1>2

(* An ask ends: c is paid, and charged, unknown or unseen.                 *)
LEMMA AskEnds ==
  ASSUME SpendingHyp, SpendingInv, NEW t \in Threads, ask[t] # Idle,
         ask' = [ask EXCEPT ![t] = Idle], NEW c \in 0..MaxCost, askPaid' = askPaid + c,
         \/ askSpent' = askSpent + c /\ unseen' = unseen /\ unknown' = unknown
         \/ askSpent' = askSpent /\ unseen' = unseen /\ unknown'
         \/ askSpent' = askSpent /\ unseen' = unseen + c /\ unknown' = unknown
  PROVE  SpendingInv'
<1>1. Busy' = Busy \ {t} /\ t \in Busy /\ Busy \in SUBSET Threads
  BY DEF SpendingInv, Busy
<1>2. /\ Cardinality(Busy') = Cardinality(Busy) - 1 /\ Cardinality(Busy) \in Nat
      /\ Cardinality(Threads) \in Nat /\ IsFiniteSet(Busy)
  BY <1>1, BusyCounted
<1>3. Cardinality(Busy') \in Nat
  BY <1>1, <1>2, FS_RemoveElement, FS_CardinalityType
<1>4. /\ Cardinality(Busy') * MaxCost \in Nat /\ Cardinality(Threads) * MaxCost \in Nat
      /\ Cardinality(Busy) * MaxCost = Cardinality(Busy') * MaxCost + MaxCost
  <2>1. Cardinality(Busy) = Cardinality(Busy') + 1
    BY <1>2, <1>3
  <2>2. QED
    BY <1>2, <1>3, <2>1, MostOf DEF SpendingHyp
<1>5. /\ askSpent' \in Nat /\ askPaid' \in Nat /\ unseen' \in 0..askPaid'
      /\ ask' \in [Threads -> {Idle} \union [brain : Spend!Brains, posts : 0..Retries]]
      /\ unknown' \/ askPaid' - unseen' = askSpent'
  BY DEF SpendingInv, SpendingHyp
<1>6. askPaid' - unseen' <= askPaid - unseen + c /\ c <= MaxCost /\ askPaid - unseen \in Nat
  BY DEF SpendingInv, SpendingHyp
<1>7. askPaid' - unseen' + Cardinality(Busy') * MaxCost < SpendCeiling + Cardinality(Threads) * MaxCost
  <2> PICK x, y, z : /\ x = Cardinality(Busy') * MaxCost /\ y = Cardinality(Threads) * MaxCost
                     /\ z = Cardinality(Busy) * MaxCost
    OBVIOUS
  <2>1. x \in Nat /\ y \in Nat /\ z = x + MaxCost /\ askPaid - unseen + z < SpendCeiling + y
    BY <1>4 DEF SpendingInv
  <2>2. askPaid' - unseen' \in Nat
    BY <1>5
  <2>3. askPaid' - unseen' + x < SpendCeiling + y
    BY <1>6, <2>1, <2>2 DEF SpendingHyp
  <2>4. QED
    BY <2>3
<1>8. QED
  BY <1>5, <1>7 DEF SpendingInv

LEMMA DispatchSafe ==
  ASSUME SpendingHyp, SpendingInv, NEW t \in Threads, NEW b \in Spend!Brains, Spend!Dispatch(t, b)
  PROVE  SpendingInv'
<1>1. /\ ask[t] = Idle /\ ~unknown /\ askSpent < SpendCeiling
      /\ ask' = [ask EXCEPT ![t] = [brain |-> b, posts |-> 0]]
      /\ UNCHANGED <<askSpent, unknown, askPaid, unseen>>
  BY DEF Spend!Dispatch, Spend!Room, Spend!KeepLedger
<1> PICK a : a = [brain |-> b, posts |-> 0]
  OBVIOUS
<1>2. a \in [brain : Spend!Brains, posts : 0..Retries] /\ a # Idle /\ ask' = [ask EXCEPT ![t] = a]
  BY <1>1 DEF SpendingHyp
<1>3. Busy' = Busy \union {t} /\ t \in Threads \ Busy /\ Busy \in SUBSET Threads
  BY <1>1, <1>2 DEF SpendingInv, Busy
<1>4. /\ Cardinality(Busy') <= Cardinality(Threads) /\ Cardinality(Busy') \in Nat
      /\ Cardinality(Threads) \in Nat
  <2>1. Busy' \in SUBSET Threads
    BY <1>3
  <2>2. QED
    BY <2>1, BusyCounted
<1>5. /\ Cardinality(Busy') * MaxCost <= Cardinality(Threads) * MaxCost
      /\ Cardinality(Busy') * MaxCost \in Nat /\ Cardinality(Threads) * MaxCost \in Nat
  BY <1>4, MostOf DEF SpendingHyp
<1>6. askPaid - unseen < SpendCeiling /\ askPaid - unseen \in Nat
  BY <1>1 DEF SpendingInv
<1>7. askPaid' - unseen' + Cardinality(Busy') * MaxCost < SpendCeiling + Cardinality(Threads) * MaxCost
  <2> PICK x, y : x = Cardinality(Busy') * MaxCost /\ y = Cardinality(Threads) * MaxCost
    OBVIOUS
  <2>1. askPaid - unseen + x < SpendCeiling + y
    BY <1>5, <1>6 DEF SpendingHyp
  <2>2. QED
    BY <1>1, <2>1
<1>8. QED
  BY <1>1, <1>2, <1>7 DEF SpendingInv

(* A post that is tried again: billed, and not seen.                       *)
LEMMA PostAgainSafe ==
  ASSUME SpendingHyp, SpendingInv, NEW t \in Threads, Spend!PostAgain(t)
  PROVE  SpendingInv'
<1>1. /\ ask[t] # Idle /\ ask[t].posts < Retries
      /\ ask' = [ask EXCEPT ![t].posts = @ + 1] /\ UNCHANGED <<askSpent, unknown>>
  BY DEF Spend!PostAgain, Spend!Asking, Spend!KeepLedger
<1>2. PICK c \in 0..MaxCost : askPaid' = askPaid + c /\ unseen' = unseen + c
  BY DEF Spend!PostAgain, Spend!PayUnseen, Spend!Costs
<1> PICK a : a = [ask[t] EXCEPT !.posts = @ + 1]
  OBVIOUS
<1>3. a \in [brain : Spend!Brains, posts : 0..Retries] /\ a # Idle /\ ask' = [ask EXCEPT ![t] = a]
  BY <1>1 DEF SpendingHyp, SpendingInv
<1>4. Busy' = Busy
  BY <1>1, <1>3 DEF SpendingInv, Busy
<1>5. /\ askPaid' \in Nat /\ unseen' \in 0..askPaid' /\ askPaid' - unseen' = askPaid - unseen
  BY <1>2 DEF SpendingInv, SpendingHyp
<1>6. QED
  BY <1>1, <1>3, <1>4, <1>5 DEF SpendingInv

LEMMA AnswerSafe ==
  ASSUME SpendingHyp, SpendingInv, NEW t \in Threads,
         \/ \E b \in Commands : \/ Spend!Answer(t, b) \/ Spend!AnswerUncosted(t, b)
                                \/ Spend!ExitNonzero(t, b) \/ Spend!TimeOut(t, b)
         \/ Spend!PostAnswered(t) \/ Spend!PostRefused(t) \/ Spend!PostFails(t)
  PROVE  SpendingInv'
<1>1. ask[t] # Idle /\ ask' = [ask EXCEPT ![t] = Idle]
  BY DEF Spend!Answer, Spend!AnswerUncosted, Spend!ExitNonzero, Spend!TimeOut,
         Spend!PostAnswered, Spend!PostRefused, Spend!PostFails, Spend!Asking, Spend!Done
<1>2. PICK c \in 0..MaxCost :
        /\ askPaid' = askPaid + c
        /\ \/ askSpent' = askSpent + c /\ unseen' = unseen /\ unknown' = unknown
           \/ askSpent' = askSpent /\ unseen' = unseen /\ unknown'
           \/ askSpent' = askSpent /\ unseen' = unseen + c /\ unknown' = unknown
  BY DEF Spend!Answer, Spend!AnswerUncosted, Spend!ExitNonzero, Spend!TimeOut,
         Spend!PostAnswered, Spend!PostRefused, Spend!PostFails, Spend!Spend,
         Spend!SpendUnknown, Spend!SpendUsage, Spend!KeepLedger, Spend!Pay,
         Spend!PayUnseen, Spend!Costs
<1>3. QED
  BY <1>1, <1>2, AskEnds

LEMMA SpendingStarts == ASSUME SpendingHyp, Spend!SpendingInit PROVE SpendingInv
<1>1. Busy = {} /\ Cardinality({}) = 0
  BY FS_EmptySet DEF Spend!SpendingInit, Busy
<1>2. 0 * MaxCost = 0 /\ Cardinality(Threads) \in Nat
  BY FS_CardinalityType DEF SpendingHyp
<1>3. QED
  BY <1>1, <1>2 DEF Spend!SpendingInit, SpendingInv, SpendingHyp

(* One ceiling for all backends: no more is paid than the ceiling and one  *)
(* ask per thread beyond it, what the code cannot be told of aside         *)
(* (brain.py CostLedger), for any number of threads and backends.          *)
THEOREM CeilingHoldsAlways == SpendingHyp => (Spend!SpendingSpec => []Spend!CeilingHolds)
<1> SUFFICES ASSUME SpendingHyp PROVE Spend!SpendingSpec => []Spend!CeilingHolds
  OBVIOUS
<1>1. Spend!SpendingInit => SpendingInv
  BY SpendingStarts
<1>2. SpendingInv /\ [Spend!SpendingNext]_Spend!spendingVars => SpendingInv'
  <2>1. SpendingInv /\ Spend!SpendingNext => SpendingInv'
    BY DispatchSafe, PostAgainSafe, AnswerSafe DEF Spend!SpendingNext, Spend!SpendingStep
  <2>2. SpendingInv /\ UNCHANGED Spend!spendingVars => SpendingInv'
    BY DEF Spend!spendingVars, SpendingInv, Busy
  <2>3. QED
    BY <2>1, <2>2
<1>3. ASSUME SpendingInv PROVE Spend!CeilingHolds
  <2>1. Cardinality(Busy) \in Nat /\ Cardinality(Threads) \in Nat
    BY BusyCounted DEF Busy
  <2>2. Cardinality(Busy) * MaxCost \in Nat /\ Cardinality(Threads) * MaxCost \in Nat
    BY <2>1, MostOf DEF SpendingHyp
  <2> PICK x, y : x = Cardinality(Busy) * MaxCost /\ y = Cardinality(Threads) * MaxCost
    OBVIOUS
  <2>3. x \in Nat /\ y \in Nat /\ askPaid - unseen + x < SpendCeiling + y
    BY <1>3, <2>2 DEF SpendingInv
  <2>4. askPaid - unseen < SpendCeiling + y
    BY <1>3, <2>3 DEF SpendingInv, SpendingHyp
  <2>5. QED
    BY <2>4, SpendingCounts DEF Spend!CeilingHolds
<1>4. QED
  BY <1>1, <1>2, <1>3, PTL DEF Spend!SpendingSpec

(* The posts the asks under way can still be billed for; every ask was     *)
(* billed for one post more than it may retry, at most.                    *)
Owed == {o \in Threads \X (0..Retries) : ask[o[1]] # Idle /\ ask[o[1]].posts <= o[2]}

PerAsk == MaxCost * (Retries + 1)

SpendingBounded ==
    /\ routes \subseteq Spend!Brains /\ priced \in BOOLEAN /\ unknown \in BOOLEAN
    /\ asks \in 0..MaxAsks
    /\ askSpent + unseen <= askPaid
    /\ askPaid + Cardinality(Owed) * MaxCost <= asks * PerAsk

LEMMA OwedCounted ==
  ASSUME SpendingHyp, NEW S \in SUBSET (Threads \X (0..Retries))
  PROVE  IsFiniteSet(S) /\ Cardinality(S) \in Nat
<1>1. IsFiniteSet(0..Retries) /\ IsFiniteSet(Threads)
  BY FS_Interval DEF SpendingHyp
<1>2. IsFiniteSet(Threads \X (0..Retries))
  BY <1>1, FS_Product
<1>3. QED
  BY <1>2, FS_Subset, FS_CardinalityType

(* Products, for factors the provers know nothing of.                      *)
LEMMA Products ==
  ASSUME NEW a \in Nat, NEW b \in Nat, NEW m \in Nat
  PROVE  /\ a * m \in Nat /\ (a + b) * m = a * m + b * m
         /\ (a * b) * m = a * (b * m) /\ a * b = b * a
OBVIOUS

(* A step that bills one post, at most, which nobody can be billed for any *)
(* more.                                                                   *)
LEMMA PostBilled ==
  ASSUME SpendingHyp, MaxAsks \in Nat, SpendingInv, SpendingInv', SpendingBounded,
         NEW o \in Owed, Owed' \subseteq Owed \ {o},
         NEW c \in 0..MaxCost, askPaid' = askPaid + c, asks' = asks
  PROVE  askPaid' + Cardinality(Owed') * MaxCost <= asks' * PerAsk
<1> PICK D : D = Owed'
  OBVIOUS
<1>1. Owed \in SUBSET (Threads \X (0..Retries)) /\ D \in SUBSET (Owed \ {o})
  BY DEF Owed
<1>2. IsFiniteSet(Owed) /\ Cardinality(Owed) \in Nat
  BY <1>1, OwedCounted
<1>3. /\ IsFiniteSet(Owed \ {o}) /\ Cardinality(Owed \ {o}) = Cardinality(Owed) - 1
  BY <1>2, FS_RemoveElement
<1>4. Cardinality(D) \in Nat /\ Cardinality(D) <= Cardinality(Owed) - 1
  BY <1>1, <1>3, FS_Subset, FS_CardinalityType
<1> PICK k, n : k = Cardinality(D) /\ n = Cardinality(Owed)
  OBVIOUS
<1>5. k \in Nat /\ n \in Nat /\ k + 1 <= n /\ MaxCost \in Nat
  BY <1>2, <1>4 DEF SpendingHyp
<1>6. k * MaxCost \in Nat /\ n * MaxCost \in Nat /\ k * MaxCost + MaxCost <= n * MaxCost
  <2>1. (k + 1) * MaxCost = k * MaxCost + MaxCost /\ k * MaxCost \in Nat
    BY <1>5, MostOf
  <2>2. k + 1 \in Nat
    BY <1>5
  <2>3. (k + 1) * MaxCost <= n * MaxCost /\ n * MaxCost \in Nat
    BY <1>5, <2>2, MostOf
  <2>4. QED
    BY <2>1, <2>3
<1>7. asks * PerAsk \in Nat
  <2>1. asks \in Nat /\ PerAsk \in Nat
    BY DEF SpendingBounded, PerAsk, SpendingHyp
  <2>2. QED
    BY <2>1, Products
<1> PICK x, y, z : x = k * MaxCost /\ y = n * MaxCost /\ z = asks * PerAsk
  OBVIOUS
<1>8. askPaid + y <= z /\ askPaid \in Nat
  BY DEF SpendingBounded, SpendingInv
<1>9. askPaid + c + x <= z
  BY <1>5, <1>6, <1>7, <1>8
<1>10. QED
  BY <1>9

(* Its ledger: what was charged, and what was not seen, was paid.          *)
LEMMA Charged ==
  ASSUME SpendingInv, SpendingBounded, NEW c \in Nat, askPaid' = askPaid + c,
         \/ askSpent' = askSpent + c /\ unseen' = unseen
         \/ askSpent' = askSpent /\ unseen' = unseen
         \/ askSpent' = askSpent /\ unseen' = unseen + c
  PROVE  askSpent' + unseen' <= askPaid'
<1>1. askSpent \in Nat /\ unseen \in Nat /\ askPaid \in Nat /\ askSpent + unseen <= askPaid
  BY DEF SpendingInv, SpendingBounded
<1>2. QED
  BY <1>1

LEMMA AskEndsBounded ==
  ASSUME SpendingHyp, MaxAsks \in Nat, SpendingInv, SpendingBounded, NEW t \in Threads,
         UNCHANGED <<routes, priced>>,
         \/ \E b \in Commands : \/ Spend!Answer(t, b) \/ Spend!AnswerUncosted(t, b)
                                \/ Spend!ExitNonzero(t, b) \/ Spend!TimeOut(t, b)
         \/ Spend!PostAnswered(t) \/ Spend!PostRefused(t) \/ Spend!PostFails(t)
  PROVE  SpendingBounded'
<1>1. ask[t] # Idle /\ ask' = [ask EXCEPT ![t] = Idle] /\ asks' = asks
  BY DEF Spend!Answer, Spend!AnswerUncosted, Spend!ExitNonzero, Spend!TimeOut,
         Spend!PostAnswered, Spend!PostRefused, Spend!PostFails, Spend!Asking, Spend!Done
<1>2. PICK c \in 0..MaxCost :
        /\ askPaid' = askPaid + c
        /\ \/ askSpent' = askSpent + c /\ unseen' = unseen
           \/ askSpent' = askSpent /\ unseen' = unseen
           \/ askSpent' = askSpent /\ unseen' = unseen + c
  BY DEF Spend!Answer, Spend!AnswerUncosted, Spend!ExitNonzero, Spend!TimeOut,
         Spend!PostAnswered, Spend!PostRefused, Spend!PostFails, Spend!Spend,
         Spend!SpendUnknown, Spend!SpendUsage, Spend!KeepLedger, Spend!Pay,
         Spend!PayUnseen, Spend!Costs
<1>3. unknown' \in BOOLEAN
  BY DEF Spend!Answer, Spend!AnswerUncosted, Spend!ExitNonzero, Spend!TimeOut,
         Spend!PostAnswered, Spend!PostRefused, Spend!PostFails, Spend!Spend,
         Spend!SpendUnknown, Spend!SpendUsage, Spend!KeepLedger, SpendingBounded
<1>4. SpendingInv'
  BY AnswerSafe
<1> PICK o : o = <<t, ask[t].posts>>
  OBVIOUS
<1>5. o \in Owed /\ Owed' \subseteq Owed \ {o}
  <2>1. ask[t].posts \in 0..Retries /\ ask[t].posts <= ask[t].posts
    BY <1>1 DEF SpendingInv, SpendingHyp
  <2>2. o \in Owed
    BY <1>1, <2>1 DEF Owed
  <2>3. ASSUME NEW r \in Owed' PROVE r \in Owed \ {o}
    <3>1. r[1] \in Threads /\ ask'[r[1]] # Idle
      BY <2>3 DEF Owed
    <3>2. r[1] # t /\ ask'[r[1]] = ask[r[1]]
      BY <1>1, <3>1 DEF SpendingInv
    <3>3. QED
      BY <2>3, <3>2 DEF Owed
  <2>4. QED
    BY <2>2, <2>3
<1>6. askPaid' + Cardinality(Owed') * MaxCost <= asks' * PerAsk
  BY <1>1, <1>2, <1>4, <1>5, PostBilled
<1>7. askSpent' + unseen' <= askPaid'
  <2>1. c \in Nat
    BY DEF SpendingHyp
  <2>2. QED
    BY <1>2, <2>1, Charged
<1>8. routes' \subseteq Spend!Brains /\ priced' \in BOOLEAN /\ asks' \in 0..MaxAsks
  BY <1>1 DEF SpendingBounded
<1>9. QED
  BY <1>3, <1>6, <1>7, <1>8 DEF SpendingBounded

LEMMA PostAgainBounded ==
  ASSUME SpendingHyp, MaxAsks \in Nat, SpendingInv, SpendingBounded, NEW t \in Threads,
         UNCHANGED <<routes, priced>>, Spend!PostAgain(t)
  PROVE  SpendingBounded'
<1>1. /\ ask[t] # Idle /\ ask[t].posts < Retries /\ asks' = asks
      /\ ask' = [ask EXCEPT ![t].posts = @ + 1] /\ UNCHANGED <<askSpent, unknown>>
  BY DEF Spend!PostAgain, Spend!Asking, Spend!KeepLedger
<1>2. PICK c \in 0..MaxCost : askPaid' = askPaid + c /\ unseen' = unseen + c
  BY DEF Spend!PostAgain, Spend!PayUnseen, Spend!Costs
<1>3. SpendingInv'
  BY PostAgainSafe
<1> PICK o : o = <<t, ask[t].posts>>
  OBVIOUS
<1> PICK k : k = ask[t].posts
  OBVIOUS
<1>4. k \in 0..Retries /\ k \in Nat /\ k <= k /\ Retries \in Nat
  BY <1>1 DEF SpendingInv, SpendingHyp
<1>5. /\ ask'[t].posts = k + 1
      /\ \A q \in Threads : q # t => ask'[q] = ask[q]
  BY <1>1 DEF SpendingInv
<1>6. o \in Owed /\ Owed' \subseteq Owed \ {o}
  <2>1. o \in Owed
    BY <1>1, <1>4 DEF Owed
  <2>2. ASSUME NEW r \in Owed' PROVE r \in Owed \ {o}
    <3>1. r \in Threads \X (0..Retries) /\ ask'[r[1]] # Idle /\ ask'[r[1]].posts <= r[2]
      BY <2>2 DEF Owed
    <3>2. CASE r[1] # t
      BY <1>5, <3>1, <3>2 DEF Owed
    <3>3. CASE r[1] = t
      <4>1. k + 1 <= r[2] /\ r[2] \in Nat
        BY <1>5, <3>1, <3>3
      <4>2. k <= r[2] /\ k # r[2]
        BY <1>4, <4>1
      <4>3. QED
        BY <1>1, <3>1, <3>3, <4>2 DEF Owed
    <3>4. QED
      BY <3>2, <3>3
  <2>3. QED
    BY <2>1, <2>2
<1>7. askPaid' + Cardinality(Owed') * MaxCost <= asks' * PerAsk
  BY <1>1, <1>2, <1>3, <1>6, PostBilled
<1>8. askSpent' + unseen' <= askPaid'
  <2>1. c \in Nat
    BY DEF SpendingHyp
  <2>2. QED
    BY <1>1, <1>2, <2>1, Charged
<1>9. QED
  BY <1>1, <1>7, <1>8 DEF SpendingBounded

LEMMA DispatchBounded ==
  ASSUME SpendingHyp, MaxAsks \in Nat, SpendingInv, SpendingBounded, NEW t \in Threads,
         NEW b \in Spend!Brains, UNCHANGED <<routes, priced>>, Spend!Dispatch(t, b)
  PROVE  SpendingBounded'
<1>1. /\ ask[t] = Idle /\ asks < MaxAsks /\ asks' = asks + 1
      /\ ask' = [ask EXCEPT ![t] = [brain |-> b, posts |-> 0]]
      /\ UNCHANGED <<askSpent, unknown, askPaid, unseen>>
  BY DEF Spend!Dispatch, Spend!KeepLedger
<1> DEFINE N == {t} \X (0..Retries)
<1> PICK a : a = [brain |-> b, posts |-> 0]
  OBVIOUS
<1>2. /\ ask'[t] = a /\ a.posts = 0 /\ a # Idle /\ \A q \in Threads : q # t => ask'[q] = ask[q]
  BY <1>1 DEF SpendingInv, SpendingHyp
<1>3. Owed' \subseteq Owed \union N
  <2>1. ASSUME NEW r \in Owed' PROVE r \in Owed \union N
    <3>1. r \in Threads \X (0..Retries) /\ ask'[r[1]] # Idle /\ ask'[r[1]].posts <= r[2]
      BY <2>1 DEF Owed
    <3>2. QED
      BY <1>2, <3>1 DEF Owed
  <2>2. QED
    BY <2>1
<1>4. /\ IsFiniteSet(N) /\ Cardinality(N) = Retries + 1
  <2>1. IsFiniteSet({t}) /\ Cardinality({t}) = 1
    BY FS_Singleton
  <2>2. IsFiniteSet(0..Retries) /\ Cardinality(0..Retries) = Retries + 1
    <3> PICK R : R = Retries
      OBVIOUS
    <3>1. R \in Nat /\ 0 \in Int /\ R \in Int /\ ~(0 > R) /\ R - 0 + 1 = R + 1
      BY DEF SpendingHyp
    <3>2. IsFiniteSet(0..R) /\ Cardinality(0..R) = R + 1
      BY <3>1, FS_Interval
    <3>3. QED
      BY <3>2
  <2> PICK P, Q : P = {t} /\ Q = 0..Retries
    OBVIOUS
  <2>6. IsFiniteSet(P \X Q) /\ Cardinality(P \X Q) = Cardinality(P) * Cardinality(Q)
    BY <2>1, <2>2, FS_Product
  <2>3. IsFiniteSet(N) /\ Cardinality(N) = 1 * (Retries + 1)
    BY <2>1, <2>2, <2>6
  <2>4. 1 * (Retries + 1) = Retries + 1
    BY DEF SpendingHyp
  <2>5. QED
    BY <2>3, <2>4
<1>5. IsFiniteSet(Owed) /\ Cardinality(Owed) \in Nat
  BY OwedCounted DEF Owed
<1> HIDE DEF N
<1> PICK D : D = Owed'
  OBVIOUS
<1>6. Cardinality(D) \in Nat /\ Cardinality(D) <= Cardinality(Owed) + (Retries + 1)
  <2>1. IsFiniteSet(Owed \union N)
        /\ Cardinality(Owed \union N)
             = Cardinality(Owed) + Cardinality(N) - Cardinality(Owed \intersect N)
    BY <1>4, <1>5, FS_Union
  <2>2. Cardinality(Owed \intersect N) \in Nat
    BY <1>4, FS_Intersection, FS_CardinalityType, <1>5
  <2>3. IsFiniteSet(D) /\ Cardinality(D) <= Cardinality(Owed \union N)
    BY <1>3, <2>1, FS_Subset
  <2>4. Cardinality(D) \in Nat
    BY <2>3, FS_CardinalityType
  <2>5. QED
    BY <1>4, <1>5, <2>1, <2>2, <2>3, <2>4 DEF SpendingHyp
<1> PICK k, n, r : k = Cardinality(D) /\ n = Cardinality(Owed) /\ r = Retries + 1
  OBVIOUS
<1>7. /\ k \in Nat /\ n \in Nat /\ r \in Nat /\ k <= n + r /\ MaxCost \in Nat
      /\ n + r \in Nat
  BY <1>5, <1>6 DEF SpendingHyp
<1>8. k * MaxCost <= n * MaxCost + r * MaxCost
  <2>1. k * MaxCost <= (n + r) * MaxCost
    BY <1>7, MostOf
  <2>2. (n + r) * MaxCost = n * MaxCost + r * MaxCost
    BY <1>7, Products
  <2>3. QED
    BY <2>1, <2>2
<1>9. /\ k * MaxCost \in Nat /\ n * MaxCost \in Nat /\ r * MaxCost \in Nat
      /\ r * MaxCost = PerAsk
  BY <1>7, Products DEF PerAsk
<1>10. asks \in Nat /\ asks * PerAsk \in Nat /\ (asks + 1) * PerAsk = asks * PerAsk + PerAsk
  <2>1. asks \in Nat
    BY DEF SpendingBounded
  <2>2. PerAsk \in Nat
    BY <1>9
  <2>3. QED
    BY <2>1, <2>2, MostOf
<1> PICK x, y, z : x = k * MaxCost /\ y = n * MaxCost /\ z = asks * PerAsk
  OBVIOUS
<1>11. askPaid + y <= z /\ askPaid \in Nat
  BY DEF SpendingBounded, SpendingInv
<1>12. askPaid + x <= z + PerAsk
  <2>1. x \in Nat /\ y \in Nat /\ z \in Nat /\ PerAsk \in Nat /\ x <= y + PerAsk
    BY <1>8, <1>9, <1>10
  <2>2. QED
    BY <1>11, <2>1
<1>13. asks' \in 0..MaxAsks
  BY <1>1, <1>10
<1>14. askPaid' + Cardinality(Owed') * MaxCost <= asks' * PerAsk
  BY <1>1, <1>10, <1>12
<1>15. QED
  BY <1>1, <1>13, <1>14 DEF SpendingBounded

LEMMA SpendingIsTyped ==
  ASSUME SpendingHyp, MaxAsks \in Nat, SpendingInv, SpendingBounded PROVE Spend!SpendingTypeOK
<1>1. /\ asks \in Nat /\ asks <= MaxAsks /\ askPaid \in Nat /\ askSpent \in Nat
      /\ unseen \in 0..askPaid
  BY DEF SpendingBounded, SpendingInv
<1>2. Cardinality(Owed) \in Nat /\ MaxCost \in Nat /\ Retries \in Nat
  BY OwedCounted DEF Owed, SpendingHyp
<1>3. PerAsk \in Nat
  BY <1>2 DEF PerAsk
<1>4. asks * PerAsk <= MaxAsks * PerAsk /\ MaxAsks * PerAsk \in Nat /\ asks * PerAsk \in Nat
  BY <1>1, <1>3, MostOf
<1>5. MaxAsks * PerAsk = Spend!MostPaid
  BY <1>2, Products DEF PerAsk, Spend!MostPaid
<1>6. Cardinality(Owed) * MaxCost \in Nat
  BY <1>2, Products
<1> PICK x, y, z : x = Cardinality(Owed) * MaxCost /\ y = asks * PerAsk /\ z = MaxAsks * PerAsk
  OBVIOUS
<1>7. /\ askPaid + x <= y /\ y <= z /\ x \in Nat /\ y \in Nat /\ z \in Nat
      /\ askSpent + unseen <= askPaid /\ unseen \in Nat
  BY <1>1, <1>4, <1>6 DEF SpendingBounded
<1>8. askPaid <= z /\ askSpent <= z
  BY <1>1, <1>7
<1>9. askPaid \in 0..Spend!MostPaid /\ askSpent \in 0..Spend!MostPaid
  BY <1>1, <1>5, <1>7, <1>8
<1>10. QED
  BY <1>1, <1>9 DEF SpendingBounded, SpendingInv, Spend!SpendingTypeOK

(* However many threads ask at once, what is spent, billed and unseen are  *)
(* amounts within what so many asks can come to (brain.py).                *)
THEOREM SpendingTypes ==
  SpendingHyp /\ MaxAsks \in Nat => (Spend!SpendingSpec => []Spend!SpendingTypeOK)
<1> SUFFICES ASSUME SpendingHyp, MaxAsks \in Nat PROVE Spend!SpendingSpec => []Spend!SpendingTypeOK
  OBVIOUS
<1>1. Spend!SpendingInit => SpendingInv /\ SpendingBounded
  <2> SUFFICES ASSUME Spend!SpendingInit PROVE SpendingBounded
    BY SpendingStarts
  <2>1. Owed = {} /\ Cardinality({}) = 0
    BY FS_EmptySet DEF Spend!SpendingInit, Owed
  <2>2. 0 * MaxCost = 0 /\ 0 * PerAsk = 0
    BY DEF SpendingHyp, PerAsk
  <2>3. routes \subseteq Spend!Brains
    BY DEF Spend!SpendingInit, Spend!BuildBrain
  <2>4. /\ askPaid = 0 /\ askSpent = 0 /\ unseen = 0 /\ asks = 0 /\ unknown = FALSE
        /\ priced \in BOOLEAN
    BY DEF Spend!SpendingInit
  <2>5. askPaid + Cardinality(Owed) * MaxCost <= asks * PerAsk
    BY <2>1, <2>2, <2>4
  <2>6. 0 \in 0..MaxAsks /\ 0 + 0 <= 0
    OBVIOUS
  <2>7. asks \in 0..MaxAsks /\ askSpent + unseen <= askPaid
    BY <2>4, <2>6
  <2>8. unknown \in BOOLEAN
    BY <2>4
  <2>9. QED
    BY <2>3, <2>4, <2>5, <2>7, <2>8 DEF SpendingBounded
<1>2. SpendingInv /\ SpendingBounded /\ [Spend!SpendingNext]_Spend!spendingVars
        => SpendingInv' /\ SpendingBounded'
  <2>1. ASSUME SpendingInv, SpendingBounded, Spend!SpendingNext
        PROVE  SpendingInv' /\ SpendingBounded'
    BY <2>1, DispatchSafe, PostAgainSafe, AnswerSafe, DispatchBounded, PostAgainBounded,
       AskEndsBounded DEF Spend!SpendingNext, Spend!SpendingStep
  <2>2. SpendingInv /\ SpendingBounded /\ UNCHANGED Spend!spendingVars
          => SpendingInv' /\ SpendingBounded'
    BY DEF Spend!spendingVars, SpendingInv, SpendingBounded, Busy, Owed
  <2>3. QED
    BY <2>1, <2>2
<1>3. QED
  BY <1>1, <1>2, SpendingIsTyped, PTL DEF Spend!SpendingSpec

-----------------------------------------------------------------------------
(* Inherit: a member domain under its umbrella.                            *)

InheritInv == umbrella \in Inh!Files /\ member \in Inh!Files /\ Inh!MemberNeverLoosens

(* A key of a side is one of the values its file may hold.                 *)
LEMMA KeyTyped ==
  ASSUME NEW side \in Inh!Files
  PROVE  Inh!Get(side, "spend_ceiling") \in Inh!Optional(Amounts)
BY DEF Inh!Get, Inh!IsTable, Inh!Table, Inh!Files, Inh!Policies, Inh!Optional

(* The ceiling of a merge is the lower one, whatever the member sets.      *)
LEMMA CeilingBinds ==
  ASSUME InheritHyp, umbrella \in Inh!Files, member \in Inh!Files, ~Inh!MergeRefused,
         Inh!Theirs("spend_ceiling") \in Amounts
  PROVE  Inh!Ceiling \in Amounts /\ Inh!Ceiling <= Inh!Theirs("spend_ceiling")
<1> PICK t : t = Inh!Theirs("spend_ceiling")
  OBVIOUS
<1> PICK o : o = Inh!Ours("spend_ceiling")
  OBVIOUS
<1>1. t \in Nat /\ t \in Amounts /\ t # None /\ t # Broken /\ o \in Amounts \union {None, Broken}
  BY KeyTyped DEF InheritHyp, Inh!Ours, Inh!Optional
<1>2. o # None => o # Broken /\ o \in Nat /\ o \in Amounts
  BY <1>1 DEF Inh!MergeRefused, Inh!BothCeilings, InheritHyp
<1>3. Inh!Ceiling = IF o # None /\ t <= o THEN t ELSE IF o # None THEN o ELSE t
  BY <1>1 DEF Inh!Ceiling, Inh!BothCeilings, Inh!Wins
<1>4. QED
  BY <1>1, <1>2, <1>3

(* Its floor is the higher one.                                            *)
LEMMA FloorBinds ==
  ASSUME InheritHyp, umbrella \in Inh!Files, member \in Inh!Files, ~Inh!MergeRefused,
         umbrella.min_core \in Releases
  PROVE  Inh!Floor \in Releases /\ Inh!Floor >= umbrella.min_core
<1> PICK t : t = umbrella.min_core
  OBVIOUS
<1> PICK o : o = member.min_core
  OBVIOUS
<1>1. t \in Nat /\ t \in Releases /\ t \notin {None, Broken, 0} /\
      o \in Releases \union {0, None, Broken}
  BY DEF InheritHyp, Inh!Files, Inh!Optional
<1>2. o \notin {None, 0} => o \in Nat /\ o \in Releases
  BY <1>1 DEF Inh!MergeRefused, InheritHyp
<1>3. Inh!Floor = IF o \in {None, 0} \/ t >= o THEN t ELSE o
  BY <1>1 DEF Inh!Floor
<1>4. QED
  BY <1>1, <1>2, <1>3

LEMMA LoadSafe == ASSUME InheritHyp, InheritInv, Inh!Load PROVE InheritInv'
<1>1. UNCHANGED <<umbrella, member>> /\ umbrella \in Inh!Files /\ member \in Inh!Files
  BY DEF Inh!Load, InheritInv
<1>2. SUFFICES ASSUME Inh!Inherited' PROVE Inh!MemberNeverLoosens'
  BY <1>1 DEF InheritInv, Inh!MemberNeverLoosens
<1>3. umbrella.file = "whole" /\ loaded' = Inh!Merged /\ ~Inh!MergeRefused
  BY <1>1, <1>2 DEF Inh!Inherited, Inh!Load, Inh!Merged, Inh!Files
<1>4. /\ loaded'.human_only = Inh!Accumulated /\ loaded'.spend_ceiling = Inh!Ceiling
      /\ loaded'.min_core = Inh!Floor
  BY <1>2, <1>3 DEF Inh!Inherited, Inh!Merged
<1>5. Inh!Listed(umbrella) \subseteq loaded'.human_only
  BY <1>4 DEF Inh!Accumulated
<1>6. Inh!Theirs("spend_ceiling") \in Amounts =>
         loaded'.spend_ceiling \in Amounts /\ loaded'.spend_ceiling <= Inh!Theirs("spend_ceiling")
  BY <1>1, <1>3, <1>4, CeilingBinds
<1>7. umbrella.min_core \in Releases =>
         loaded'.min_core \in Releases /\ loaded'.min_core >= umbrella.min_core
  BY <1>1, <1>3, <1>4, FloorBinds
<1>8. Inh!Theirs("spend_ceiling")' = Inh!Theirs("spend_ceiling") /\
      Inh!Listed(umbrella)' = Inh!Listed(umbrella)
  BY <1>1 DEF Inh!Theirs, Inh!Listed, Inh!Get, Inh!IsTable, Inh!Table
<1>9. QED
  BY <1>1, <1>5, <1>6, <1>7, <1>8 DEF Inh!MemberNeverLoosens

(* A member that loads below an umbrella is bound by every rule of the     *)
(* umbrella's, by no higher ceiling and no lower floor (inherit.py merge), *)
(* whatever the two files hold.                                            *)
THEOREM MemberNeverLoosensHolds == InheritHyp => (Inh!InheritSpec => []Inh!MemberNeverLoosens)
<1> SUFFICES ASSUME InheritHyp PROVE Inh!InheritSpec => []Inh!MemberNeverLoosens
  OBVIOUS
<1>1. Inh!InheritInit => InheritInv
  BY DEF Inh!InheritInit, InheritInv, Inh!MemberNeverLoosens, Inh!Inherited
<1>2. InheritInv /\ [Inh!InheritNext]_Inh!inheritVars => InheritInv'
  <2>1. InheritInv /\ UNCHANGED Inh!inheritVars => InheritInv'
    BY DEF Inh!inheritVars, InheritInv, Inh!MemberNeverLoosens, Inh!Inherited, Inh!Theirs,
           Inh!Listed, Inh!Get, Inh!IsTable, Inh!Table
  <2>2. QED
    BY <2>1, LoadSafe DEF Inh!InheritNext
<1>3. InheritInv => Inh!MemberNeverLoosens
  BY DEF InheritInv
<1>4. QED
  BY <1>1, <1>2, <1>3, PTL DEF Inh!InheritSpec

(* What a member loads is its umbrella's rules with its own, or a refusal  *)
(* (inherit.py merge).                                                     *)
THEOREM InheritTypes == Inh!InheritSpec => []Inh!InheritTypeOK
<1>1. Inh!InheritInit => Inh!InheritTypeOK
  BY DEF Inh!InheritInit, Inh!InheritTypeOK
<1>2. ASSUME Inh!InheritTypeOK, [Inh!InheritNext]_Inh!inheritVars
      PROVE  Inh!InheritTypeOK'
  <2>1. CASE UNCHANGED Inh!inheritVars
    BY <1>2, <2>1 DEF Inh!inheritVars, Inh!InheritTypeOK
  <2>2. CASE Inh!Load
    <3>1. \A side : Inh!Listed(side) \subseteq UNION RuleLists
      BY DEF Inh!Listed
    <3>2. umbrella' = umbrella /\ member' = member /\ umbrella \in Inh!Files /\ member \in Inh!Files
      BY <1>2, <2>2 DEF Inh!Load, Inh!InheritTypeOK
    <3>3. umbrella.file \in {"whole", "garbled", "unknown"}
      BY <3>2 DEF Inh!Files
    <3>4. loaded' \in {TurnedDown, Inh!Merged, Inh!Alone}
      BY <2>2, <3>3 DEF Inh!Load
    <3>5. Inh!Merged # TurnedDown => Inh!Merged.human_only \subseteq UNION RuleLists
      BY <3>1 DEF Inh!Merged, Inh!Accumulated
    <3>6. Inh!Alone # TurnedDown => Inh!Alone.human_only \subseteq UNION RuleLists
      BY <3>1 DEF Inh!Alone
    <3>7. QED
      BY <3>2, <3>4, <3>5, <3>6 DEF Inh!InheritTypeOK
  <2>3. QED
    BY <1>2, <2>1, <2>2 DEF Inh!InheritNext
<1>3. QED
  BY <1>1, <1>2, PTL DEF Inh!InheritSpec

-----------------------------------------------------------------------------
(* Ranking: what is filtered out stays out, however the rest is reordered.  *)

(* What the hard filters leave.                                            *)
Pickable ==
    {e \in Candidates :
        /\ status[e] = "queued"
        /\ \A c \in Rank!Closed : (status[c] = "refuted" /\ reach[c] = "mechanism"
                                    /\ (c \in scoped => Context[c] = Context[e]))
                                      => MechanismsOf[c] \cap MechanismsOf[e] = {}}

(* Nothing is picked that was not ranked, and nothing was ranked that is   *)
(* filtered out.                                                           *)
RankingInv ==
    /\ ranking = Unranked \/ fanOut = 0 => shortlist = <<>>
    /\ ranking # Unranked => ranking \in Seq(Pickable)
    /\ Rank!SeqSet(shortlist) \subseteq Pickable

(* A listing of S is a sequence of members of S.                           *)
LEMMA ListsList ==
  ASSUME NEW S, S \subseteq Candidates, RankingHyp, NEW f \in [1..Rank!Cardinality(S) -> S]
  PROVE  f \in Seq(S)
<1>1. Rank!Cardinality(S) = Cardinality(S)
  BY DEF Rank!Cardinality, Cardinality
<1>2. Cardinality(S) \in Nat
  BY FS_CardinalityType, FS_Subset DEF RankingHyp
<1>3. QED
  BY <1>1, <1>2

LEMMA FilteredIsPickable ==
  ASSUME NEW e \in Candidates, ~Rank!Excluded(e)
  PROVE  e \in Pickable
<1>1. status[e] = "queued"
  BY DEF Rank!Excluded
<1>2. ASSUME NEW c \in Rank!Closed, status[c] = "refuted", reach[c] = "mechanism",
             c \in scoped => Context[c] = Context[e],
             NEW tag \in MechanismsOf[c] \cap MechanismsOf[e]
      PROVE  FALSE
  <2>1. c \in Rank!Refutations(tag, e, "mechanism")
    BY <1>2 DEF Rank!Refutations, Rank!AppliesTo
  <2>2. QED
    BY <2>1 DEF Rank!Excluded
<1>3. QED
  BY <1>1, <1>2 DEF Pickable

(* The board stands still while a ranking is in hand.                      *)
LEMMA PickableKept == Rank!KeepBoard => Pickable' = Pickable
BY DEF Rank!KeepBoard, Pickable, Rank!Closed, Rank!Terminal

LEMMA RankedIsPickable ==
  ASSUME RankingInv, ranking # Unranked
  PROVE  /\ ranking \in Seq(Pickable)
         /\ Rank!SeqSet(ranking) \subseteq Pickable /\ Pickable \subseteq Candidates
BY DEF RankingInv, Rank!SeqSet, Pickable

LEMMA VetoKeepsRanked ==
  ASSUME RankingHyp, RankingInv, ranking # Unranked, NEW e \in Rank!SeqSet(ranking),
         NEW r \in Rank!Promoted(e) \union Rank!Demoted(e)
  PROVE  r \in Seq(Pickable)
<1>1. PICK rest \in Rank!Without(e) : r = <<e>> \o rest \/ r = Append(rest, e)
  BY DEF Rank!Promoted, Rank!Demoted
<1>2. Rank!SeqSet(ranking) \ {e} \subseteq Candidates
  BY RankedIsPickable
<1>3. rest \in Seq(Rank!SeqSet(ranking) \ {e})
  BY <1>2, ListsList DEF Rank!Without, Rank!Lists
<1>4. rest \in Seq(Pickable) /\ <<e>> \in Seq(Pickable) /\ e \in Pickable
  BY <1>3, RankedIsPickable
<1>5. <<e>> \o rest \in Seq(Pickable)
  BY <1>4, ConcatProperties
<1>6. Append(rest, e) \in Seq(Pickable)
  BY <1>4, AppendProperties
<1>7. QED
  BY <1>1, <1>5, <1>6

LEMMA CutIsRanked ==
  ASSUME RankingHyp, RankingInv, ranking # Unranked, NEW k \in FanOuts, NEW picks \in Rank!Cut(k)
  PROVE  Rank!SeqSet(picks) \subseteq Pickable
<1>1. CASE picks = SubSeq(ranking, 1, Rank!Least(k, Len(ranking)))
  <2>1. ranking \in Seq(Pickable) /\ Len(ranking) \in Nat
    BY RankedIsPickable
  <2>2. Rank!Least(k, Len(ranking)) \in 0..Len(ranking)
    BY <2>1 DEF Rank!Least, RankingHyp
  <2>3. QED
    BY <1>1, <2>1, <2>2 DEF Rank!SeqSet
<1>2. ASSUME NEW S, S \subseteq Rank!SeqSet(ranking), picks \in [1..Rank!Cardinality(S) -> S]
      PROVE  Rank!SeqSet(picks) \subseteq Pickable
  <2>1. S \subseteq Candidates /\ S \subseteq Pickable
    BY <1>2, RankedIsPickable
  <2>2. QED
    BY <1>2, <2>1 DEF Rank!SeqSet
<1>3. ASSUME NEW S, S \subseteq Rank!SeqSet(ranking), NEW n
      PROVE  Rank!First(S, n) \subseteq Rank!SeqSet(ranking)
  BY <1>3 DEF Rank!First
<1>4. QED
  <2> DEFINE novel == {e \in Rank!SeqSet(ranking) : Rank!Novel(e)}
             old == Rank!SeqSet(ranking) \ novel
             o == Rank!Least(k - Rank!Least((k * Risk + 5) \div 10, Rank!Cardinality(novel)),
                             Rank!Cardinality(old))
             S == Rank!First(novel, k - o) \union Rank!First(old, o)
  <2>1. S \subseteq Rank!SeqSet(ranking)
    <3>1. novel \subseteq Rank!SeqSet(ranking) /\ old \subseteq Rank!SeqSet(ranking)
      OBVIOUS
    <3>2. QED
      BY <3>1, <1>3
  <2>2. \/ picks = SubSeq(ranking, 1, Rank!Least(k, Len(ranking)))
        \/ picks \in [1..Rank!Cardinality(S) -> S]
    BY DEF Rank!Cut, Rank!Lists
  <2>3. QED
    BY <1>1, <1>2, <2>1, <2>2

LEMMA RankingStep ==
  ASSUME RankingHyp, RankingInv, [Rank!RankingNext]_Rank!rankingVars
  PROVE  RankingInv'
<1>1. ASSUME NEW e \in Candidates,
             Rank!Hold(e) \/ Rank!Close(e) \/ Rank!Relabel(e) \/ Rank!Reprice(e)
      PROVE  RankingInv'
  <2>1. ranking = Unranked /\ UNCHANGED <<ranking, shortlist>>
    BY <1>1 DEF Rank!Hold, Rank!Close, Rank!Relabel, Rank!Reprice, Rank!KeepRanking
  <2>2. shortlist' = <<>> /\ ranking' = Unranked
    BY <2>1 DEF RankingInv
  <2>3. QED
    BY <2>2 DEF RankingInv, Rank!SeqSet
<1>2. ASSUME ranking' \in Seq(Pickable), shortlist' = <<>>, Rank!KeepBoard
      PROVE  RankingInv'
  <2>1. Pickable' = Pickable
    BY <1>2, PickableKept
  <2>2. Rank!SeqSet(shortlist)' = {}
    BY <1>2 DEF Rank!SeqSet
  <2>3. QED
    BY <1>2, <2>1, <2>2 DEF RankingInv
<1>3. CASE Rank!Rank
  <2> PICK S : S = {e \in Candidates : ~Rank!Excluded(e)}
    OBVIOUS
  <2>1. ranking' \in [1..Rank!Cardinality(S) -> S] /\ S \subseteq Candidates
    BY <1>3 DEF Rank!Rank, Rank!Lists
  <2>2. S \subseteq Pickable
    BY FilteredIsPickable
  <2>3. ranking' \in Seq(Pickable)
    BY <2>1, <2>2, ListsList
  <2>4. shortlist' = <<>> /\ Rank!KeepBoard
    BY <1>3 DEF RankingInv, Rank!Rank
  <2>5. QED
    BY <1>2, <2>3, <2>4
<1>4. CASE Rank!SeamRank
  <2>1. /\ ranking' \in [DOMAIN ranking -> Rank!SeqSet(ranking)] \/ ranking' = <<>>
        /\ ranking # Unranked /\ shortlist' = <<>> /\ Rank!KeepBoard
    BY <1>4 DEF RankingInv, Rank!SeamRank
  <2>2. ranking' \in Seq(Pickable)
    <3>1. Len(ranking) \in Nat /\ DOMAIN ranking = 1..Len(ranking)
      BY <2>1, RankedIsPickable
    <3>2. CASE ranking' = <<>>
      BY <3>2
    <3>3. CASE ranking' \in [1..Len(ranking) -> Rank!SeqSet(ranking)]
      <4>1. ranking' \in [1..Len(ranking) -> Pickable]
        BY <2>1, <3>3, RankedIsPickable
      <4>2. QED
        BY <3>1, <4>1
    <3>4. QED
      BY <2>1, <3>1, <3>2, <3>3
  <2>3. QED
    BY <1>2, <2>1, <2>2
<1>5. CASE Rank!Veto
  <2>1. ranking' \in Seq(Pickable)
    BY <1>5, VetoKeepsRanked DEF Rank!Veto
  <2>2. QED
    BY <1>2, <1>5, <2>1 DEF RankingInv, Rank!Veto
<1>6. CASE Rank!Shortlist
  <2>1. PICK k \in FanOuts : fanOut' = k /\ shortlist' \in Rank!Cut(k)
    BY <1>6 DEF Rank!Shortlist
  <2>2. Rank!SeqSet(shortlist') \subseteq Pickable /\ fanOut' # 0
    BY <1>6, <2>1, CutIsRanked DEF Rank!Shortlist, RankingHyp
  <2>3. Pickable' = Pickable /\ ranking' = ranking /\ ranking # Unranked
    BY <1>6, PickableKept DEF Rank!Shortlist
  <2>4. QED
    BY <2>2, <2>3 DEF RankingInv, Rank!SeqSet
<1>7. CASE UNCHANGED Rank!rankingVars
  <2>1. UNCHANGED <<ranking, fanOut, shortlist>> /\ Pickable' = Pickable
    BY <1>7, PickableKept DEF Rank!rankingVars, Rank!KeepBoard
  <2>2. QED
    BY <2>1 DEF RankingInv, Rank!SeqSet
<1>8. QED
  BY <1>1, <1>3, <1>4, <1>5, <1>6, <1>7 DEF Rank!RankingNext

(* Whatever the closures, the relabels, the domain's own scores and the    *)
(* judge's vetoes were, a pick is open work that no refuted mechanism bears*)
(* on (rank.py rank, apply_veto, Ranking.shortlist).                       *)
THEOREM NoDeadWorkHolds == RankingHyp => (Rank!RankingSpec => []Rank!NoDeadWork)
<1> SUFFICES ASSUME RankingHyp PROVE Rank!RankingSpec => []Rank!NoDeadWork
  OBVIOUS
<1>1. Rank!RankingInit => RankingInv
  <2>1. Rank!RankingInit => ranking = Unranked /\ shortlist = <<>>
    BY DEF Rank!RankingInit
  <2>2. shortlist = <<>> => Rank!SeqSet(shortlist) = {}
    BY DEF Rank!SeqSet
  <2>3. QED
    BY <2>1, <2>2 DEF RankingInv
<1>2. RankingInv /\ [Rank!RankingNext]_Rank!rankingVars => RankingInv'
  BY RankingStep
<1>3. RankingInv => Rank!NoDeadWork
  BY DEF RankingInv, Pickable, Rank!NoDeadWork, Rank!SeqSet
<1>4. QED
  BY <1>1, <1>2, <1>3, PTL DEF Rank!RankingSpec

(* However picks are filed, vetoed and counted, the ranking is of the     *)
(* candidates and the shortlist drawn from it (rank.py).                   *)
THEOREM RankingTypes ==
  RankingHyp /\ RankingBounds => (Rank!RankingSpec => []Rank!RankingTypeOK)
<1> SUFFICES ASSUME RankingHyp, RankingBounds
             PROVE  Rank!RankingSpec => []Rank!RankingTypeOK
  OBVIOUS
<1> DEFINE Inv == RankingInv /\ Rank!RankingTypeOK
<1>1. Rank!RankingInit => Inv
  <2> SUFFICES ASSUME Rank!RankingInit PROVE Inv
    OBVIOUS
  <2>1. Rank!SeqSet(<<>>) = {}
    BY DEF Rank!SeqSet
  <2>2. QED
    BY <2>1 DEF Rank!RankingInit, RankingInv, Rank!RankingTypeOK, RankingBounds
<1>2. Inv /\ [Rank!RankingNext]_Rank!rankingVars => Inv'
  <2> SUFFICES ASSUME Inv, [Rank!RankingNext]_Rank!rankingVars PROVE Rank!RankingTypeOK'
    BY RankingStep
  <2>1. ASSUME NEW e \in Candidates,
               Rank!Hold(e) \/ Rank!Close(e) \/ Rank!Relabel(e) \/ Rank!Reprice(e)
        PROVE  Rank!RankingTypeOK'
    BY <2>1
       DEF Rank!Hold, Rank!Close, Rank!Relabel, Rank!Reprice, Rank!KeepRanking, Rank!Event,
           Rank!RankingTypeOK, Rank!Terminal, RankingBounds
  <2>2. ASSUME Rank!KeepBoard, UNCHANGED shortlist, x10' \in 0..MaxVetoes, UNCHANGED fanOut,
               ranking' = Unranked \/ ranking' \in Seq(Pickable')
        PROVE  Rank!RankingTypeOK'
    <3>1. ranking' \in Seq(Pickable') => \A i \in DOMAIN ranking' : ranking'[i] \in Candidates
      BY DEF Pickable
    <3>2. QED
      BY <2>2, <3>1 DEF Rank!RankingTypeOK, Rank!KeepBoard, Rank!Terminal
  <2>3. CASE Rank!Rank \/ Rank!SeamRank \/ Rank!Veto \/ UNCHANGED Rank!rankingVars
    <3>1. RankingInv'
      BY RankingStep
    <3>2. Rank!KeepBoard /\ UNCHANGED <<shortlist, fanOut>>
      BY <2>3 DEF Rank!Rank, Rank!SeamRank, Rank!Veto, Rank!rankingVars, Rank!KeepBoard
    <3>3. x10' \in 0..MaxVetoes
      BY <2>3
         DEF Rank!Rank, Rank!SeamRank, Rank!Veto, Rank!rankingVars, Rank!RankingTypeOK,
             RankingBounds
    <3>4. QED
      BY <2>2, <3>1, <3>2, <3>3 DEF RankingInv
  <2>4. CASE Rank!Shortlist
    <3>1. PICK k \in FanOuts : fanOut' = k /\ shortlist' \in Rank!Cut(k)
      BY <2>4 DEF Rank!Shortlist
    <3>2. Rank!SeqSet(shortlist') \subseteq Candidates
      BY <2>4, <3>1, CutIsRanked DEF Rank!Shortlist, Pickable
    <3>3. Rank!KeepBoard /\ UNCHANGED <<ranking, x10>>
      BY <2>4 DEF Rank!Shortlist
    <3>4. QED
      BY <3>1, <3>2, <3>3 DEF Rank!RankingTypeOK, Rank!KeepBoard, Rank!SeqSet, Rank!Terminal
  <2>5. QED
    BY <2>1, <2>3, <2>4 DEF Rank!RankingNext
<1>3. Inv => Rank!RankingTypeOK
  OBVIOUS
<1> HIDE DEF Inv
<1>4. QED
  BY <1>1, <1>2, <1>3, PTL DEF Rank!RankingSpec

-----------------------------------------------------------------------------
(* On the row MCToolkit runs: the subject is chosen once, and a behaviour  *)
(* of the group is then one of that component.                             *)

LEMMA RankingChosen ==
  DecisionsSpec => \/ [](~(subject = "ranking"))
                   \/ [](subject = "ranking") /\ Rank!RankingSpec
<1>1. DecisionsInit /\ subject = "ranking" => Rank!RankingInit
  BY DEF DecisionsInit
<1>2. subject = "ranking" /\ [DecisionsNext]_vars =>
          (subject = "ranking")' /\ [Rank!RankingNext]_Rank!rankingVars
  BY DEF DecisionsNext, Rest12, vars, pool, Rank!rankingVars
<1>3. ~(subject = "ranking") /\ [DecisionsNext]_vars => (~(subject = "ranking"))'
  BY DEF DecisionsNext, vars, Rest2, Rest3, Rest7, Rest8, Rest9, Rest12
<1>4. QED
  BY <1>1, <1>2, <1>3, PTL DEF DecisionsSpec, Rank!RankingSpec

LEMMA FrontierChosen ==
  DecisionsSpec => \/ [](~(subject = "frontier"))
                   \/ [](subject = "frontier") /\ Fron!FrontierSpec
<1>1. DecisionsInit /\ subject = "frontier" => Fron!FrontierInit
  BY DEF DecisionsInit
<1>2. subject = "frontier" /\ [DecisionsNext]_vars =>
          (subject = "frontier")' /\ [Fron!FrontierNext]_Fron!frontierVars
  BY DEF DecisionsNext, Rest9, vars, pool, Fron!frontierVars
<1>3. ~(subject = "frontier") /\ [DecisionsNext]_vars => (~(subject = "frontier"))'
  BY DEF DecisionsNext, vars, Rest2, Rest3, Rest7, Rest8, Rest9, Rest12
<1>4. QED
  BY <1>1, <1>2, <1>3, PTL DEF DecisionsSpec, Fron!FrontierSpec

LEMMA EscalationChosen ==
  DecisionsSpec => \/ [](~(subject = "escalation"))
                   \/ [](subject = "escalation") /\ Esc!EscalationSpec
<1>1. DecisionsInit /\ subject = "escalation" => Esc!EscalationInit
  BY DEF DecisionsInit
<1>2. subject = "escalation" /\ [DecisionsNext]_vars =>
          (subject = "escalation")' /\ [Esc!EscalationNext]_Esc!escalationVars
  BY DEF DecisionsNext, Rest2, vars, pool, Esc!escalationVars
<1>3. ~(subject = "escalation") /\ [DecisionsNext]_vars => (~(subject = "escalation"))'
  BY DEF DecisionsNext, vars, Rest2, Rest3, Rest7, Rest8, Rest9, Rest12
<1>4. QED
  BY <1>1, <1>2, <1>3, PTL DEF DecisionsSpec, Esc!EscalationSpec

LEMMA BoardChosen ==
  DecisionsSpec => \/ [](~(subject = "leaderboard"))
                   \/ [](subject = "leaderboard") /\ Board!BoardSpec
<1>1. DecisionsInit /\ subject = "leaderboard" => Board!BoardInit
  BY DEF DecisionsInit
<1>2. subject = "leaderboard" /\ [DecisionsNext]_vars =>
          (subject = "leaderboard")' /\ [Board!BoardNext]_Board!boardVars
  BY DEF DecisionsNext, Rest7, vars, pool, Board!boardVars
<1>3. ~(subject = "leaderboard") /\ [DecisionsNext]_vars => (~(subject = "leaderboard"))'
  BY DEF DecisionsNext, vars, Rest2, Rest3, Rest7, Rest8, Rest9, Rest12
<1>4. QED
  BY <1>1, <1>2, <1>3, PTL DEF DecisionsSpec, Board!BoardSpec

LEMMA UpgradeChosen ==
  DecisionsSpec => \/ [](~(subject = "upgrade"))
                   \/ [](subject = "upgrade") /\ Upgr!UpgradeSpec
<1>1. DecisionsInit /\ subject = "upgrade" => Upgr!UpgradeInit
  BY DEF DecisionsInit
<1>2. subject = "upgrade" /\ [DecisionsNext]_vars =>
          (subject = "upgrade")' /\ [Upgr!UpgradeNext]_Upgr!upgradeVars
  BY DEF DecisionsNext, Rest8, vars, pool, Upgr!upgradeVars
<1>3. ~(subject = "upgrade") /\ [DecisionsNext]_vars => (~(subject = "upgrade"))'
  BY DEF DecisionsNext, vars, Rest2, Rest3, Rest7, Rest8, Rest9, Rest12
<1>4. QED
  BY <1>1, <1>2, <1>3, PTL DEF DecisionsSpec, Upgr!UpgradeSpec

LEMMA SpendingChosen ==
  DecisionsSpec => \/ [](~(subject = "spending"))
                   \/ [](subject = "spending") /\ Spend!SpendingSpec
<1>1. DecisionsInit /\ subject = "spending" => Spend!SpendingInit
  BY DEF DecisionsInit
<1>2. subject = "spending" /\ [DecisionsNext]_vars =>
          (subject = "spending")' /\ [Spend!SpendingNext]_Spend!spendingVars
  BY DEF DecisionsNext, Rest8, vars, pool, Spend!spendingVars
<1>3. ~(subject = "spending") /\ [DecisionsNext]_vars => (~(subject = "spending"))'
  BY DEF DecisionsNext, vars, Rest2, Rest3, Rest7, Rest8, Rest9, Rest12
<1>4. QED
  BY <1>1, <1>2, <1>3, PTL DEF DecisionsSpec, Spend!SpendingSpec

LEMMA InheritChosen ==
  DecisionsSpec => \/ [](~(subject = "inherit"))
                   \/ [](subject = "inherit") /\ Inh!InheritSpec
<1>1. DecisionsInit /\ subject = "inherit" => Inh!InheritInit
  BY DEF DecisionsInit
<1>2. subject = "inherit" /\ [DecisionsNext]_vars =>
          (subject = "inherit")' /\ [Inh!InheritNext]_Inh!inheritVars
  BY DEF DecisionsNext, Rest3, vars, pool, Inh!inheritVars
<1>3. ~(subject = "inherit") /\ [DecisionsNext]_vars => (~(subject = "inherit"))'
  BY DEF DecisionsNext, vars, Rest2, Rest3, Rest7, Rest8, Rest9, Rest12
<1>4. QED
  BY <1>1, <1>2, <1>3, PTL DEF DecisionsSpec, Inh!InheritSpec

(* No pick is work the record already decided (rank.py rank, apply_veto).  *)
THEOREM ToolkitNoDeadWork == DecisionsSpec => []NoDeadWork
<1>1. RankingHyp
  BY DecisionsAssumption
<1>2. ~(subject = "ranking") \/ Rank!NoDeadWork => NoDeadWork
  BY DEF NoDeadWork
<1>3. QED
  BY <1>1, <1>2, RankingChosen, NoDeadWorkHolds, PTL

(* The loop stops on a win that was checked (budget.py should_stop).       *)
THEOREM ToolkitWinsBacked == DecisionsSpec => []WinsBacked
<1>1. FrontierHyp
  BY DecisionsAssumption
<1>2. ~(subject = "frontier") \/ Fron!WinsBacked => WinsBacked
  BY DEF WinsBacked
<1>3. QED
  BY <1>1, <1>2, FrontierChosen, WinsBackedHolds, PTL

(* Held-out answers are counted, per candidate and epoch (holdout.py).     *)
THEOREM ToolkitPeeksMetered == DecisionsSpec => []PeeksMetered
<1>1. FrontierHyp /\ MaxEpoch \in Nat
  BY DecisionsAssumption DEF BoundsHyp
<1>2. ~(subject = "frontier") \/ Fron!PeeksMetered => PeeksMetered
  BY DEF PeeksMetered
<1>3. QED
  BY <1>1, <1>2, FrontierChosen, PeeksMeteredHolds, PTL

(* A result two sources measured is not held back (noise.py admit).        *)
THEOREM ToolkitReproducedStands == DecisionsSpec => []ReproducedStands
<1>1. FrontierHyp
  BY DecisionsAssumption
<1>2. ~(subject = "frontier") \/ Fron!ReproducedStands => ReproducedStands
  BY DEF ReproducedStands
<1>3. QED
  BY <1>1, <1>2, FrontierChosen, ReproducedStandsHolds, PTL

(* What is rented fits, and is the cheapest that does (escalate.py).       *)
THEOREM ToolkitRentsTheCheapest == DecisionsSpec => []RentsTheCheapestThatPays
<1>1. EscalationHyp
  BY DecisionsAssumption
<1>2. ~(subject = "escalation") \/ Esc!RentsTheCheapestThatPays => RentsTheCheapestThatPays
  BY DEF RentsTheCheapestThatPays
<1>3. QED
  BY <1>1, <1>2, EscalationChosen, RentsTheCheapestHolds, PTL

(* The target is the declared page's, or says why not (goal.py Target).    *)
THEOREM ToolkitTargetFollows == DecisionsSpec => []TargetFollowsBoard
<1>1. BoardHyp
  BY DecisionsAssumption
<1>2. ~(subject = "leaderboard") \/ Board!TargetFollowsBoard => TargetFollowsBoard
  BY DEF TargetFollowsBoard
<1>3. QED
  BY <1>1, <1>2, BoardChosen, TargetFollowsBoardHolds, PTL

(* An update leaves a core that works and says what it did (upstream.py).  *)
THEOREM ToolkitUpgradeSafe == DecisionsSpec => []UpgradeSafe
<1>1. UpgradeHyp
  BY DecisionsAssumption
<1>2. ~(subject = "upgrade") \/ Upgr!UpgradeSafe => UpgradeSafe
  BY DEF UpgradeSafe
<1>3. QED
  BY <1>1, <1>2, UpgradeChosen, UpgradeSafeHolds, PTL

(* No more is paid than the ceiling and the asks under way (brain.py), and *)
(* a member is bound by its umbrella (inherit.py merge).                   *)
THEOREM ToolkitCeilingHolds == DecisionsSpec => []CeilingHolds
<1>1. SpendingHyp /\ InheritHyp
  BY DecisionsAssumption
<1>2. /\ ~(subject = "spending") \/ Spend!CeilingHolds
      /\ ~(subject = "inherit") \/ Inh!MemberNeverLoosens
      => CeilingHolds
  BY DEF CeilingHolds
<1>3. QED
  BY <1>1, <1>2, SpendingChosen, CeilingHoldsAlways, InheritChosen, MemberNeverLoosensHolds, PTL

(* Every variable of the component at hand has its type.                   *)
THEOREM ToolkitDecisionTypes == DecisionsSpec => []DecisionsTypeOK
<1>1. /\ RankingHyp /\ RankingBounds /\ FrontierHyp /\ MaxEpoch \in Nat /\ EscalationHyp
      /\ BoardHyp /\ MaxMoves \in Nat /\ UpgradeHyp /\ UpgradeBounds
      /\ SpendingHyp /\ MaxAsks \in Nat
  BY DecisionsAssumption DEF BoundsHyp
<1>2. /\ ~(subject = "ranking") \/ Rank!RankingTypeOK
      /\ ~(subject = "frontier") \/ Fron!FrontierTypeOK
      /\ ~(subject = "escalation") \/ Esc!EscalationTypeOK
      /\ ~(subject = "leaderboard") \/ Board!BoardTypeOK
      /\ ~(subject = "upgrade") \/ Upgr!UpgradeTypeOK
      /\ ~(subject = "spending") \/ Spend!SpendingTypeOK
      /\ ~(subject = "inherit") \/ Inh!InheritTypeOK
      => DecisionsTypeOK
  BY DEF DecisionsTypeOK
<1>3. QED
  BY <1>1, <1>2, RankingChosen, RankingTypes, FrontierChosen, FrontierTypes,
     EscalationChosen, EscalationTypes, BoardChosen, BoardTypes, UpgradeChosen, UpgradeTypes,
     SpendingChosen, SpendingTypes, InheritChosen, InheritTypes, PTL
=============================================================================
