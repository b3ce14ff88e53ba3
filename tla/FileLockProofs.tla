--------------------------- MODULE FileLockProofs ---------------------------
(* Proofs about FileLock: for any number of callers and any timing that    *)
(* satisfies TimingAssumption, the lock excludes until a caller dies.      *)
EXTENDS FileLock, TLAPS

(* Whatever the callers do, the lock file is absent or names its owner and *)
(* its age, and no counter leaves its range (claims.py Lock).              *)
THEOREM TypeCorrect == Spec => []TypeOK
<1> USE FileLockAssumption
<1>1. Init => TypeOK
  BY DEF Init, TypeOK, Phase
<1>2. TypeOK /\ [Next]_vars => TypeOK'
  <2> SUFFICES ASSUME TypeOK, [Next]_vars PROVE TypeOK'
    OBVIOUS
  <2> USE DEF TypeOK, Phase, LockFile, Goto
  <2>1. ASSUME NEW p \in Procs, Begin(p) PROVE TypeOK'
    BY <2>1 DEF Begin
  <2>2. ASSUME NEW p \in Procs, Create(p) PROVE TypeOK'
    BY <2>2 DEF Create
  <2>3. ASSUME NEW p \in Procs, WritePayload(p) PROVE TypeOK'
    BY <2>3 DEF WritePayload
  <2>4. ASSUME NEW p \in Procs, FindStale(p) PROVE TypeOK'
    BY <2>4 DEF FindStale
  <2>5. ASSUME NEW p \in Procs, Steal(p) PROVE TypeOK'
    BY <2>5 DEF Steal
  <2>6. ASSUME NEW p \in Procs, GiveUp(p) PROVE TypeOK'
    BY <2>6 DEF GiveUp
  <2>7. ASSUME NEW p \in Procs, Release(p) PROVE TypeOK'
    BY <2>7 DEF Release
  <2>8. ASSUME NEW p \in Procs, Unlink(p) PROVE TypeOK'
    BY <2>8 DEF Unlink
  <2>9. ASSUME NEW p \in Procs, Crash(p) PROVE TypeOK'
    BY <2>9 DEF Crash
  <2>10. CASE Tick
    BY <2>10 DEF Tick
  <2>11. CASE UNCHANGED vars
    BY <2>11 DEF vars
  <2>12. QED
    BY <2>1, <2>2, <2>3, <2>4, <2>5, <2>6, <2>7, <2>8, <2>9, <2>10, <2>11 DEF Next, Step
<1>3. QED
  BY <1>1, <1>2, PTL DEF Spec

(* The file at the path belongs to a live holder, and its age is explained *)
(* by that holder's wait and work: hence it is never stale.                *)
Explained ==
    file # NoFile =>
        /\ Holding(file.owner)
        /\ file.age <= Timeout + held[file.owner]

IInv ==
    crashes = 0 =>
        /\ \A p \in Procs : pc[p] \notin {"dead", "stealing"}
        /\ \A p \in Procs : pc[p] = "trying" => waited[p] <= Timeout
        /\ \A p \in Procs : Holding(p) => /\ file # NoFile
                                          /\ file.owner = p
                                          /\ held[p] <= MaxHold
        /\ Explained

LEMMA LockFileExists ==
  ASSUME NEW f \in LockFile PROVE f # NoFile
BY FileLockAssumption DEF LockFile

LEMMA NeverStale ==
  ASSUME TypeOK, IInv, crashes = 0 PROVE ~Stale
BY FileLockAssumption, TimingAssumption
   DEF TypeOK, IInv, Explained, Stale, Readable, LockFile, Holding

LEMMA InvInductive == TypeOK /\ IInv /\ [Next]_vars => IInv'
<1> USE FileLockAssumption
<1> SUFFICES ASSUME TypeOK, IInv, [Next]_vars, crashes' = 0 PROVE IInv'
  BY DEF IInv
<1>0. crashes = 0
  BY DEF TypeOK, Next, Step, Begin, Create, WritePayload, FindStale, Steal, GiveUp,
         Release, Unlink, Crash, Tick, vars
<1> USE <1>0 DEF TypeOK, IInv, Explained, Holding, LockFile, Phase, Goto
<1>1. ASSUME NEW p \in Procs, Begin(p) PROVE IInv'
  BY <1>1 DEF Begin
<1>2. ASSUME NEW p \in Procs, Create(p) PROVE IInv'
  <2> USE <1>2 DEF Create
  <2>1. file' \in LockFile /\ file' # NoFile /\ file'.owner = p /\ file'.age = waited[p]
    <3>1. file' = [owner |-> p, written |-> FALSE, age |-> waited[p]]
      OBVIOUS
    <3>2. file' \in LockFile
      BY <3>1
    <3>3. file' # NoFile
      BY <3>2, LockFileExists
    <3>4. file'.owner = p /\ file'.age = waited[p]
      BY <3>1
    <3>5. QED
      BY <3>2, <3>3, <3>4
  <2>2. \A q \in Procs : ~Holding(q)
    OBVIOUS
  <2>3. Holding(p)' /\ \A q \in Procs : Holding(q)' => q = p
    BY <2>2
  <2>4. held'[p] = 0 /\ waited[p] <= Timeout
    OBVIOUS
  <2>5. Explained'
    BY <2>1, <2>3, <2>4
  <2>6. QED
    BY <2>1, <2>3, <2>4, <2>5
<1>3. ASSUME NEW p \in Procs, WritePayload(p) PROVE IInv'
  BY <1>3 DEF WritePayload
<1>4. ASSUME NEW p \in Procs, FindStale(p) PROVE IInv'
  BY <1>4, NeverStale DEF FindStale
<1>5. ASSUME NEW p \in Procs, Steal(p) PROVE IInv'
  BY <1>5 DEF Steal
<1>6. ASSUME NEW p \in Procs, GiveUp(p) PROVE IInv'
  BY <1>6 DEF GiveUp
<1>7. ASSUME NEW p \in Procs, Release(p) PROVE IInv'
  BY <1>7 DEF Release, Readable
<1>8. ASSUME NEW p \in Procs, Unlink(p) PROVE IInv'
  BY <1>8 DEF Unlink
<1>9. ASSUME NEW p \in Procs, Crash(p) PROVE IInv'
  BY <1>9 DEF Crash
<1>10. CASE Tick
  BY <1>10 DEF Tick, Acquiring
<1>11. CASE UNCHANGED vars
  BY <1>11 DEF vars
<1>12. QED
  BY <1>1, <1>2, <1>3, <1>4, <1>5, <1>6, <1>7, <1>8, <1>9, <1>10, <1>11 DEF Next, Step

LEMMA InvHolds == Spec => [](TypeOK /\ IInv)
<1>1. Init => IInv
  BY DEF Init, IInv, Explained, Holding
<1>2. QED
  BY <1>1, TypeCorrect, InvInductive, PTL DEF Spec

(* Until a caller dies, at most one caller is between acquire() and the end*)
(* of release(), for any number of callers and names.                      *)
THEOREM ExclusionHolds == Spec => []ExcludesBeforeCrash
<1>1. IInv => ExcludesBeforeCrash
  BY DEF IInv, ExcludesBeforeCrash, MutualExclusion
<1>2. QED
  BY <1>1, InvHolds, PTL

(* Until a caller dies, the file at the path is the holder's own.          *)
THEOREM HolderKeepsFileHolds == Spec => []HolderKeepsFile
<1>1. IInv => HolderKeepsFile
  BY DEF IInv, HolderKeepsFile
<1>2. QED
  BY <1>1, InvHolds, PTL
=============================================================================
