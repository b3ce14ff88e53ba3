---------------------------- MODULE ClaimsProofs ----------------------------
(***************************************************************************)
(* Proofs about Claims, for every set of entries, actors and verdicts.     *)
(*                                                                         *)
(* What makes the guard enough is CopiesSound: a copy no other save has    *)
(* overtaken is a legal successor of the record that is in the store now,  *)
(* and its maker may still end the claim that record carries.              *)
(***************************************************************************)
EXTENDS Claims, TLAPS

Coherent(r) ==
    /\ r.claim # NoClaim => r.status = "in-progress"
    /\ IF r.status \in Verdicts THEN r.result # NoResult /\ r.result.verdict = r.status
       ELSE r.result = NoResult

MayEnd(a, e, claim) ==
    \/ <<e, claim.id>> \in tokens[a]
    \/ claim.by = SessionOf[a]
    \/ age[e] > TTL

(* The moves of ClaimLease, as pairs of records. *)
LeaseMove(r, s) ==
    \/ s.claim = r.claim /\ s.result = r.result /\ s.archived = r.archived
    \/ /\ r.claim = NoClaim /\ r.result = NoResult /\ s.claim \in Claim
       /\ s.result = r.result /\ s.archived = r.archived
    \/ /\ r.claim # NoClaim /\ s.claim = NoClaim
       /\ s.result = r.result /\ s.archived = r.archived
    \/ /\ r.result = NoResult /\ s.result \in Result
       /\ s.claim = NoClaim /\ s.archived = r.archived
    \/ /\ r.result # NoResult /\ s.result = NoResult
       /\ s.archived = r.archived \union {r.result} /\ s.claim = r.claim

Sound(a, e, r, s) ==
    /\ Coherent(s)
    /\ s.status = "in-progress" /\ s.claim = NoClaim
          => r.status = "in-progress" /\ r.claim = NoClaim
    /\ r.claim # NoClaim /\ s.claim # r.claim
          => s.claim = NoClaim /\ MayEnd(a, e, r.claim)
    /\ LeaseMove(r, s)

CopiesSound ==
    \A a \in Actors : op[a] # Idle /\ a \notin stale
        => Sound(a, op[a].entry, entry[op[a].entry], op[a].after)

AllCoherent == \A e \in Entries : Coherent(entry[e])

ClaimCopies ==
    \A a \in Actors : op[a] # Idle /\ op[a].kind = "claim" => op[a].after.claim # NoClaim

IInv == TypeOK /\ AllCoherent /\ CopiesSound /\ ClaimCopies /\ VerdictsKept

-----------------------------------------------------------------------------
LEMMA ApplyFields ==
  ASSUME NEW r \in Record, NEW dest \in Statuses, NEW result \in {NoResult} \union Result,
         dest \in Verdicts => result \in Result
  PROVE  /\ Apply(r, dest, result) \in Record
         /\ Apply(r, dest, result).status = dest
         /\ Apply(r, dest, result).claim = r.claim
         /\ dest \in Verdicts => Apply(r, dest, result).result = result
         /\ dest = "queued" => Apply(r, dest, result).result = NoResult
         /\ dest \notin Verdicts /\ dest # "queued"
               => Apply(r, dest, result).result = r.result
         /\ dest = "queued" /\ r.result # NoResult
               => Apply(r, dest, result).archived = r.archived \union {r.result}
         /\ dest # "queued" \/ r.result = NoResult
               => Apply(r, dest, result).archived = r.archived
<1>1. /\ r.status \in Statuses /\ r.claim \in {NoClaim} \union Claim
      /\ r.result \in {NoResult} \union Result /\ r.archived \in SUBSET Result
  BY DEF Record
<1>2. "queued" \notin Verdicts
  BY ClaimsAssumption
<1> DEFINE newResult == IF dest \in Verdicts THEN result
                        ELSE IF dest = "queued" THEN NoResult ELSE r.result
           newArchived == IF dest = "queued" /\ r.result # NoResult
                          THEN r.archived \union {r.result} ELSE r.archived
<1>3. Apply(r, dest, result)
        = [status |-> dest, claim |-> r.claim, result |-> newResult,
           archived |-> newArchived]
  BY DEF Apply
<1>4. newResult \in {NoResult} \union Result /\ newArchived \in SUBSET Result
  <2>1. newResult \in {NoResult} \union Result
    BY <1>1
  <2>2. r.result # NoResult => {r.result} \subseteq Result
    BY <1>1
  <2>3. r.archived \subseteq Result
    BY <1>1
  <2>4. newArchived \subseteq Result
    BY <2>2, <2>3
  <2>5. QED
    BY <2>1, <2>4
<1>5. Apply(r, dest, result) \in Record
  BY <1>1, <1>3, <1>4 DEF Record
<1>6. /\ Apply(r, dest, result).status = dest /\ Apply(r, dest, result).claim = r.claim
      /\ Apply(r, dest, result).result = newResult
      /\ Apply(r, dest, result).archived = newArchived
  BY <1>3
<1> HIDE DEF newResult, newArchived
<1>7. /\ dest \in Verdicts => newResult = result
      /\ dest = "queued" => newResult = NoResult
      /\ dest \notin Verdicts /\ dest # "queued" => newResult = r.result
      /\ dest = "queued" /\ r.result # NoResult
            => newArchived = r.archived \union {r.result}
      /\ dest # "queued" \/ r.result = NoResult => newArchived = r.archived
  BY <1>2 DEF newResult, newArchived
<1>8. QED
  BY <1>5, <1>6, <1>7

LEMMA WithClaim ==
  ASSUME NEW r \in Record, NEW claim \in {NoClaim} \union Claim
  PROVE  /\ [r EXCEPT !.claim = claim] \in Record
         /\ [r EXCEPT !.claim = claim].claim = claim
         /\ [r EXCEPT !.claim = claim].status = r.status
         /\ [r EXCEPT !.claim = claim].result = r.result
         /\ [r EXCEPT !.claim = claim].archived = r.archived
BY DEF Record

LEMMA VacateFields ==
  ASSUME NEW r \in Record, NEW dest \in Statuses, NEW result \in {NoResult} \union Result,
         dest \in Verdicts => result \in Result
  PROVE  /\ Vacate(r, dest, result) \in Record
         /\ Vacate(r, dest, result).status = dest
         /\ Vacate(r, dest, result).claim = NoClaim
         /\ dest \in Verdicts => Vacate(r, dest, result).result = result
         /\ dest = "queued" => Vacate(r, dest, result).result = NoResult
         /\ dest \notin Verdicts /\ dest # "queued"
               => Vacate(r, dest, result).result = r.result
         /\ dest = "queued" /\ r.result # NoResult
               => Vacate(r, dest, result).archived = r.archived \union {r.result}
         /\ dest # "queued" \/ r.result = NoResult
               => Vacate(r, dest, result).archived = r.archived
<1>1. Apply(r, dest, result) \in Record
  BY ApplyFields
<1>2. NoClaim \in {NoClaim} \union Claim
  OBVIOUS
<1>3. QED
  BY <1>1, <1>2, ApplyFields, WithClaim DEF Vacate

(* Vacating an owned or unclaimed record to the queue is sound. *)
LEMMA VacateToQueueSound ==
  ASSUME TypeOK, AllCoherent, NEW a \in Actors, NEW e \in Entries,
         <<entry[e].status, "queued">> \in Transitions,
         entry[e].claim # NoClaim => MayEnd(a, e, entry[e].claim)
  PROVE  /\ Vacate(entry[e], "queued", NoResult) \in Record
         /\ Sound(a, e, entry[e], Vacate(entry[e], "queued", NoResult))
<1>1. entry[e] \in Record /\ Coherent(entry[e])
  BY DEF TypeOK, AllCoherent
<1>2. "queued" \in Statuses /\ NoResult \in {NoResult} \union Result
  BY DEF Statuses
<1>3. "queued" \notin Verdicts /\ "in-progress" \notin Verdicts
  BY ClaimsAssumption
<1> DEFINE s == Vacate(entry[e], "queued", NoResult)
<1>4. /\ s \in Record /\ s.status = "queued" /\ s.claim = NoClaim /\ s.result = NoResult
      /\ entry[e].result # NoResult => s.archived = entry[e].archived \union {entry[e].result}
      /\ entry[e].result = NoResult => s.archived = entry[e].archived
  BY <1>1, <1>2, <1>3, VacateFields
<1>5. Coherent(s)
  BY <1>3, <1>4 DEF Coherent
<1>6. LeaseMove(entry[e], s)
  BY <1>1, <1>3, <1>4 DEF LeaseMove, Coherent
<1>7. QED
  BY <1>4, <1>5, <1>6 DEF Sound

LEMMA OwnerMayEnd ==
  ASSUME NEW a \in Actors, NEW e \in Entries, NEW presented \in Presentable(a),
         NEW pin, Owns(a, e, presented, pin)
  PROVE  MayEnd(a, e, entry[e].claim)
BY DEF Owns, Presentable, MayEnd

LEMMA SilentMayEnd ==
  ASSUME TypeOK, NEW e \in Entries, NEW a \in Actors, entry[e].claim # NoClaim,
         LastSeen(e) > TTL
  PROVE  MayEnd(a, e, entry[e].claim)
<1>1. entry[e].claim.by \in Sessions
  BY DEF TypeOK, Record, Claim
<1>2. age[e] \in Nat /\ quiet[entry[e].claim.by] \in Nat /\ TTL \in Nat
  BY <1>1, ClaimsAssumption DEF TypeOK, Timer
<1>3. age[e] > TTL
  BY <1>2 DEF LastSeen, Smaller
<1>4. QED
  BY <1>3 DEF MayEnd

-----------------------------------------------------------------------------
LEMMA ClaimEntrySound ==
  ASSUME IInv, NEW a \in Actors, NEW e \in Entries, ClaimEntry(a, e)
  PROVE  \E kind \in Kinds, after \in Record :
            /\ Begin(a, kind, e, after) /\ begun' \in ClaimIds
            /\ Sound(a, e, entry[e], after) /\ (kind = "claim" => after.claim # NoClaim)
<1> DEFINE claim == [by |-> SessionOf[a], id |-> begun + 1, token |-> TRUE]
           moved == Apply(entry[e], "in-progress", NoResult)
           after == [moved EXCEPT !.claim = claim]
<1>1. /\ entry[e].claim = NoClaim \/ entry[e].status = "queued"
      /\ <<entry[e].status, "in-progress">> \in Transitions
      /\ begun < MaxClaims /\ begun' = begun + 1
      /\ Begin(a, "claim", e, after)
  BY DEF ClaimEntry
<1>2. entry[e] \in Record /\ Coherent(entry[e]) /\ begun \in 0..MaxClaims
  BY DEF IInv, TypeOK, AllCoherent, ClaimIds
<1>3. begun + 1 \in ClaimIds
  BY <1>1, <1>2, ClaimsAssumption DEF ClaimIds
<1>4. claim \in Claim
  BY <1>3, ClaimsAssumption DEF Claim
<1>5. "queued" \notin Verdicts /\ "in-progress" \notin Verdicts /\ NoClaim \notin Claim
  BY ClaimsAssumption
<1>6. entry[e].status = "queued"
  BY <1>1, <1>5 DEF Transitions
<1>7. entry[e].claim = NoClaim /\ entry[e].result = NoResult
  BY <1>2, <1>5, <1>6 DEF Coherent
<1>8. /\ moved \in Record /\ moved.status = "in-progress"
      /\ moved.result = NoResult /\ moved.archived = entry[e].archived
  <2>1. "in-progress" \in Statuses /\ NoResult \in {NoResult} \union Result
    BY DEF Statuses
  <2>2. QED
    BY <1>2, <1>5, <1>7, <2>1, ApplyFields
<1> HIDE DEF moved, claim
<1>9. /\ after \in Record /\ after.claim = claim /\ after.status = "in-progress"
      /\ after.result = NoResult /\ after.archived = entry[e].archived
  BY <1>4, <1>8, WithClaim
<1>10. Sound(a, e, entry[e], after)
  <2>1. LeaseMove(entry[e], after)
    BY <1>4, <1>7, <1>9 DEF LeaseMove
  <2>2. Coherent(after)
    BY <1>5, <1>9 DEF Coherent
  <2>3. QED
    BY <1>4, <1>5, <1>7, <1>9, <2>1, <2>2 DEF Sound
<1>11. QED
  BY <1>1, <1>3, <1>4, <1>5, <1>9, <1>10 DEF Kinds, LockedKinds

LEMMA CloseSound ==
  ASSUME IInv, NEW a \in Actors, NEW e \in Entries, Close(a, e)
  PROVE  \E kind \in Kinds, after \in Record :
            /\ Begin(a, kind, e, after) /\ begun' \in ClaimIds
            /\ Sound(a, e, entry[e], after) /\ (kind = "claim" => after.claim # NoClaim)
<1> DEFINE under == IF entry[e].claim = NoClaim THEN 0 ELSE entry[e].claim.id
<1>1. entry[e] \in Record /\ Coherent(entry[e]) /\ begun' \in ClaimIds
  BY DEF IInv, TypeOK, AllCoherent, Close
<1>2. under \in ClaimIds
  BY <1>1, ClaimsAssumption DEF Record, Claim, ClaimIds
<1> HIDE DEF under
<1>3. PICK dest \in Verdicts \union {"blocked"} :
         /\ <<entry[e].status, dest>> \in Transitions
         /\ Begin(a, "close", e,
                  Vacate(entry[e], dest, [verdict |-> dest, under |-> under]))
  BY DEF Close, under
<1> DEFINE s == Vacate(entry[e], dest, [verdict |-> dest, under |-> under])
<1>4. /\ "queued" \notin Verdicts /\ "in-progress" \notin Verdicts
      /\ "blocked" \notin Verdicts
  BY ClaimsAssumption
<1>5. entry[e].status = "in-progress"
  BY <1>3, <1>4 DEF Transitions
<1>6. entry[e].result = NoResult
  BY <1>1, <1>4, <1>5 DEF Coherent
<1>7. entry[e].claim # NoClaim => MayEnd(a, e, entry[e].claim)
  <2>1. SUFFICES ASSUME entry[e].claim # NoClaim, entry[e].claim.by # SessionOf[a]
                 PROVE  MayEnd(a, e, entry[e].claim)
    BY DEF MayEnd
  <2>2. PICK presented \in Presentable(a) : Owns(a, e, presented, NoPin)
    BY <1>4, <1>5, <2>1 DEF Close, MayClose, Terminal
  <2>3. QED
    BY <2>2, OwnerMayEnd
<1>8. CASE dest \in Verdicts
  <2>1. dest \in Statuses /\ dest # "queued" /\ dest # "in-progress"
    BY <1>4, <1>8 DEF Statuses
  <2>2. [verdict |-> dest, under |-> under] \in Result
    BY <1>2, <1>8 DEF Result
  <2>3. /\ s \in Record /\ s.status = dest /\ s.claim = NoClaim
        /\ s.result = [verdict |-> dest, under |-> under]
        /\ s.archived = entry[e].archived
    BY <1>1, <1>6, <1>8, <2>1, <2>2, VacateFields
  <2>4. s.result \in Result /\ s.result # NoResult /\ s.result.verdict = s.status
    BY <2>2, <2>3, ClaimsAssumption
  <2>5. LeaseMove(entry[e], s)
    BY <1>6, <2>3, <2>4 DEF LeaseMove
  <2>6. Coherent(s)
    BY <1>8, <2>3, <2>4 DEF Coherent
  <2>7. Sound(a, e, entry[e], s)
    BY <1>7, <2>1, <2>3, <2>5, <2>6 DEF Sound
  <2>8. QED
    BY <1>1, <1>3, <2>3, <2>7 DEF Kinds
<1>9. CASE dest = "blocked"
  <2>1. /\ s \in Record /\ s.status = "blocked" /\ s.claim = NoClaim
        /\ s.result = NoResult /\ s.archived = entry[e].archived
    <3>1. dest \in Statuses /\ dest # "queued" /\ dest \notin Verdicts
      BY <1>4, <1>9 DEF Statuses
    <3>2. Vacate(entry[e], dest, [verdict |-> dest, under |-> under])
            = Vacate(entry[e], dest, NoResult)
      BY <1>4, <1>9 DEF Vacate, Apply
    <3>3. QED
      BY <1>1, <1>6, <1>9, <3>1, <3>2, VacateFields
  <2>2. LeaseMove(entry[e], s)
    BY <1>1, <1>6, <2>1 DEF LeaseMove, Record
  <2>3. Coherent(s)
    BY <1>4, <2>1 DEF Coherent
  <2>4. Sound(a, e, entry[e], s)
    BY <1>7, <2>1, <2>2, <2>3 DEF Sound
  <2>5. QED
    BY <1>1, <1>3, <2>1, <2>4 DEF Kinds
<1>10. QED
  BY <1>3, <1>8, <1>9

LEMMA UnchangedSound ==
  ASSUME IInv, NEW a \in Actors, NEW e \in Entries
  PROVE  entry[e] \in Record /\ Sound(a, e, entry[e], entry[e])
<1>1. entry[e] \in Record /\ Coherent(entry[e])
  BY DEF IInv, TypeOK, AllCoherent
<1>2. LeaseMove(entry[e], entry[e])
  BY DEF LeaseMove
<1>3. QED
  BY <1>1, <1>2 DEF Sound

(* Every verb hands save() a sound copy. *)
LEMMA VerbSound ==
  ASSUME IInv, NEW a \in Actors, NEW e \in Entries, Verb(a, e)
  PROVE  \E kind \in Kinds, after \in Record :
            /\ Begin(a, kind, e, after) /\ begun' \in ClaimIds
            /\ Sound(a, e, entry[e], after) /\ (kind = "claim" => after.claim # NoClaim)
<1> USE DEF Kinds, LockedKinds
<1>1. TypeOK /\ AllCoherent /\ begun \in ClaimIds
  BY DEF IInv, TypeOK
<1>2. CASE Release(a, e)
  <2>1. PICK presented \in Presentable(a), pin \in PinsOn(a, e) : Owns(a, e, presented, pin)
    BY <1>2 DEF Release
  <2>2. MayEnd(a, e, entry[e].claim)
    BY <2>1, OwnerMayEnd
  <2>3. QED
    BY <1>1, <1>2, <2>2, VacateToQueueSound DEF Release
<1>3. CASE Reap(a, e)
  <2>1. entry[e].claim # NoClaim => MayEnd(a, e, entry[e].claim)
    BY <1>1, <1>3, SilentMayEnd DEF Reap
  <2>2. QED
    BY <1>1, <1>3, <2>1, VacateToQueueSound DEF Reap
<1>4. CASE Reopen(a, e)
  <2>1. entry[e].claim # NoClaim => ~Terminal(e)
    BY <1>1, ClaimsAssumption DEF AllCoherent, Coherent, Terminal
  <2>2. entry[e].claim # NoClaim => MayEnd(a, e, entry[e].claim)
    <3>1. SUFFICES ASSUME entry[e].claim # NoClaim PROVE MayEnd(a, e, entry[e].claim)
      OBVIOUS
    <3>2. PICK presented \in Presentable(a) : Owns(a, e, presented, NoPin)
      BY <1>4, <2>1, <3>1 DEF Reopen
    <3>3. QED
      BY <3>2, OwnerMayEnd
  <2>3. QED
    BY <1>1, <1>4, <2>2, VacateToQueueSound DEF Reopen
<1>5. CASE Mutate(a, e)
  BY <1>1, <1>5, UnchangedSound DEF Mutate
<1>6. CASE Annotate(a, e)
  BY <1>1, <1>6, UnchangedSound DEF Annotate
<1>7. QED
  BY <1>2, <1>3, <1>4, <1>5, <1>6, ClaimEntrySound, CloseSound DEF Verb

-----------------------------------------------------------------------------
LEMMA BeginKeeps ==
  ASSUME IInv, NEW a \in Actors, NEW e \in Entries, NEW kind \in Kinds, NEW after \in Record,
         Begin(a, kind, e, after), begun' \in ClaimIds, Sound(a, e, entry[e], after),
         kind = "claim" => after.claim # NoClaim
  PROVE  IInv'
<1> DEFINE o == [kind |-> kind, entry |-> e, after |-> after]
<1>1. /\ op' = [op EXCEPT ![a] = o]
      /\ UNCHANGED <<entry, stale, tokens, pins, age, quiet, live, issued>>
  BY DEF Begin
<1>2. o \in Operation /\ o.entry = e /\ o.after = after
  BY DEF Operation
<1> HIDE DEF o
<1>3. TypeOK'
  BY <1>1, <1>2 DEF IInv, TypeOK
<1>4. AllCoherent' /\ VerdictsKept' /\ ClaimCopies'
  BY <1>1, <1>2 DEF IInv, TypeOK, AllCoherent, Coherent, VerdictsKept, ClaimCopies, o
<1>5. CopiesSound'
  <2> SUFFICES ASSUME NEW b \in Actors, op'[b] # Idle, b \notin stale'
               PROVE  Sound(b, op'[b].entry, entry[op'[b].entry], op'[b].after)
    BY <1>1, ZenonT(60) DEF CopiesSound, Sound, MayEnd, Coherent, LeaseMove
  <2>1. CASE b = a
    BY <1>1, <1>2, <2>1 DEF IInv, TypeOK
  <2>2. CASE b # a
    BY <1>1, <2>2 DEF IInv, TypeOK, CopiesSound
  <2>3. QED
    BY <2>1, <2>2
<1>6. QED
  BY <1>3, <1>4, <1>5 DEF IInv

(* A step that starts no verb, saves nothing, and takes away no token and  *)
(* no expired age.                                                         *)
LEMMA IdleKeeps ==
  ASSUME IInv, TypeOK',
         UNCHANGED <<entry, issued>>, stale' \subseteq stale,
         \A b \in Actors : op'[b] # Idle => op'[b] = op[b] /\ (b \in stale => b \in stale'),
         \A b \in Actors : tokens[b] \subseteq tokens'[b],
         \A e \in Entries : entry[e].claim # NoClaim /\ age[e] > TTL => age'[e] > TTL
  PROVE  IInv'
<1>1. AllCoherent' /\ VerdictsKept' /\ ClaimCopies'
  BY DEF IInv, AllCoherent, Coherent, VerdictsKept, ClaimCopies
<1>2. CopiesSound'
  <2> SUFFICES ASSUME NEW b \in Actors, op'[b] # Idle, b \notin stale'
               PROVE  Sound(b, op[b].entry, entry[op[b].entry], op[b].after)'
    BY DEF CopiesSound
  <2>1. op'[b] = op[b] /\ b \notin stale /\ op[b] \in Operation
    BY DEF IInv, TypeOK
  <2>2. op[b].entry \in Entries
    BY <2>1 DEF Operation
  <2>3. Sound(b, op[b].entry, entry[op[b].entry], op[b].after)
    BY <2>1 DEF IInv, CopiesSound
  <2>4. QED
    BY <2>1, <2>2, <2>3 DEF Sound, MayEnd, Coherent, LeaseMove
<1>3. QED
  BY <1>1, <1>2 DEF IInv

LEMMA SaveKeeps ==
  ASSUME IInv, NEW a \in Actors, Save(a)
  PROVE  /\ IInv'
         /\ op[a].entry \in Entries
         /\ entry' = [entry EXCEPT ![op[a].entry] = op[a].after]
         /\ Sound(a, op[a].entry, entry[op[a].entry], op[a].after)
<1> DEFINE e == op[a].entry
           after == op[a].after
<1>1. op[a] \in Operation /\ op[a] # Idle /\ a \notin stale
  BY DEF Save, MaySave, IInv, TypeOK
<1>2. e \in Entries /\ after \in Record /\ op[a].kind \in Kinds
  BY <1>1 DEF Operation
<1>3. Sound(a, e, entry[e], after)
  BY <1>1 DEF IInv, CopiesSound
<1>4. /\ entry' = [entry EXCEPT ![e] = after]
      /\ stale' = stale \union {b \in Actors : b # a /\ op[b] # Idle /\ op[b].entry = e}
      /\ tokens' = IF op[a].kind = "claim" THEN [tokens EXCEPT ![a] = @ \union {<<e, after.claim.id>>}]
                   ELSE tokens
      /\ age' = IF op[a].kind = "claim" \/ after.claim = NoClaim THEN [age EXCEPT ![e] = 0] ELSE age
      /\ quiet' = [quiet EXCEPT ![SessionOf[a]] = 0]
      /\ issued' = [issued EXCEPT ![e] =
                       IF after.result = NoResult THEN @ ELSE @ \union {after.result}]
      /\ op' = [op EXCEPT ![a] = Idle]
      /\ UNCHANGED <<pins, begun, live>>
  BY DEF Save
<1> HIDE DEF e, after
<1>5. 0 \in Timer
  BY ClaimsAssumption DEF Timer
<1>6. TypeOK'
  <2>1. entry' \in [Entries -> Record]
    BY <1>2, <1>4 DEF IInv, TypeOK
  <2>2. after.result \in {NoResult} \union Result
    BY <1>2 DEF Record
  <2>3. issued' \in [Entries -> SUBSET Result]
    BY <1>2, <1>4, <2>2 DEF IInv, TypeOK
  <2>4. age' \in [Entries -> Timer] /\ quiet' \in [Sessions -> Timer]
    BY <1>2, <1>4, <1>5, ClaimsAssumption DEF IInv, TypeOK
  <2>5. tokens' \in [Actors -> SUBSET (Entries \X ClaimIds)]
    <3>1. CASE op[a].kind = "claim"
      <4>1. after.claim \in Claim
        BY <1>1, <1>2, <3>1 DEF IInv, ClaimCopies, Record, after
      <4>2. <<e, after.claim.id>> \in Entries \X ClaimIds
        BY <1>2, <4>1 DEF Claim
      <4>3. QED
        BY <1>4, <3>1, <4>2 DEF IInv, TypeOK
    <3>2. CASE op[a].kind # "claim"
      BY <1>4, <3>2 DEF IInv, TypeOK
    <3>3. QED
      BY <3>1, <3>2
  <2>6. QED
    BY <1>4, <2>1, <2>3, <2>4, <2>5 DEF IInv, TypeOK
<1>7. AllCoherent' /\ ClaimCopies'
  BY <1>2, <1>3, <1>4 DEF IInv, TypeOK, AllCoherent, Sound, Coherent, ClaimCopies
<1>8. VerdictsKept'
  <2> SUFFICES ASSUME NEW f \in Entries, NEW v \in issued'[f]
               PROVE  v \in entry'[f].archived \union {entry'[f].result}
    BY DEF VerdictsKept
  <2>1. CASE f # e
    BY <1>2, <1>4, <2>1 DEF IInv, TypeOK, VerdictsKept
  <2>2. CASE f = e
    <3>1. entry'[e] = after
      BY <1>2, <1>4 DEF IInv, TypeOK
    <3>2. v \in issued[e] \/ (v = after.result)
      BY <1>2, <1>4, <2>2 DEF IInv, TypeOK
    <3>3. CASE v \in issued[e]
      <4>1. v \in Result /\ v \in entry[e].archived \union {entry[e].result}
        BY <1>2, <3>3 DEF IInv, TypeOK, VerdictsKept
      <4>2. v # NoResult
        BY <4>1, ClaimsAssumption
      <4>3. v \in after.archived \union {after.result}
        BY <1>3, <4>1, <4>2 DEF Sound, LeaseMove
      <4>4. QED
        BY <2>2, <3>1, <4>3
    <3>4. QED
      BY <2>2, <3>1, <3>2, <3>3
  <2>3. QED
    BY <2>1, <2>2
<1>9. CopiesSound'
  <2> SUFFICES ASSUME NEW b \in Actors, op'[b] # Idle, b \notin stale'
               PROVE  Sound(b, op[b].entry, entry[op[b].entry], op[b].after)'
    BY DEF CopiesSound
  <2>1. b # a /\ op'[b] = op[b] /\ b \notin stale /\ op[b] \in Operation /\ op[b].entry # e
    BY <1>4 DEF IInv, TypeOK
  <2>2. op[b].entry \in Entries
    BY <2>1 DEF Operation
  <2>3. entry'[op[b].entry] = entry[op[b].entry] /\ age'[op[b].entry] = age[op[b].entry]
    BY <1>4, <2>1, <2>2 DEF IInv, TypeOK
  <2>4. tokens[b] = tokens'[b]
    BY <1>4, <2>1 DEF IInv, TypeOK
  <2>5. Sound(b, op[b].entry, entry[op[b].entry], op[b].after)
    BY <2>1 DEF IInv, CopiesSound
  <2>6. QED
    BY <2>1, <2>3, <2>4, <2>5 DEF Sound, MayEnd, Coherent, LeaseMove
<1>10. IInv'
  BY <1>6, <1>7, <1>8, <1>9 DEF IInv
<1>11. QED
  BY <1>2, <1>3, <1>4, <1>10 DEF e, after

LEMMA InitHolds ==
  Init => IInv /\ \A e \in Entries : entry[e].result = NoResult /\ entry[e].archived = {}
<1> SUFFICES ASSUME Init
             PROVE  IInv /\ \A e \in Entries : entry[e].result = NoResult
                                               /\ entry[e].archived = {}
  OBVIOUS
<1>1. /\ "queued" \in Statuses /\ "in-progress" \in Statuses
      /\ "queued" \notin Verdicts /\ "in-progress" \notin Verdicts
      /\ 0 \in ClaimIds /\ 0 \in Timer
  BY ClaimsAssumption DEF Statuses, ClaimIds, Timer
<1>2. Fresh \in Record /\ Coherent(Fresh)
  BY <1>1 DEF Fresh, Record, Coherent
<1>3. Orphan = [status |-> "in-progress", claim |-> NoClaim, result |-> NoResult,
                archived |-> {}]
  BY DEF Orphan, Fresh
<1>4. Orphan \in Record /\ Coherent(Orphan)
  BY <1>1, <1>3 DEF Record, Coherent
<1>5. ASSUME NEW t \in Sessions
      PROVE  /\ Migrated(t) \in Record /\ Coherent(Migrated(t))
             /\ Migrated(t).result = NoResult /\ Migrated(t).archived = {}
  <2>1. [by |-> t, id |-> 0, token |-> FALSE] \in Claim
    BY <1>1 DEF Claim
  <2>2. /\ Migrated(t) \in Record
        /\ Migrated(t).status = "in-progress" /\ Migrated(t).result = NoResult
        /\ Migrated(t).archived = {}
    BY <1>3, <1>4, <2>1, WithClaim DEF Migrated
  <2>3. QED
    BY <1>1, <2>2 DEF Coherent
<1>6. \A e \in Entries : /\ entry[e] \in Record /\ Coherent(entry[e])
                         /\ entry[e].result = NoResult /\ entry[e].archived = {}
  <2>1. Fresh.result = NoResult /\ Fresh.archived = {}
    BY DEF Fresh
  <2>2. Orphan.result = NoResult /\ Orphan.archived = {}
    BY <1>3
  <2>3. QED
    BY <1>2, <1>4, <1>5, <2>1, <2>2 DEF Init
<1>7. entry \in [Entries -> Record]
  BY <1>6 DEF Init
<1>8. QED
  BY <1>1, <1>6, <1>7
     DEF Init, IInv, TypeOK, AllCoherent, CopiesSound, ClaimCopies, VerdictsKept

LEMMA StepHolds == IInv /\ [Next]_vars => IInv'
<1> SUFFICES ASSUME IInv, [Next]_vars PROVE IInv'
  OBVIOUS
<1>1. ASSUME NEW a \in Actors, NEW e \in Entries, Verb(a, e) PROVE IInv'
  BY <1>1, VerbSound, BeginKeeps
<1>2. ASSUME NEW a \in Actors, NEW e \in Entries, Pin(a, e) PROVE IInv'
  <2>1. entry[e].claim \in Claim
    BY <1>2 DEF Pin, Owns, IInv, TypeOK, Record
  <2>2. TypeOK'
    BY <1>2, <2>1 DEF Pin, IInv, TypeOK, Claim
  <2>3. QED
    BY <1>2, <2>2, IdleKeeps DEF Pin
<1>3. ASSUME NEW a \in Actors, Save(a) PROVE IInv'
  BY <1>3, SaveKeeps
<1>4. ASSUME NEW a \in Actors, Refused(a) PROVE IInv'
  <2>1. TypeOK'
    BY <1>4 DEF Refused, IInv, TypeOK
  <2>2. \A b \in Actors : op'[b] # Idle => b # a /\ op'[b] = op[b]
    BY <1>4 DEF Refused, IInv, TypeOK
  <2>3. QED
    BY <1>4, <2>1, <2>2, IdleKeeps DEF Refused
<1>5. ASSUME NEW a \in Actors, Die(a) PROVE IInv'
  <2>1. TypeOK'
    BY <1>5 DEF Die, IInv, TypeOK
  <2>2. \A b \in Actors : op'[b] # Idle => b # a /\ op'[b] = op[b]
    BY <1>5 DEF Die, IInv, TypeOK
  <2>3. QED
    BY <1>5, <2>1, <2>2, IdleKeeps DEF Die
<1>6. ASSUME NEW a \in Actors, Work(a) PROVE IInv'
  <2>1. TypeOK'
    BY <1>6, ClaimsAssumption DEF Work, IInv, TypeOK, Timer
  <2>2. QED
    BY <1>6, <2>1, IdleKeeps DEF Work
<1>7. CASE Tick
  <2>1. ASSUME NEW n \in Timer PROVE Smaller(n + 1, TTL + 1) \in Timer
    BY ClaimsAssumption DEF Timer, Smaller
  <2>2. age' \in [Entries -> Timer] /\ quiet' \in [Sessions -> Timer]
    BY <1>7, <2>1, ClaimsAssumption DEF Tick, IInv, TypeOK, Timer
  <2>3. TypeOK'
    BY <1>7, <2>2 DEF Tick, IInv, TypeOK
  <2>4. \A e \in Entries : entry[e].claim # NoClaim /\ age[e] > TTL => age'[e] > TTL
    BY <1>7, ClaimsAssumption DEF Tick, IInv, TypeOK, Timer, Smaller
  <2>5. QED
    BY <1>7, <2>3, <2>4, IdleKeeps DEF Tick
<1>8. CASE UNCHANGED vars
  <2>1. TypeOK'
    BY <1>8 DEF vars, IInv, TypeOK
  <2>2. QED
    BY <1>8, <2>1, IdleKeeps DEF vars
<1>9. QED
  BY <1>1, <1>2, <1>3, <1>4, <1>5, <1>6, <1>7, <1>8 DEF Next

LEMMA InvHolds == Spec => []IInv
BY InitHolds, StepHolds, PTL DEF Spec

(* A step that changes a record is the save of a sound copy. *)
LEMMA OnlySavesWrite ==
  ASSUME IInv, [Next]_vars, entry' # entry
  PROVE  \E a \in Actors : Save(a)
<1>1. ASSUME NEW a \in Actors, NEW e \in Entries, Verb(a, e) PROVE entry' = entry
  BY <1>1 DEF Verb, ClaimEntry, Release, Reap, Close, Reopen, Mutate, Annotate, Begin
<1>2. ASSUME NEW a \in Actors, NEW e \in Entries, Pin(a, e) PROVE entry' = entry
  BY <1>2 DEF Pin
<1>3. ASSUME NEW a \in Actors, Refused(a) \/ Die(a) \/ Work(a) PROVE entry' = entry
  BY <1>3 DEF Refused, Die, Work
<1>4. Tick \/ UNCHANGED vars => entry' = entry
  BY DEF Tick, vars
<1>5. QED
  BY <1>1, <1>2, <1>3, <1>4 DEF Next

-----------------------------------------------------------------------------
(* Every record on disk and in every copy stays one the schema admits,     *)
(* through any chain of verbs (claims.py, cli.py).                         *)
THEOREM TypeCorrect == Spec => []TypeOK
BY InvHolds, PTL DEF IInv

(* In every reachable state a claim means work in progress, and there is a *)
(* verdict exactly when the status is that verdict.                        *)
THEOREM RecordCoherentHolds == Spec => []RecordCoherent
<1>1. IInv => RecordCoherent
  BY DEF IInv, AllCoherent, Coherent, RecordCoherent, Terminal
<1>2. QED
  BY <1>1, InvHolds, PTL

(* No verdict that was ever saved is lost. *)
THEOREM VerdictsKeptHolds == Spec => []VerdictsKept
BY InvHolds, PTL DEF IInv

(* No verb leaves work in progress that nobody holds. *)
THEOREM NoNewOrphansHolds == Spec => NoNewOrphans
<1>1. IInv /\ [Next]_vars => [\A e \in Entries : Unowned(e)' => Unowned(e)]_vars
  <2> SUFFICES ASSUME IInv, [Next]_vars, NEW e \in Entries, Unowned(e)' PROVE Unowned(e)
    OBVIOUS
  <2>1. CASE entry' = entry
    BY <2>1 DEF Unowned
  <2>2. CASE entry' # entry
    <3>1. PICK a \in Actors : Save(a)
      BY <2>2, OnlySavesWrite
    <3>2. /\ op[a].entry \in Entries
          /\ entry' = [entry EXCEPT ![op[a].entry] = op[a].after]
          /\ Sound(a, op[a].entry, entry[op[a].entry], op[a].after)
      BY <3>1, SaveKeeps
    <3>3. CASE e = op[a].entry
      BY <3>2, <3>3 DEF IInv, TypeOK, Sound, Unowned
    <3>4. CASE e # op[a].entry
      BY <3>2, <3>4 DEF IInv, TypeOK, Unowned
    <3>5. QED
      BY <3>3, <3>4
  <2>3. QED
    BY <2>1, <2>2
<1>2. QED
  BY <1>1, InvHolds, PTL DEF Spec, NoNewOrphans

(* A claim ends only by its token, under its holder's name or past the TTL,*)
(* and never because another claim is written over it.                     *)
THEOREM ClaimsEndRightfullyHolds == Spec => ClaimsEndRightfully
<1> DEFINE Rightful(a, e) ==
      Ends(a, e) => /\ entry'[e].claim = NoClaim
                    /\ \/ <<e, entry[e].claim.id>> \in tokens[a]
                       \/ entry[e].claim.by = SessionOf[a]
                       \/ age[e] > TTL
<1>1. IInv /\ [Next]_vars => [\A a \in Actors, e \in Entries : Rightful(a, e)]_vars
  <2> SUFFICES ASSUME IInv, [Next]_vars, NEW a \in Actors, NEW e \in Entries, Ends(a, e)
               PROVE  Rightful(a, e)
    OBVIOUS
  <2>1. entry' # entry
    BY DEF Ends
  <2>2. PICK b \in Actors : Save(b)
    BY <2>1, OnlySavesWrite
  <2>3. op' = [op EXCEPT ![b] = Idle]
    BY <2>2 DEF Save
  <2>4. a = b
    BY <2>3 DEF Ends, IInv, TypeOK
  <2>5. /\ op[a].entry \in Entries
        /\ entry' = [entry EXCEPT ![op[a].entry] = op[a].after]
        /\ Sound(a, op[a].entry, entry[op[a].entry], op[a].after)
    BY <2>2, <2>4, SaveKeeps
  <2>6. e = op[a].entry /\ entry'[e] = op[a].after
    BY <2>5 DEF Ends, IInv, TypeOK
  <2>7. QED
    BY <2>5, <2>6 DEF Sound, MayEnd, Ends
<1>2. QED
  BY <1>1, InvHolds, PTL DEF Spec, ClaimsEndRightfully

(* Every behaviour of the verbs is a behaviour of the lease they promise. *)
THEOREM ImplementsLease == Spec => LeaseSpec
<1>1. Init => Lease!Init
  <2> SUFFICES ASSUME Init PROVE Lease!Init
    OBVIOUS
  <2>1. \A e \in Entries : /\ entry[e].claim \in Claim \union {NoClaim}
                           /\ entry[e].result = NoResult /\ entry[e].archived = {}
    BY InitHolds DEF IInv, TypeOK, Record
  <2>2. QED
    BY <2>1 DEF Lease!Init
<1>2. IInv /\ [Next]_vars => [Lease!Next]_(Lease!vars)
  <2> SUFFICES ASSUME IInv, [Next]_vars PROVE [Lease!Next]_(Lease!vars)
    OBVIOUS
  <2>1. CASE entry' = entry
    BY <2>1 DEF Lease!vars
  <2>2. CASE entry' # entry
    <3>1. PICK a \in Actors : Save(a)
      BY <2>2, OnlySavesWrite
    <3>2. PICK e \in Entries, s \in Record : entry' = [entry EXCEPT ![e] = s] /\ LeaseMove(entry[e], s)
      <4>1. /\ op[a].entry \in Entries
            /\ entry' = [entry EXCEPT ![op[a].entry] = op[a].after]
            /\ LeaseMove(entry[op[a].entry], op[a].after)
        BY <3>1, SaveKeeps DEF Sound
      <4>2. op[a].after \in Record
        BY <3>1 DEF IInv, TypeOK, Save, MaySave, Operation
      <4>3. QED
        BY <4>1, <4>2
    <3>3. /\ entry'[e] = s
          /\ \A f \in Entries : f # e => entry'[f] = entry[f]
      BY <3>2 DEF IInv, TypeOK
    <3> DEFINE H == [f \in Entries |-> entry[f].claim]
               R == [f \in Entries |-> entry[f].result]
               W == [f \in Entries |-> entry[f].archived]
    <3>4. /\ H' = [H EXCEPT ![e] = s.claim]
          /\ R' = [R EXCEPT ![e] = s.result]
          /\ W' = [W EXCEPT ![e] = s.archived]
          /\ H[e] = entry[e].claim /\ R[e] = entry[e].result /\ W[e] = entry[e].archived
      <4>1. /\ H[e] = entry[e].claim /\ R[e] = entry[e].result
            /\ W[e] = entry[e].archived
        OBVIOUS
      <4>2. [f \in Entries |-> entry'[f].claim] = [H EXCEPT ![e] = s.claim]
        BY <3>3
      <4>3. [f \in Entries |-> entry'[f].result] = [R EXCEPT ![e] = s.result]
        BY <3>3
      <4>4. [f \in Entries |-> entry'[f].archived] = [W EXCEPT ![e] = s.archived]
        BY <3>3
      <4>5. QED
        BY <4>1, <4>2, <4>3, <4>4
    <3>5. CASE s.claim = entry[e].claim /\ s.result = entry[e].result
               /\ s.archived = entry[e].archived
      BY <3>4, <3>5 DEF Lease!vars
    <3>6. CASE /\ entry[e].claim = NoClaim /\ entry[e].result = NoResult /\ s.claim \in Claim
               /\ s.result = entry[e].result /\ s.archived = entry[e].archived
      <4>1. Lease!Take(e)
        BY <3>4, <3>6 DEF Lease!Take
      <4>2. QED
        BY <3>2, <4>1 DEF Lease!Next
    <3>7. CASE /\ entry[e].claim # NoClaim /\ s.claim = NoClaim
               /\ s.result = entry[e].result /\ s.archived = entry[e].archived
      <4>1. Lease!HandBack(e)
        BY <3>4, <3>7 DEF Lease!HandBack
      <4>2. QED
        BY <3>2, <4>1 DEF Lease!Next
    <3>8. CASE /\ entry[e].result = NoResult /\ s.result \in Result
               /\ s.claim = NoClaim /\ s.archived = entry[e].archived
      <4>1. Lease!Settle(e)
        BY <3>4, <3>8 DEF Lease!Settle
      <4>2. QED
        BY <3>2, <4>1 DEF Lease!Next
    <3>9. CASE /\ entry[e].result # NoResult /\ s.result = NoResult
               /\ s.archived = entry[e].archived \union {entry[e].result}
               /\ s.claim = entry[e].claim
      <4>1. Lease!Reopen(e)
        BY <3>4, <3>9 DEF Lease!Reopen
      <4>2. QED
        BY <3>2, <4>1 DEF Lease!Next
    <3>10. QED
      BY <3>2, <3>5, <3>6, <3>7, <3>8, <3>9 DEF LeaseMove
  <2>3. QED
    BY <2>1, <2>2
<1>3. QED
  BY <1>1, <1>2, InvHolds, PTL DEF Spec, LeaseSpec, Lease!Spec
=============================================================================
